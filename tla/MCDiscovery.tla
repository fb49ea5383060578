---------------------------- MODULE MCDiscovery ----------------------------
(* Constants of Discovery for TLC: three PIDs, one of them root's. *)
EXTENDS Discovery, TLC

CONSTANTS p1, p2, p3

MCSymmetry == Permutations({p1, p2})
=============================================================================
