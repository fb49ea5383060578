---------------------------- MODULE MCSlotTable ----------------------------
EXTENDS SlotTable, TLC

CONSTANTS p1, p2, p3   \* model values, where PIDs are interchangeable

MCSymmetry == Permutations(Pids)

\* A bound: what follows SIGTERM is left to the run of the two modes.
MCRunning == running

All         == [opt |-> "--all"]
PerCore     == [opt |-> "--per-core"]
OneCore     == [opt |-> "--cores", arg |-> {0, MaxCores}]
TooMany     == [opt |-> "--top", arg |-> MaxPids + 1]
TheOne      == [opt |-> "--pids", arg |-> <<1>>]
TwiceTheOne == [opt |-> "--pids", arg |-> <<1, 2, 1>>]

MCPerCoreLines  == {<<All, PerCore, OneCore>>}
MCModeLines == {<<TwiceTheOne>>, <<TooMany>>, <<TheOne, PerCore>>}
MCDefaultLine   == {<<>>}
=============================================================================
