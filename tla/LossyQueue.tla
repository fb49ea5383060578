----------------------------- MODULE LossyQueue -----------------------------
(***************************************************************************)
(* What ring_buffer.h promises to the daemon and to its consumers, without *)
(* slots, indices or threads: a bounded first-in first-out queue of whole  *)
(* entries, to which a push on a full queue adds nothing and says so.      *)
(*                                                                         *)
(* Pushes are numbered 1, 2, 3, ... in the order rb_push is called; entry  *)
(* n is the SmoothedMetrics struct of the n-th call, here the function     *)
(* that gives every machine word of the struct the number n.               *)
(***************************************************************************)
EXTENDS Naturals, Sequences

CONSTANTS
  Bound,    \* entries the queue can hold
  Words,    \* the words one struct copy is made of
  MaxPush   \* bound on the number of push calls

VARIABLES
  queue,    \* entries accepted and not yet received, oldest first
  sent,     \* push calls that have returned
  drops,    \* push calls that returned false
  received  \* the entry the consumer received last

vars == <<queue, sent, drops, received>>

Entry(n) == [w \in Words |-> n]

Init ==
  /\ queue = <<>>
  /\ sent = 0
  /\ drops = 0
  /\ received = Entry(0)

Accept ==
  /\ sent < MaxPush
  /\ Len(queue) < Bound
  /\ sent' = sent + 1
  /\ queue' = Append(queue, Entry(sent + 1))
  /\ UNCHANGED <<drops, received>>

\* Only a queue that really is full may refuse an entry.
Drop ==
  /\ sent < MaxPush
  /\ Len(queue) = Bound
  /\ sent' = sent + 1
  /\ drops' = drops + 1
  /\ UNCHANGED <<queue, received>>

Receive ==
  /\ queue # <<>>
  /\ received' = Head(queue)
  /\ queue' = Tail(queue)
  /\ UNCHANGED <<sent, drops>>

Next == Accept \/ Drop \/ Receive

Spec == Init /\ [][Next]_vars
=============================================================================
