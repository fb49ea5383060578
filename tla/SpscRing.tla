------------------------------ MODULE SpscRing ------------------------------
(***************************************************************************)
(* The shared-memory ring of ring_buffer.c: one producer (the daemon's     *)
(* sampling loop), one consumer (classifier or dashboard), no lock.        *)
(*                                                                         *)
(* A SmoothedMetrics entry is larger than any atomic access, so the struct *)
(* copies of rb_push and rb_pop are sequences of word accesses, done in    *)
(* any order and interleaved with everything the other side does.  head    *)
(* and tail are atomic_int; each side loads the index the other side owns  *)
(* once (acquire) and stores its own once (release), which are the only    *)
(* points where the sides synchronise.  Entry n is the struct of the n-th  *)
(* call of rb_push; each of its words carries n.                           *)
(*                                                                         *)
(* The interleaving of whole memory accesses is a sound reading of the C11 *)
(* program only if the word accesses never race: NoDataRace is therefore   *)
(* the first thing to establish.                                           *)
(***************************************************************************)
EXTENDS Naturals, Sequences

CONSTANTS
  Capacity,  \* RB_CAPACITY
  Words,     \* the words of a SmoothedMetrics struct
  MaxPush    \* bound on the number of calls of rb_push

ASSUME CapacityAssumption == Capacity \in Nat \ {0}
ASSUME MaxPushAssumption  == MaxPush \in Nat

VARIABLES
  slots,      \* rb->slots
  head,       \* rb->head, written by the producer only
  tail,       \* rb->tail, written by the consumer only
  ppc,        \* the producer: outside rb_push, or inside its struct copy
  unwritten,  \* words of the current entry rb_push has not copied yet
  pushed,     \* calls of rb_push so far, the current one included
  drops,      \* g_rb_drops / g_rb_dash_drops
  cpc,        \* the consumer: outside rb_pop, or inside its struct copy
  unread,     \* words rb_pop has not copied yet
  out,        \* *out, the consumer's private copy
  got,        \* the entry of the last rb_pop that returned true
  popped      \* calls of rb_pop that returned true

shared   == <<slots, head, tail>>
producer == <<ppc, unwritten, pushed, drops>>
consumer == <<cpc, unread, out, got, popped>>
vars     == <<shared, producer, consumer>>

Index    == 0 .. Capacity - 1
Entry(n) == [w \in Words |-> n]
\* Faults a ring like this could have are defined next to the definition each
\* of them would replace; no definition of the specification uses them.
SuccNoWrap(k)  == k + 1   \* the index never wraps
FullUnchecked  == FALSE   \* the full test is missing
EmptyUnchecked == FALSE   \* the empty test is missing

Succ(k) == (k + 1) % Capacity

Full  == Succ(head) = tail
Empty == head = tail

\* rb_create_named: the slots are zeroed and both indices reset.
Init ==
  /\ slots = [k \in Index |-> Entry(0)]
  /\ head = 0
  /\ tail = 0
  /\ ppc = "idle"
  /\ unwritten = {}
  /\ pushed = 0
  /\ drops = 0
  /\ cpc = "idle"
  /\ unread = {}
  /\ out = Entry(0)
  /\ got = Entry(0)
  /\ popped = 0

-----------------------------------------------------------------------------
(* rb_push, in the daemon *)

\* Fault: the caller does not count the drop.
PushDropUncounted ==
  /\ ppc = "idle"
  /\ pushed < MaxPush
  /\ Full
  /\ pushed' = pushed + 1
  /\ UNCHANGED <<shared, ppc, unwritten, drops, consumer>>

\* The acquire load of tail finds the ring full: the entry is dropped, tail
\* is left alone, and the caller counts the drop.
PushDrop ==
  /\ ppc = "idle"
  /\ pushed < MaxPush
  /\ Full
  /\ pushed' = pushed + 1
  /\ drops' = drops + 1
  /\ UNCHANGED <<shared, ppc, unwritten, consumer>>

PushBegin ==
  /\ ppc = "idle"
  /\ pushed < MaxPush
  /\ ~Full
  /\ ppc' = "copy"
  /\ unwritten' = Words
  /\ pushed' = pushed + 1
  /\ UNCHANGED <<shared, drops, consumer>>

PushWord(w) ==
  /\ ppc = "copy"
  /\ w \in unwritten
  /\ slots' = [slots EXCEPT ![head][w] = pushed]
  /\ unwritten' = unwritten \ {w}
  /\ UNCHANGED <<head, tail, ppc, pushed, drops, consumer>>

\* Fault: head is stored while the struct is still being copied.
PushEndEarly ==
  /\ ppc = "copy"
  /\ head' = Succ(head)
  /\ ppc' = "idle"
  /\ unwritten' = {}
  /\ UNCHANGED <<slots, tail, pushed, drops, consumer>>

\* Fault: the producer waits for a consumer that is inside rb_pop.
PushEndWaits ==
  /\ ppc = "copy"
  /\ unwritten = {}
  /\ cpc = "idle"
  /\ head' = Succ(head)
  /\ ppc' = "idle"
  /\ UNCHANGED <<slots, tail, unwritten, pushed, drops, consumer>>

\* The release store of head publishes the entry.
PushEnd ==
  /\ ppc = "copy"
  /\ unwritten = {}
  /\ head' = Succ(head)
  /\ ppc' = "idle"
  /\ UNCHANGED <<slots, tail, unwritten, pushed, drops, consumer>>

-----------------------------------------------------------------------------
(* rb_pop, in a consumer; on an empty ring it returns false and changes    *)
(* nothing                                                                 *)

PopBegin ==
  /\ cpc = "idle"
  /\ ~Empty
  /\ cpc' = "copy"
  /\ unread' = Words
  /\ UNCHANGED <<shared, producer, out, got, popped>>

PopWord(w) ==
  /\ cpc = "copy"
  /\ w \in unread
  /\ out' = [out EXCEPT ![w] = slots[tail][w]]
  /\ unread' = unread \ {w}
  /\ UNCHANGED <<shared, producer, cpc, got, popped>>

\* The release store of tail hands the slot back to the producer.
PopEnd ==
  /\ cpc = "copy"
  /\ unread = {}
  /\ tail' = Succ(tail)
  /\ cpc' = "idle"
  /\ got' = out
  /\ popped' = popped + 1
  /\ UNCHANGED <<slots, head, producer, unread, out>>

\* A consumer that dies inside rb_pop and attaches again (rb_attach) finds
\* tail where it was: the entry it was copying is still in the ring.
ConsumerRestart ==
  /\ cpc = "copy"
  /\ cpc' = "idle"
  /\ unread' = {}
  /\ UNCHANGED <<shared, producer, out, got, popped>>

-----------------------------------------------------------------------------
Push == PushDrop \/ PushBegin \/ (\E w \in Words : PushWord(w)) \/ PushEnd
Pop  == PopBegin \/ (\E w \in Words : PopWord(w)) \/ PopEnd

Next == Push \/ Pop \/ ConsumerRestart

Spec == Init /\ [][Next]_vars

\* The daemon keeps running; nothing is assumed of the consumer.
ProducerFairness == WF_vars(PushEnd \/ \E w \in Words : PushWord(w))
FairSpec == Spec /\ ProducerFairness

-----------------------------------------------------------------------------
(* Properties *)

TypeOK ==
  /\ slots \in [Index -> [Words -> Nat]]
  /\ head \in Index
  /\ tail \in Index
  /\ ppc \in {"idle", "copy"}
  /\ unwritten \subseteq Words
  /\ pushed \in Nat
  /\ drops \in Nat
  /\ cpc \in {"idle", "copy"}
  /\ unread \subseteq Words
  /\ out \in [Words -> Nat]
  /\ got \in [Words -> Nat]
  /\ popped \in Nat

\* The slot being written is never the slot being read ("can corrupt the slot
\* being read", rb_push), however the two copies overlap.
NoDataRace == ~(ppc = "copy" /\ cpc = "copy" /\ head = tail)

\* Entries published and not yet retired, as the indices tell.
Pending == IF tail <= head THEN head - tail ELSE head - tail + Capacity

\* The drop counter is exact: every call of rb_push is accounted for once, as
\* an entry retired by the consumer, one waiting in the ring, the one being
\* copied, or a counted drop.  "Zero drops = all data reached the classifier"
\* (cleanup) rests on this.
DropAccounting ==
  pushed = popped + Pending + drops + (IF ppc = "copy" THEN 1 ELSE 0)

\* An entry the consumer receives is later than the one it received before:
\* no reordering, and no entry twice even if a consumer dies inside rb_pop.
InOrder == [][\A w \in Words : got'[w] > got[w]]_got

\* A push that has begun returns, whatever the consumer does or fails to do:
\* a stalled or dead classifier never blocks the sampling loop.
PushReturns == (ppc = "copy") ~> (ppc = "idle")

\* The ring behaves as the bounded lossy queue of LossyQueue: entries arrive
\* whole and in order, and an entry is refused only when Capacity - 1 entries
\* are really waiting.
Nth(k) == IF tail + k < Capacity THEN tail + k ELSE tail + k - Capacity

Queue == [k \in 1 .. Pending |-> slots[Nth(k - 1)]]

Lossy == INSTANCE LossyQueue WITH
           Bound    <- Capacity - 1,
           queue    <- Queue,
           sent     <- pushed - (IF ppc = "copy" THEN 1 ELSE 0),
           received <- got

ImplementsLossyQueue == Lossy!Spec
=============================================================================
