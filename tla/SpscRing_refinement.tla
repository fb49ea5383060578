------------------------- MODULE SpscRing_refinement -------------------------
(***************************************************************************)
(* The ring implements the bounded lossy queue, for every Capacity, every  *)
(* set of Words and every MaxPush: under the mapping of SpscRing (Queue is *)
(* the slots from tail up to head) rb_push is Accept at its store of head, *)
(* or Drop; rb_pop is Receive at its store of tail; every other step       *)
(* leaves the abstract state alone.                                        *)
(***************************************************************************)
EXTENDS SpscRing_proofs, SequenceTheorems

USE CapacityAssumption, MaxPushAssumption

\* A value of one slot.
Struct == [Words -> Nat]

\* What Queue is as a sequence: one struct for each pending slot.
QueueView ==
  /\ Queue \in Seq(Struct)
  /\ Len(Queue) = Pending
  /\ \A k \in 1 .. Pending : Queue[k] = slots[Nth(k - 1)]

\* Queue is a sequence of whole structs with one element per pending entry.
LEMMA QueueIsSeq == TypeOK => QueueView
<1> SUFFICES ASSUME TypeOK PROVE QueueView
  OBVIOUS
<1>1. Pending \in Nat
  BY PendingRange DEF TypeOK
<1>2. \A k \in 1 .. Pending : slots[Nth(k - 1)] \in Struct
  BY <1>1, NthSlot DEF TypeOK, Struct
<1>3. Queue \in [1 .. Pending -> Struct]
  BY <1>2 DEF Queue
<1>4. Queue \in Seq(Struct)
  BY <1>1, <1>3
<1> QED BY <1>1, <1>3, <1>4, LenProperties DEF Queue, QueueView

\* The ring as rb_create_named leaves it is the empty queue.
LEMMA InitRefines == Init => Lossy!Init
<1> SUFFICES ASSUME Init PROVE Lossy!Init
  OBVIOUS
<1>1. TypeOK /\ Pending = 0
  BY DEF Init, TypeOK, Pending, Index, Entry
<1>2. Queue = <<>>
  BY <1>1, QueueIsSeq, EmptySeq DEF QueueView
<1> QED BY <1>2 DEF Init, Lossy!Init, Lossy!Entry, Entry

\* A step that touches neither the indices nor a pending slot is a stutter of
\* the queue, whatever it writes into the slot at head.
LEMMA KeepsView ==
  ASSUME head' = head, tail' = tail, got' = got, drops' = drops,
         Returned' = Returned,
         TypeOK, \A k \in 0 .. Pending - 1 : slots'[Nth(k)] = slots[Nth(k)]
  PROVE  UNCHANGED Lossy!vars
<1>1. Pending' = Pending /\ \A k : Nth(k)' = Nth(k)
  BY DEF Pending, Nth
<1>2. Pending \in Nat
  BY PendingRange DEF TypeOK
<1>3. \A k \in 1 .. Pending : k - 1 \in 0 .. Pending - 1
  BY <1>2
<1>4. Queue' = Queue
  BY <1>1, <1>3 DEF Queue
<1> QED BY <1>4 DEF Lossy!vars, Returned, Copying

\* rb_push refuses an entry only when Capacity - 1 entries are waiting.
LEMMA DropRefines == Inv /\ PushDrop => Lossy!Drop
<1> SUFFICES ASSUME Inv, PushDrop PROVE Lossy!Drop
  OBVIOUS
<1>1. TypeOK /\ Full /\ pushed < MaxPush /\ ppc = "idle" /\ ppc' = "idle"
      /\ pushed' = pushed + 1 /\ drops' = drops + 1
      /\ head' = head /\ tail' = tail /\ slots' = slots /\ got' = got
  BY DEF Inv, PushDrop, shared, consumer
<1>2. Queue' = Queue
  BY <1>1 DEF Queue, Pending, Nth
<1>3. Len(Queue) = Capacity - 1
  BY <1>1, QueueIsSeq, PendingRange DEF TypeOK, QueueView
<1>4. pushed \in Nat
  BY <1>1 DEF TypeOK
<1> QED BY <1>1, <1>2, <1>3, <1>4 DEF Lossy!Drop

\* The store of head appends the entry of this push, all of its words copied.
LEMMA AcceptRefines == Inv /\ TypeOK' /\ PushEnd => Lossy!Accept
<1> SUFFICES ASSUME Inv, TypeOK', PushEnd PROVE Lossy!Accept
  OBVIOUS
<1>1. /\ TypeOK /\ pushed \in Nat /\ pushed <= MaxPush
      /\ head \in Index /\ tail \in Index
      /\ slots \in [Index -> Struct]
  BY DEF Inv, TypeOK, Bounds, Struct
<1>2. /\ ppc = "copy" /\ ppc' = "idle" /\ pushed' = pushed /\ drops' = drops
      /\ slots' = slots /\ tail' = tail /\ got' = got /\ unwritten = {}
  BY DEF PushEnd, consumer
<1>3. Pending \in 0 .. Capacity - 1 /\ Pending # Capacity - 1 /\ Pending' = Pending + 1
  BY <1>1, <1>2, PendingRange, PendingStep DEF Next, Push, Inv, Guards
<1>4. slots[head] = Lossy!Entry(pushed)
  <2>1. \A w \in Words : slots[head][w] = pushed
    BY <1>2 DEF Inv, Copies
  <2>2. slots[head] \in [Words -> Nat]
    BY <1>1 DEF Struct
  <2> QED BY <2>1, <2>2 DEF Lossy!Entry
<1>5. /\ Queue \in Seq(Struct) /\ Queue' \in Seq(Struct)
      /\ Len(Queue) = Pending /\ Len(Queue') = Pending + 1
      /\ \A k \in 1 .. Pending : Queue[k] = slots[Nth(k - 1)]
      /\ \A k \in 1 .. Pending + 1 : Queue'[k] = slots[Nth(k - 1)]
  <2>1. QueueView /\ QueueView'
    BY <1>1, QueueIsSeq, PTL
  <2>2. \A k : Nth(k)' = Nth(k)
    BY <1>2 DEF Nth
  <2> QED BY <1>2, <1>3, <2>1, <2>2 DEF QueueView
<1>6. Queue' = Append(Queue, Lossy!Entry(pushed))
  <2> DEFINE e == Lossy!Entry(pushed)
  <2>1. e \in Struct
    BY <1>1 DEF Lossy!Entry, Struct
  <2>2. Nth(Pending) = head
    BY <1>1, NthSlot
  <2>3. /\ Append(Queue, e) \in Seq(Struct) /\ Len(Append(Queue, e)) = Pending + 1
        /\ \A k \in 1 .. Pending : Append(Queue, e)[k] = Queue[k]
        /\ Append(Queue, e)[Pending + 1] = e
    BY <1>5, <2>1, AppendProperties
  <2>4. \A k \in 1 .. Pending + 1 : Queue'[k] = Append(Queue, e)[k]
    <3>1. \A k \in 1 .. Pending + 1 : k \in 1 .. Pending \/ k = Pending + 1
      BY <1>3
    <3>2. Queue'[Pending + 1] = e
      BY <1>3, <1>4, <1>5, <2>2
    <3>3. \A k \in 1 .. Pending : Queue'[k] = Queue[k]
      BY <1>3, <1>5
    <3> QED BY <2>3, <3>1, <3>2, <3>3
  <2> HIDE DEF e
  <2>5. Queue' = Append(Queue, e)
    BY <1>5, <2>3, <2>4, SeqEqual
  <2> QED BY <2>5 DEF e
<1>7. pushed - 1 + 1 = pushed /\ pushed - 1 < MaxPush /\ Len(Queue) < Capacity - 1
  BY <1>1, <1>3, <1>5
<1> QED BY <1>1, <1>2, <1>6, <1>7 DEF Lossy!Accept

\* The store of tail removes the oldest entry, which is what was received.
LEMMA ReceiveRefines == Inv /\ TypeOK' /\ PopEnd => Lossy!Receive
<1> SUFFICES ASSUME Inv, TypeOK', PopEnd PROVE Lossy!Receive
  OBVIOUS
<1>1. /\ TypeOK /\ head \in Index /\ tail \in Index
      /\ slots \in [Index -> Struct] /\ out \in Struct
  BY DEF Inv, TypeOK, Struct
<1>2. /\ slots' = slots /\ head' = head /\ tail' = Succ(tail) /\ got' = out
      /\ pushed' = pushed /\ ppc' = ppc /\ drops' = drops /\ head # tail
      /\ \A w \in Words : out[w] = slots[tail][w]
  BY DEF PopEnd, producer, Inv, Copies, Guards, Empty
<1>3. Pending \in 1 .. Capacity - 1 /\ Pending' = Pending - 1
  BY <1>1, <1>2, PendingRange, PendingStep DEF Next, Pop, Empty
<1>4. got' = slots[tail]
  <2>1. slots[tail] \in [Words -> Nat] /\ out \in [Words -> Nat]
    BY <1>1 DEF Struct
  <2> QED BY <1>2, <2>1
<1>5. /\ Queue \in Seq(Struct) /\ Len(Queue) = Pending
      /\ \A k \in 1 .. Pending : Queue[k] = slots[Nth(k - 1)]
  BY <1>1, QueueIsSeq DEF QueueView
<1>6. Queue' \in Seq(Struct) /\ Len(Queue') = Pending'
      /\ \A k \in 1 .. Pending' : Queue'[k] = slots'[Nth(k - 1)']
  <2>1. QueueView'
    BY QueueIsSeq, PTL
  <2> QED BY <2>1 DEF QueueView
<1>7. ASSUME NEW k \in 1 .. Pending - 1 PROVE Nth(k - 1)' = Nth(k)
  <2>1. Succ(tail) = IF tail = Capacity - 1 THEN 0 ELSE tail + 1
    BY <1>1, SuccIndex
  <2>2. tail \in 0 .. Capacity - 1
    BY <1>1 DEF Index
  <2> QED BY <1>2, <1>3, <2>1, <2>2 DEF Nth
<1>8. Queue # <<>> /\ Head(Queue) = slots[tail]
  <2>1. Nth(0) = tail
    BY <1>1, <1>3, NthSlot
  <2>2. Queue[1] = slots[tail]
    BY <1>3, <1>5, <2>1
  <2> QED BY <1>3, <1>5, <2>2
<1>9. Queue' = Tail(Queue)
  <2>1. /\ Tail(Queue) \in Seq(Struct) /\ Len(Tail(Queue)) = Pending - 1
        /\ \A k \in 1 .. Pending - 1 : Tail(Queue)[k] = Queue[k + 1]
    BY <1>5, <1>8, HeadTailProperties
  <2>3. ASSUME NEW k \in 1 .. Pending - 1 PROVE Queue'[k] = Tail(Queue)[k]
    <3>1. k + 1 \in 1 .. Pending /\ k + 1 - 1 = k /\ k \in 1 .. Pending'
      BY <1>3
    <3>2. Queue[k + 1] = slots[Nth(k)]
      BY <1>5, <3>1
    <3>3. Queue'[k] = slots[Nth(k)]
      BY <1>2, <1>6, <1>7, <3>1
    <3> QED BY <2>1, <3>2, <3>3
  <2> QED BY <1>3, <1>6, <2>1, <2>3, SeqEqual
<1> QED BY <1>2, <1>4, <1>8, <1>9 DEF Lossy!Receive

\* Every step of the ring is a step of the queue or a stutter.
LEMMA NextRefines == Inv /\ TypeOK' /\ [Next]_vars => [Lossy!Next]_Lossy!vars
<1> SUFFICES ASSUME Inv, TypeOK', [Next]_vars PROVE [Lossy!Next]_Lossy!vars
  OBVIOUS
<1> USE DEF shared, producer, consumer
<1>0. /\ TypeOK /\ pushed \in Nat /\ pushed' \in Nat /\ head \in Index
      /\ \A k \in 0 .. Pending - 1 : Nth(k) # head
      /\ slots \in [Index -> [Words -> Nat]]
      /\ \A k \in 0 .. Pending - 1 : Nth(k) \in Index
  BY NthSlot DEF Inv, TypeOK
<1>1. CASE PushDrop   BY <1>1, DropRefines DEF Lossy!Next
<1>2. CASE PushBegin
  BY <1>0, <1>2, KeepsView DEF PushBegin, Returned, Copying
<1>3. ASSUME NEW w \in Words, PushWord(w) PROVE UNCHANGED Lossy!vars
  BY <1>0, <1>3, KeepsView DEF PushWord, Returned, Copying
<1>4. CASE PushEnd    BY <1>4, AcceptRefines DEF Lossy!Next
<1>5. CASE PopBegin
  BY <1>0, <1>5, KeepsView DEF PopBegin, Returned, Copying
<1>6. ASSUME NEW w \in Words, PopWord(w) PROVE UNCHANGED Lossy!vars
  BY <1>0, <1>6, KeepsView DEF PopWord, Returned, Copying
<1>7. CASE PopEnd     BY <1>7, ReceiveRefines DEF Lossy!Next
<1>8. CASE ConsumerRestart
  BY <1>0, <1>8, KeepsView DEF ConsumerRestart, Returned, Copying
<1>9. CASE UNCHANGED vars
  BY <1>0, <1>9, KeepsView DEF vars, Returned, Copying
<1> QED
  BY <1>1, <1>2, <1>3, <1>4, <1>5, <1>6, <1>7, <1>8, <1>9 DEF Next, Push, Pop

\* ring_buffer.c implements LossyQueue: entries arrive whole and in order, and
\* one is refused only when the ring really is full.
THEOREM RingRefinesQueue == Spec => ImplementsLossyQueue
<1>1. Inv => TypeOK
  BY DEF Inv
<1> QED
  BY <1>1, InitRefines, NextRefines, Invariance, PTL DEF Spec, ImplementsLossyQueue, Lossy!Spec
=============================================================================
