--------------------------- MODULE SpscRing_proofs ---------------------------
(***************************************************************************)
(* Proofs about SpscRing, for every Capacity, every set of Words and every *)
(* MaxPush.  The inductive invariant Inv says where the two sides are with *)
(* respect to the indices (a producer inside rb_push still has room, a     *)
(* consumer inside rb_pop still has an entry) and what the half-done       *)
(* copies hold.                                                            *)
(***************************************************************************)
EXTENDS SpscRing, Integers, TLAPS

USE CapacityAssumption, MaxPushAssumption

-----------------------------------------------------------------------------
(* Index arithmetic *)

\* The successor of an index is an index, computed without a modulus.
LEMMA SuccIndex ==
  ASSUME NEW k \in Index
  PROVE  /\ Succ(k) \in Index
         /\ Succ(k) = IF k = Capacity - 1 THEN 0 ELSE k + 1
<1>1. CASE k = Capacity - 1
  BY <1>1 DEF Index, Succ
<1>2. CASE k # Capacity - 1
  BY <1>2 DEF Index, Succ
<1> QED BY <1>1, <1>2

\* The successors of two indices differ.
LEMMA SuccInjective ==
  ASSUME NEW j \in Index, NEW k \in Index, j # k
  PROVE  Succ(j) # Succ(k)
<1>1. j \in 0 .. Capacity - 1 /\ k \in 0 .. Capacity - 1
  BY DEF Index
<1>2. /\ Succ(j) = IF j = Capacity - 1 THEN 0 ELSE j + 1
      /\ Succ(k) = IF k = Capacity - 1 THEN 0 ELSE k + 1
  BY SuccIndex
<1> QED BY <1>1, <1>2

\* The number of pending entries, and what it says of Full and Empty.
LEMMA PendingRange ==
  ASSUME head \in Index, tail \in Index
  PROVE  /\ Pending \in 0 .. Capacity - 1
         /\ Empty <=> Pending = 0
         /\ Full <=> Pending = Capacity - 1
BY SuccIndex DEF Pending, Empty, Full, Index

\* Entry k counted from the tail sits in a slot of its own; the slot at head
\* is the one after the last.
LEMMA NthSlot ==
  ASSUME head \in Index, tail \in Index
  PROVE  /\ \A k \in 0 .. Pending - 1 : Nth(k) \in Index /\ Nth(k) # head
         /\ Nth(Pending) = head
         /\ Pending > 0 => Nth(0) = tail
BY DEF Pending, Nth, Index

-----------------------------------------------------------------------------
(* Type correctness *)

\* The variables keep their types; in particular the indices stay indices,
\* whatever rb_push and rb_pop interleave.
THEOREM TypeCorrect == Spec => []TypeOK
<1>1. Init => TypeOK
  BY DEF Init, TypeOK, Index, Entry
<1>2. TypeOK /\ [Next]_vars => TypeOK'
  <2> SUFFICES ASSUME TypeOK, [Next]_vars PROVE TypeOK'
    OBVIOUS
  <2> USE DEF TypeOK, shared, producer, consumer
  <2>1. CASE PushDrop   BY <2>1 DEF PushDrop
  <2>2. CASE PushBegin  BY <2>2 DEF PushBegin
  <2>3. ASSUME NEW w \in Words, PushWord(w) PROVE TypeOK'
    BY <2>3 DEF PushWord
  <2>4. CASE PushEnd    BY <2>4, SuccIndex DEF PushEnd
  <2>5. CASE PopBegin   BY <2>5 DEF PopBegin
  <2>6. ASSUME NEW w \in Words, PopWord(w) PROVE TypeOK'
    BY <2>6 DEF PopWord
  <2>7. CASE PopEnd     BY <2>7, SuccIndex DEF PopEnd
  <2>8. CASE ConsumerRestart BY <2>8 DEF ConsumerRestart
  <2>9. CASE UNCHANGED vars BY <2>9 DEF vars
  <2> QED
    BY <2>1, <2>2, <2>3, <2>4, <2>5, <2>6, <2>7, <2>8, <2>9 DEF Next, Push, Pop
<1> QED BY <1>1, <1>2, PTL DEF Spec

-----------------------------------------------------------------------------
(* The inductive invariant *)

Copying == IF ppc = "copy" THEN 1 ELSE 0

\* Whoever is inside a copy still has the guard it entered with: the other
\* side can only have made more room, or more entries.
Guards ==
  /\ ppc = "copy" => ~Full
  /\ cpc = "copy" => ~Empty

\* What the half-done copies hold.
Copies ==
  /\ ppc = "copy" => \A w \in Words \ unwritten : slots[head][w] = pushed
  /\ cpc = "copy" => \A w \in Words \ unread : out[w] = slots[tail][w]

Bounds ==
  /\ pushed <= MaxPush
  /\ ppc = "copy" => pushed > 0

Inv == TypeOK /\ Guards /\ Copies /\ Bounds /\ DropAccounting

\* Inv holds at the start.
LEMMA InitInv == Init => Inv
BY DEF Init, Inv, TypeOK, Guards, Copies, Bounds, DropAccounting, Pending, Index, Entry

\* The guards survive every step: an index moved by one side never closes the
\* room, or takes the entry, the other side relies on.
LEMMA GuardsInductive == Inv /\ TypeOK' /\ [Next]_vars => Guards'
<1> SUFFICES ASSUME Inv, TypeOK', [Next]_vars PROVE Guards'
  OBVIOUS
<1> USE DEF Inv, TypeOK, Guards, Full, Empty, shared, producer, consumer
<1>1. CASE PushDrop   BY <1>1 DEF PushDrop
<1>2. CASE PushBegin  BY <1>2 DEF PushBegin
<1>3. ASSUME NEW w \in Words, PushWord(w) PROVE Guards'
  BY <1>3 DEF PushWord
<1>4. CASE PushEnd
  <2>1. head' = Succ(head) /\ tail' = tail /\ ppc' = "idle" /\ cpc' = cpc
    BY <1>4 DEF PushEnd
  <2>2. Succ(head) # tail
    BY <1>4 DEF PushEnd
  <2> QED BY <2>1, <2>2
<1>5. CASE PopBegin   BY <1>5 DEF PopBegin
<1>6. ASSUME NEW w \in Words, PopWord(w) PROVE Guards'
  BY <1>6 DEF PopWord
<1>7. CASE PopEnd
  <2>1. tail' = Succ(tail) /\ head' = head /\ cpc' = "idle" /\ ppc' = ppc
    BY <1>7 DEF PopEnd
  <2>2. head # tail
    BY <1>7 DEF PopEnd
  <2>3. Succ(head) # Succ(tail)
    BY <2>2, SuccInjective
  <2> QED BY <2>1, <2>3
<1>8. CASE ConsumerRestart BY <1>8 DEF ConsumerRestart
<1>9. CASE UNCHANGED vars BY <1>9 DEF vars
<1> QED
  BY <1>1, <1>2, <1>3, <1>4, <1>5, <1>6, <1>7, <1>8, <1>9 DEF Next, Push, Pop

\* A word once copied keeps its value until the copy is over: the slot at head
\* and the slot at tail are two slots while both sides are inside.
LEMMA CopiesInductive == Inv /\ [Next]_vars => Copies'
<1> SUFFICES ASSUME Inv, [Next]_vars PROVE Copies'
  OBVIOUS
<1> USE DEF Inv, TypeOK, Guards, Copies, Full, Empty, shared, producer, consumer
<1>1. CASE PushDrop   BY <1>1 DEF PushDrop
<1>2. CASE PushBegin  BY <1>2 DEF PushBegin
<1>3. ASSUME NEW w \in Words, PushWord(w) PROVE Copies'
  <2>1. /\ ppc = "copy" /\ ppc' = "copy" /\ cpc' = cpc /\ out' = out
        /\ unread' = unread /\ head' = head /\ tail' = tail /\ pushed' = pushed
        /\ unwritten' = unwritten \ {w}
        /\ slots' = [slots EXCEPT ![head][w] = pushed]
    BY <1>3 DEF PushWord
  <2>2. \A v \in Words \ unwritten' : slots'[head'][v] = pushed'
    BY <2>1
  <2>3. cpc = "copy" => slots'[tail'] = slots[tail]
    BY <2>1
  <2> QED BY <2>1, <2>2, <2>3
<1>4. CASE PushEnd    BY <1>4 DEF PushEnd
<1>5. CASE PopBegin   BY <1>5 DEF PopBegin
<1>6. ASSUME NEW w \in Words, PopWord(w) PROVE Copies'
  BY <1>6 DEF PopWord
<1>7. CASE PopEnd     BY <1>7 DEF PopEnd
<1>8. CASE ConsumerRestart BY <1>8 DEF ConsumerRestart
<1>9. CASE UNCHANGED vars BY <1>9 DEF vars
<1> QED
  BY <1>1, <1>2, <1>3, <1>4, <1>5, <1>6, <1>7, <1>8, <1>9 DEF Next, Push, Pop

\* How each step moves the number of pending entries.
LEMMA PendingStep ==
  ASSUME Inv, [Next]_vars
  PROVE  /\ PushEnd => Pending' = Pending + 1
         /\ PopEnd => Pending' = Pending - 1
         /\ ~PushEnd /\ ~PopEnd => Pending' = Pending
<1> USE DEF Inv, TypeOK, Guards, shared, producer, consumer
<1>1. ASSUME PushEnd PROVE Pending' = Pending + 1
  <2>1. head' = Succ(head) /\ tail' = tail /\ Succ(head) # tail
    BY <1>1 DEF PushEnd, Full
  <2>2. Succ(head) = IF head = Capacity - 1 THEN 0 ELSE head + 1
    BY SuccIndex
  <2>3. head \in 0 .. Capacity - 1 /\ tail \in 0 .. Capacity - 1
    BY DEF Index
  <2> HIDE DEF Inv, TypeOK, Guards
  <2> QED BY <2>1, <2>2, <2>3 DEF Pending
<1>2. ASSUME PopEnd PROVE Pending' = Pending - 1
  <2>1. tail' = Succ(tail) /\ head' = head /\ head # tail
    BY <1>2 DEF PopEnd, Empty
  <2>2. Succ(tail) = IF tail = Capacity - 1 THEN 0 ELSE tail + 1
    BY SuccIndex
  <2>3. head \in 0 .. Capacity - 1 /\ tail \in 0 .. Capacity - 1
    BY DEF Index
  <2> HIDE DEF Inv, TypeOK, Guards
  <2> QED BY <2>1, <2>2, <2>3 DEF Pending
<1>3. ASSUME ~PushEnd, ~PopEnd PROVE head' = head /\ tail' = tail
  BY <1>3 DEF Next, Push, Pop, PushDrop, PushBegin, PushWord, PopBegin, PopWord,
              ConsumerRestart, vars
<1> QED BY <1>1, <1>2, <1>3 DEF Pending

\* Every step keeps Bounds and the drop count.
LEMMA AccountsInductive == Inv /\ [Next]_vars => (Bounds /\ DropAccounting)'
<1> SUFFICES ASSUME Inv, [Next]_vars PROVE (Bounds /\ DropAccounting)'
  OBVIOUS
<1> USE DEF Inv, Bounds, DropAccounting, shared, producer, consumer
<1>0. Pending \in Int /\ pushed \in Nat /\ drops \in Nat /\ popped \in Nat
  BY PendingRange DEF TypeOK
<1>1. CASE PushDrop
  BY <1>0, <1>1, PendingStep DEF PushDrop, PushEnd, PopEnd, Pending
<1>2. CASE PushBegin
  BY <1>0, <1>2 DEF PushBegin, Pending
<1>3. ASSUME NEW w \in Words, PushWord(w) PROVE (Bounds /\ DropAccounting)'
  BY <1>0, <1>3 DEF PushWord, Pending
<1>4. CASE PushEnd
  BY <1>0, <1>4, PendingStep DEF PushEnd
<1>5. CASE PopBegin   BY <1>0, <1>5 DEF PopBegin, Pending
<1>6. ASSUME NEW w \in Words, PopWord(w) PROVE (Bounds /\ DropAccounting)'
  BY <1>0, <1>6 DEF PopWord, Pending
<1>7. CASE PopEnd
  BY <1>0, <1>7, PendingStep DEF PopEnd
<1>8. CASE ConsumerRestart BY <1>0, <1>8 DEF ConsumerRestart, Pending
<1>9. CASE UNCHANGED vars BY <1>0, <1>9 DEF vars, Pending
<1> QED
  BY <1>1, <1>2, <1>3, <1>4, <1>5, <1>6, <1>7, <1>8, <1>9 DEF Next, Push, Pop

\* Inv holds in every reachable state.
THEOREM Invariance == Spec => []Inv
<1>1. Inv /\ TypeOK' /\ [Next]_vars => Inv'
  BY GuardsInductive, CopiesInductive, AccountsInductive DEF Inv
<1> QED BY InitInv, TypeCorrect, <1>1, PTL DEF Spec

-----------------------------------------------------------------------------
(* The safety properties *)

\* The producer never writes the slot the consumer is reading, so rb_push and
\* rb_pop need no lock.
THEOREM RaceFree == Spec => []NoDataRace
<1>1. Inv => NoDataRace
  BY DEF Inv, Guards, NoDataRace, Empty
<1> QED BY <1>1, Invariance, PTL

\* Every rb_push is accounted for as received, waiting, in progress or a
\* counted drop: g_rb_drops is exact.
THEOREM DropsExact == Spec => []DropAccounting
<1>1. Inv => DropAccounting
  BY DEF Inv
<1> QED BY <1>1, Invariance, PTL

-----------------------------------------------------------------------------
(* First in, first out *)

\* Push calls that have returned.
Returned == pushed - Copying

\* The entries waiting in the ring are later, word by word, than the entry the
\* consumer received last, later than those before them, and none is later
\* than the last push that returned.
Ordered ==
  \A w \in Words :
    /\ got[w] <= Returned
    /\ \A k \in 0 .. Pending - 1 : /\ got[w] < slots[Nth(k)][w]
                                   /\ slots[Nth(k)][w] <= Returned
    /\ \A j, k \in 0 .. Pending - 1 : j < k => slots[Nth(j)][w] < slots[Nth(k)][w]

\* Ordered holds at the start.
LEMMA InitOrdered == Init => Ordered
BY DEF Init, Ordered, Returned, Copying, Pending, Index, Entry

\* A step that leaves the entries waiting, the entry received last and the
\* number of returned pushes alone, keeps them in order.
LEMMA OrderedKept ==
  ASSUME Ordered, Inv, head' = head, tail' = tail, got' = got,
         Returned' \in Int, Returned <= Returned',
         \A k \in 0 .. Pending - 1 : slots'[Nth(k)] = slots[Nth(k)]
  PROVE  Ordered'
<1>1. Pending' = Pending /\ \A k : Nth(k)' = Nth(k)
  BY DEF Pending, Nth
<1>2. Pending \in Int
  BY PendingRange DEF Inv, TypeOK
<1>3. \A k \in 0 .. Pending - 1 : Nth(k) \in Index
  BY NthSlot DEF Inv, TypeOK
<1>4. /\ Returned \in Int
      /\ \A w \in Words : got[w] \in Nat
      /\ \A w \in Words, k \in Index : slots[k][w] \in Nat
  BY DEF Inv, TypeOK, Returned, Copying
<1> QED BY <1>1, <1>2, <1>3, <1>4 DEF Ordered

\* What has been copied into the slot at head waits, once published, behind
\* all the others.
LEMMA OrderedPushEnd == Inv /\ Ordered /\ PushEnd => Ordered'
<1> SUFFICES ASSUME Inv, Ordered, PushEnd PROVE Ordered'
  OBVIOUS
<1>1. /\ head \in Index /\ tail \in Index /\ pushed \in Nat
      /\ \A w \in Words : got[w] \in Nat
      /\ \A w \in Words, k \in Index : slots[k][w] \in Nat
  BY DEF Inv, TypeOK
<1>2. /\ ppc = "copy" /\ ppc' = "idle" /\ pushed' = pushed
      /\ slots' = slots /\ tail' = tail /\ got' = got
  BY DEF PushEnd, consumer
<1>3. Returned \in Int /\ pushed = Returned + 1 /\ Returned' = Returned + 1
  BY <1>1, <1>2 DEF Returned, Copying
<1>4. Pending \in 0 .. Capacity - 1 /\ Pending' = Pending + 1
  BY <1>1, PendingRange, PendingStep DEF Next, Push
<1>5. \A k : Nth(k)' = Nth(k)
  BY <1>2 DEF Nth
<1>6. Nth(Pending) = head /\ \A k \in 0 .. Pending - 1 : Nth(k) \in Index
  BY <1>1, NthSlot
<1>7. \A w \in Words : slots[Nth(Pending)][w] = Returned + 1
  BY <1>2, <1>3, <1>6 DEF Inv, Copies, PushEnd
<1>8. ASSUME NEW w \in Words
      PROVE /\ got[w] <= Returned
            /\ \A k \in 0 .. Pending - 1 : got[w] < slots[Nth(k)][w]
                                        /\ slots[Nth(k)][w] <= Returned
            /\ \A j, k \in 0 .. Pending - 1 :
                 j < k => slots[Nth(j)][w] < slots[Nth(k)][w]
  BY DEF Ordered
<1>9. ASSUME NEW w \in Words
      PROVE /\ got[w] <= Returned + 1
            /\ \A k \in 0 .. Pending : got[w] < slots[Nth(k)][w]
                                    /\ slots[Nth(k)][w] <= Returned + 1
            /\ \A j, k \in 0 .. Pending :
                 j < k => slots[Nth(j)][w] < slots[Nth(k)][w]
  <2>1. \A k \in 0 .. Pending : k # Pending => k \in 0 .. Pending - 1
    BY <1>4
  <2>2. \A k \in 0 .. Pending - 1 : slots[Nth(k)][w] \in Nat
    BY <1>1, <1>6
  <2> QED BY <1>1, <1>3, <1>4, <1>7, <1>8, <2>1, <2>2
<1> QED BY <1>2, <1>3, <1>4, <1>5, <1>9 DEF Ordered

\* The entry received is the oldest; the others move up.
LEMMA OrderedPopEnd ==
  Inv /\ Ordered /\ PopEnd => Ordered' /\ \A w \in Words : got'[w] > got[w]
<1> SUFFICES ASSUME Inv, Ordered, PopEnd
             PROVE Ordered' /\ \A w \in Words : got'[w] > got[w]
  OBVIOUS
<1>1. /\ head \in Index /\ tail \in Index /\ pushed \in Nat
      /\ \A w \in Words : got[w] \in Nat
      /\ \A w \in Words, k \in Index : slots[k][w] \in Nat
  BY DEF Inv, TypeOK
<1>2. /\ slots' = slots /\ head' = head /\ tail' = Succ(tail) /\ got' = out
      /\ pushed' = pushed /\ ppc' = ppc /\ head # tail
      /\ \A w \in Words : out[w] = slots[tail][w]
  BY DEF PopEnd, producer, Inv, Copies, Guards, Empty
<1>3. Returned \in Int /\ Returned' = Returned
  BY <1>1, <1>2 DEF Returned, Copying
<1>4. Pending \in 1 .. Capacity - 1 /\ Pending' = Pending - 1
  BY <1>1, <1>2, PendingRange, PendingStep DEF Next, Pop, Empty
<1>5. \A k \in 0 .. Pending - 1 : Nth(k) \in Index
  BY <1>1, NthSlot
<1>6. ASSUME NEW k \in 0 .. Pending - 2 PROVE Nth(k)' = Nth(k + 1)
  <2>1. Succ(tail) = IF tail = Capacity - 1 THEN 0 ELSE tail + 1
    BY <1>1, SuccIndex
  <2>2. tail \in 0 .. Capacity - 1
    BY <1>1 DEF Index
  <2> QED BY <1>2, <1>4, <2>1, <2>2 DEF Nth
<1>7. Nth(0) = tail
  BY <1>1, <1>4, NthSlot
<1>8. ASSUME NEW w \in Words
      PROVE /\ got[w] <= Returned
            /\ \A k \in 0 .. Pending - 1 : got[w] < slots[Nth(k)][w]
                                        /\ slots[Nth(k)][w] <= Returned
            /\ \A j, k \in 0 .. Pending - 1 :
                 j < k => slots[Nth(j)][w] < slots[Nth(k)][w]
  BY DEF Ordered
<1>9. ASSUME NEW w \in Words
      PROVE /\ got'[w] = slots[Nth(0)][w] /\ got'[w] > got[w] /\ got'[w] <= Returned
            /\ \A k \in 0 .. Pending - 2 : got'[w] < slots[Nth(k + 1)][w]
                                        /\ slots[Nth(k + 1)][w] <= Returned
            /\ \A j, k \in 0 .. Pending - 2 :
                 j < k => slots[Nth(j + 1)][w] < slots[Nth(k + 1)][w]
  <2>1. got'[w] = slots[Nth(0)][w]
    BY <1>2, <1>7
  <2>2. \A k \in 0 .. Pending - 1 : slots[Nth(k)][w] \in Nat
    BY <1>1, <1>5
  <2>3. 0 \in 0 .. Pending - 1 /\ \A k \in 0 .. Pending - 2 : k + 1 \in 1 .. Pending - 1
    BY <1>4
  <2> QED BY <1>1, <1>3, <1>4, <1>8, <2>1, <2>2, <2>3
<1> QED BY <1>2, <1>3, <1>4, <1>6, <1>9 DEF Ordered

\* Every step keeps Ordered.
LEMMA OrderedInductive == Inv /\ Inv' /\ Ordered /\ [Next]_vars => Ordered'
<1> SUFFICES ASSUME Inv, Inv', Ordered, [Next]_vars PROVE Ordered'
  OBVIOUS
<1> USE DEF shared, producer, consumer
<1>0. /\ pushed \in Nat /\ pushed' \in Nat /\ head \in Index /\ tail \in Index
      /\ \A k \in 0 .. Pending - 1 : Nth(k) # head
      /\ slots \in [Index -> [Words -> Nat]]
      /\ \A k \in 0 .. Pending - 1 : Nth(k) \in Index
  BY NthSlot DEF Inv, TypeOK
<1>1. CASE PushDrop
  BY <1>0, <1>1, OrderedKept DEF PushDrop, Returned, Copying
<1>2. CASE PushBegin
  BY <1>0, <1>2, OrderedKept DEF PushBegin, Returned, Copying
<1>3. ASSUME NEW w \in Words, PushWord(w) PROVE Ordered'
  BY <1>0, <1>3, OrderedKept DEF PushWord, Returned, Copying
<1>4. CASE PushEnd    BY <1>4, OrderedPushEnd
<1>5. CASE PopBegin
  BY <1>0, <1>5, OrderedKept DEF PopBegin, Returned, Copying
<1>6. ASSUME NEW w \in Words, PopWord(w) PROVE Ordered'
  BY <1>0, <1>6, OrderedKept DEF PopWord, Returned, Copying
<1>7. CASE PopEnd     BY <1>7, OrderedPopEnd
<1>8. CASE ConsumerRestart
  BY <1>0, <1>8, OrderedKept DEF ConsumerRestart, Returned, Copying
<1>9. CASE UNCHANGED vars
  BY <1>0, <1>9, OrderedKept DEF vars, Returned, Copying
<1> QED
  BY <1>1, <1>2, <1>3, <1>4, <1>5, <1>6, <1>7, <1>8, <1>9 DEF Next, Push, Pop

\* The consumer never receives an entry older than, or the same as, the one
\* before, even if it dies inside rb_pop and starts again.
THEOREM ReceivedInOrder == Spec => InOrder
<1>1. Inv /\ Ordered /\ [Next]_vars => [\A w \in Words : got'[w] > got[w]]_got
  <2> SUFFICES ASSUME Inv, Ordered, [Next]_vars, got' # got
               PROVE \A w \in Words : got'[w] > got[w]
    OBVIOUS
  <2>1. PopEnd
    BY DEF Next, Push, Pop, PushDrop, PushBegin, PushWord, PushEnd, PopBegin,
           PopWord, ConsumerRestart, vars, consumer
  <2> QED BY <2>1, OrderedPopEnd
<1> QED
  BY <1>1, InitInv, InitOrdered, Invariance, OrderedInductive, PTL DEF Spec, InOrder
=============================================================================
