------------------------ MODULE SlidingWindow_proofs ------------------------
(***************************************************************************)
(* The running sum is that of the last Capacity samples, for any Capacity  *)
(* and any integers pushed: what a sum over a finite set is, and what a    *)
(* push does to the sum of a sequence.                                     *)
(***************************************************************************)
EXTENDS SlidingWindow, SequenceTheorems, FiniteSetTheorems, WellFoundedInduction, TLAPS

USE CapacityAssumption

-----------------------------------------------------------------------------
(* Sums over finite sets *)

First(s) == CHOOSE x \in s : TRUE

\* The function SumFunctionOnSet picks: its recursion over the subsets of S.
IsSumOf(g, f, S) ==
  g = [s \in SUBSET S |-> IF s = {} THEN 0 ELSE f[First(s)] + g[s \ {First(s)}]]

\* Sets of finite sets have smallest members: what induction over sets rests on.
LEMMA SmallestSet ==
  ASSUME NEW S, IsFiniteSet(S), NEW W \in SUBSET (SUBSET S), W # {}
  PROVE  \E s \in W : \A t \in W : t \subseteq s => t = s
<1>1. IsWellFoundedOn(StrictSubsetOrdering(S), SUBSET S)
  <2>1. FiniteSubsetsOf(S) = SUBSET S
    BY FS_FiniteSubsetsOfFinite
  <2> QED BY <2>1, FS_StrictSubsetOrderingWellFounded
<1>2. PICK s \in W : \A t \in W : <<t, s>> \notin StrictSubsetOrdering(S)
  BY <1>1, WFMin
<1>3. ASSUME NEW t \in W, t \subseteq s PROVE t = s
  <2>1. t \in SUBSET S /\ s \in SUBSET S
    OBVIOUS
  <2> QED BY <1>2, <1>3, <2>1 DEF StrictSubsetOrdering
<1> QED BY <1>3

\* Of a set that is not empty an element is taken.
LEMMA FirstType == ASSUME NEW s, s # {} PROVE First(s) \in s
BY DEF First

\* The recursion determines its values.
LEMMA SumsAgree ==
  ASSUME NEW f, NEW S, NEW T, NEW g, NEW h, IsSumOf(g, f, S), IsSumOf(h, f, T),
         NEW s \in SUBSET (S \cap T), IsFiniteSet(s)
  PROVE  g[s] = h[s]
<1> DEFINE W == {t \in SUBSET s : g[t] # h[t]}
<1> SUFFICES ASSUME W # {} PROVE FALSE
  <2>1. s \in SUBSET s
    OBVIOUS
  <2> QED BY <2>1
<1>1. PICK t \in W : \A u \in W : u \subseteq t => u = t
  <2>1. W \in SUBSET (SUBSET s)
    OBVIOUS
  <2> HIDE DEF W
  <2> QED BY <2>1, SmallestSet
<1>2. t \in SUBSET s /\ t \in SUBSET S /\ t \in SUBSET T /\ g[t] # h[t]
  OBVIOUS
<1>3. /\ g[t] = IF t = {} THEN 0 ELSE f[First(t)] + g[t \ {First(t)}]
      /\ h[t] = IF t = {} THEN 0 ELSE f[First(t)] + h[t \ {First(t)}]
  BY <1>2 DEF IsSumOf
<1>4. t # {}
  BY <1>2, <1>3
<1>5. First(t) \in t
  BY <1>4, FirstType
<1>6. g[t \ {First(t)}] = h[t \ {First(t)}]
  <2>1. t \ {First(t)} \in SUBSET s /\ t \ {First(t)} \subseteq t /\ t \ {First(t)} # t
    BY <1>2, <1>5
  <2>2. t \ {First(t)} \notin W
    BY <1>1, <2>1
  <2> QED BY <2>1, <2>2
<1> QED BY <1>2, <1>3, <1>4, <1>6

\* SumFunctionOnSet is what the recursion computes, where it computes anything.
LEMMA SumUnfold ==
  ASSUME NEW f, NEW S, \E g : IsSumOf(g, f, S)
  PROVE  \E g : IsSumOf(g, f, S) /\ SumFunctionOnSet(f, S) = g[S]
BY DEF SumFunctionOnSet, FoldFunctionOnSet, MapThenFoldSet, IsSumOf, First

\* It computes a sum over every finite set.
LEMMA SumExists == ASSUME NEW f, NEW S, IsFiniteSet(S) PROVE \E g : IsSumOf(g, f, S)
<1> DEFINE W == {t \in SUBSET S : ~ \E g : IsSumOf(g, f, t)}
<1> SUFFICES ASSUME W # {} PROVE FALSE
  <2>1. S \in SUBSET S
    OBVIOUS
  <2> QED BY <2>1
<1>1. PICK t \in W : \A u \in W : u \subseteq t => u = t
  <2>1. W \in SUBSET (SUBSET S)
    OBVIOUS
  <2> HIDE DEF W
  <2> QED BY <2>1, SmallestSet
<1>2. t \in SUBSET S /\ ~ \E g : IsSumOf(g, f, t)
  OBVIOUS
<1>3. ASSUME NEW u \in SUBSET t, u # t
      PROVE  \E g : IsSumOf(g, f, u) /\ SumFunctionOnSet(f, u) = g[u]
  <2>1. u \in SUBSET S /\ u \notin W
    BY <1>1, <1>2, <1>3
  <2> QED BY <2>1, SumUnfold
<1> HIDE DEF W
<1> DEFINE Step(u) == IF u = {} THEN 0
                      ELSE f[First(u)] + SumFunctionOnSet(f, u \ {First(u)})
           G == [u \in SUBSET t |-> Step(u)]
<1>4. ASSUME NEW u \in SUBSET t, u # t PROVE SumFunctionOnSet(f, u) = Step(u)
  <2>1. PICK g : IsSumOf(g, f, u) /\ SumFunctionOnSet(f, u) = g[u]
    BY <1>3, <1>4
  <2>2. g[u] = IF u = {} THEN 0 ELSE f[First(u)] + g[u \ {First(u)}]
    BY <2>1 DEF IsSumOf
  <2>3. CASE u # {}
    <3> DEFINE v == u \ {First(u)}
    <3>1. v \in SUBSET t /\ v # t /\ v \in SUBSET (u \cap v)
      BY <1>4, <2>3, FirstType
    <3>2. PICK h : IsSumOf(h, f, v) /\ SumFunctionOnSet(f, v) = h[v]
      BY <1>3, <3>1
    <3>3. IsFiniteSet(v)
      BY <1>2, <3>1, FS_Subset
    <3>4. g[v] = h[v]
      BY <2>1, <3>1, <3>2, <3>3, SumsAgree
    <3> QED BY <2>1, <2>2, <2>3, <3>2, <3>4
  <2> QED BY <2>1, <2>2, <2>3
<1>5. ASSUME NEW u \in SUBSET t, u # {}
      PROVE  SumFunctionOnSet(f, u \ {First(u)}) = G[u \ {First(u)}]
  <2>1. u \ {First(u)} \in SUBSET t /\ u \ {First(u)} # t
    BY <1>5, FirstType
  <2> HIDE DEF Step
  <2> QED BY <1>4, <2>1
<1>6. G = [u \in SUBSET t |-> IF u = {} THEN 0 ELSE f[First(u)] + G[u \ {First(u)}]]
  <2>1. ASSUME NEW u \in SUBSET t
        PROVE  Step(u) = IF u = {} THEN 0 ELSE f[First(u)] + G[u \ {First(u)}]
    <3> HIDE DEF G
    <3> QED BY <1>5
  <2> HIDE DEF Step
  <2> QED BY <2>1
<1> HIDE DEF G
<1>7. IsSumOf(G, f, t)
  BY <1>6 DEF IsSumOf
<1> QED BY <1>2, <1>7

\* A sum over a finite set is an element's value and the sum over the others.
LEMMA SumStep ==
  ASSUME NEW f, NEW S, IsFiniteSet(S)
  PROVE  SumFunctionOnSet(f, S) =
           IF S = {} THEN 0 ELSE f[First(S)] + SumFunctionOnSet(f, S \ {First(S)})
<1> DEFINE T == S \ {First(S)}
<1>1. PICK g : IsSumOf(g, f, S) /\ SumFunctionOnSet(f, S) = g[S]
  BY SumExists, SumUnfold
<1>2. IsFiniteSet(T)
  BY FS_RemoveElement
<1>3. PICK h : IsSumOf(h, f, T) /\ SumFunctionOnSet(f, T) = h[T]
  BY <1>2, SumExists, SumUnfold
<1>4. g[T] = h[T]
  BY <1>1, <1>2, <1>3, SumsAgree
<1>5. g[S] = IF S = {} THEN 0 ELSE f[First(S)] + g[T]
  BY <1>1 DEF IsSumOf
<1> QED BY <1>1, <1>3, <1>4, <1>5

\* A sum of integers is an integer.
LEMMA SumType ==
  ASSUME NEW f, NEW S, IsFiniteSet(S), \A x \in S : f[x] \in Int
  PROVE  SumFunctionOnSet(f, S) \in Int
<1> DEFINE W == {t \in SUBSET S : SumFunctionOnSet(f, t) \notin Int}
<1> SUFFICES ASSUME W # {} PROVE FALSE
  <2>1. S \in SUBSET S
    OBVIOUS
  <2> QED BY <2>1
<1>1. PICK t \in W : \A u \in W : u \subseteq t => u = t
  <2>1. W \in SUBSET (SUBSET S)
    OBVIOUS
  <2> HIDE DEF W
  <2> QED BY <2>1, SmallestSet
<1>2. t \in SUBSET S /\ SumFunctionOnSet(f, t) \notin Int /\ IsFiniteSet(t)
  BY FS_Subset
<1>3. SumFunctionOnSet(f, t) =
        IF t = {} THEN 0 ELSE f[First(t)] + SumFunctionOnSet(f, t \ {First(t)})
  BY <1>2, SumStep
<1>4. CASE t = {}
  BY <1>2, <1>3, <1>4
<1>5. CASE t # {}
  <2>1. First(t) \in t
    BY <1>5, FirstType
  <2>2. t \ {First(t)} \notin W /\ t \ {First(t)} \in SUBSET S
    BY <1>1, <1>2, <2>1
  <2>3. SumFunctionOnSet(f, t \ {First(t)}) \in Int /\ f[First(t)] \in Int
    BY <1>2, <2>1, <2>2
  <2> QED BY <1>2, <1>3, <1>5, <2>3
<1> QED BY <1>4, <1>5

\* Whichever element is taken first, the sum is the same.
LEMMA SumRemove ==
  ASSUME NEW f, NEW S, IsFiniteSet(S), \A x \in S : f[x] \in Int, NEW x \in S
  PROVE  SumFunctionOnSet(f, S) = f[x] + SumFunctionOnSet(f, S \ {x})
<1> DEFINE Sum(t) == SumFunctionOnSet(f, t)
           W == {t \in SUBSET S : \E y \in t : Sum(t) # f[y] + Sum(t \ {y})}
<1> SUFFICES ASSUME W # {} PROVE FALSE
  <2>1. S \in SUBSET S
    OBVIOUS
  <2> QED BY <2>1
<1>0. ASSUME NEW t \in SUBSET S
      PROVE  /\ Sum(t) \in Int
             /\ Sum(t) = IF t = {} THEN 0 ELSE f[First(t)] + Sum(t \ {First(t)})
  <2>1. IsFiniteSet(t)
    BY FS_Subset
  <2> QED BY <2>1, SumType, SumStep
<1> HIDE DEF Sum
<1>1. PICK t \in W : \A u \in W : u \subseteq t => u = t
  <2>1. W \in SUBSET (SUBSET S)
    OBVIOUS
  <2> HIDE DEF W
  <2> QED BY <2>1, SmallestSet
<1>2. t \in SUBSET S
  OBVIOUS
<1>3. PICK y \in t : Sum(t) # f[y] + Sum(t \ {y})
  OBVIOUS
<1> DEFINE c == First(t)
<1>4. c \in t /\ Sum(t) = f[c] + Sum(t \ {c})
  BY <1>0, <1>2, <1>3, FirstType
<1> HIDE DEF c
<1>5. c # y
  BY <1>3, <1>4
<1>6. ASSUME NEW u \in SUBSET t, u # t, NEW z \in u PROVE Sum(u) = f[z] + Sum(u \ {z})
  <2>1. u \notin W /\ u \in SUBSET S
    BY <1>1, <1>2, <1>6
  <2> QED BY <2>1
<1> HIDE DEF W
<1>7. Sum(t \ {c}) = f[y] + Sum((t \ {c}) \ {y})
  BY <1>4, <1>5, <1>6
<1>8. Sum(t \ {y}) = f[c] + Sum((t \ {y}) \ {c})
  BY <1>3, <1>4, <1>5, <1>6
<1>9. (t \ {y}) \ {c} = (t \ {c}) \ {y} /\ (t \ {c}) \ {y} \in SUBSET S
  BY <1>2
<1>10. Sum((t \ {c}) \ {y}) \in Int
  BY <1>0, <1>9
<1>11. f[c] \in Int /\ f[y] \in Int
  BY <1>2, <1>4
<1> DEFINE R == Sum((t \ {c}) \ {y})
<1>12. Sum(t) = f[c] + (f[y] + R)
  BY <1>4, <1>7
<1>13. f[y] + Sum(t \ {y}) = f[y] + (f[c] + R)
  BY <1>8, <1>9
<1>14. f[c] + (f[y] + R) = f[y] + (f[c] + R)
  <2>1. R \in Int
    BY <1>10
  <2> HIDE DEF R
  <2> QED BY ONLY <1>11, <2>1
<1> HIDE DEF R
<1> QED BY <1>3, <1>12, <1>13, <1>14

\* Renaming the indices one to one leaves the sum as it is.
LEMMA SumReindex ==
  ASSUME NEW f, NEW g, NEW S, NEW h, IsFiniteSet(S),
         \A x \in S : f[x] \in Int /\ f[x] = g[h[x]],
         \A x, y \in S : h[x] = h[y] => x = y
  PROVE  SumFunctionOnSet(f, S) = SumFunctionOnSet(g, {h[x] : x \in S})
<1> DEFINE Image(t) == {h[x] : x \in t}
           W == {t \in SUBSET S : SumFunctionOnSet(f, t) # SumFunctionOnSet(g, Image(t))}
<1> SUFFICES ASSUME W # {} PROVE FALSE
  <2>1. S \in SUBSET S
    OBVIOUS
  <2> QED BY <2>1
<1>1. PICK t \in W : \A u \in W : u \subseteq t => u = t
  <2>1. W \in SUBSET (SUBSET S)
    OBVIOUS
  <2> HIDE DEF W
  <2> QED BY <2>1, SmallestSet
<1>2. /\ t \in SUBSET S /\ IsFiniteSet(t)
      /\ SumFunctionOnSet(f, t) # SumFunctionOnSet(g, Image(t))
  BY FS_Subset
<1>3. IsFiniteSet(Image(t))
  <2> DEFINE k == [x \in t |-> h[x]]
  <2>1. k \in Surjection(t, Image(t))
    BY DEF Surjection
  <2> HIDE DEF Image, W, k
  <2> QED BY <1>2, <2>1, FS_Surjection
<1>4. CASE t = {}
  <2>1. Image(t) = {}
    BY <1>4
  <2> QED BY <1>2, <1>3, <1>4, <2>1, SumStep
<1>5. CASE t # {}
  <2>1. PICK x \in t : TRUE
    BY <1>5
  <2>2. h[x] \in Image(t) /\ Image(t) \ {h[x]} = Image(t \ {x})
    BY <1>2
  <2>3. SumFunctionOnSet(f, t \ {x}) = SumFunctionOnSet(g, Image(t \ {x}))
    <3>1. t \ {x} \notin W /\ t \ {x} \in SUBSET S
      BY <1>1, <1>2, <2>1
    <3> QED BY <3>1
  <2>4. SumFunctionOnSet(f, t) = f[x] + SumFunctionOnSet(f, t \ {x})
    BY <1>2, SumRemove
  <2>5. \A z \in Image(t) : g[z] \in Int
    BY <1>2
  <2> HIDE DEF Image, W
  <2>6. SumFunctionOnSet(g, Image(t)) = g[h[x]] + SumFunctionOnSet(g, Image(t) \ {h[x]})
    BY <1>3, <2>2, <2>5, SumRemove
  <2> QED BY <1>2, <2>1, <2>2, <2>3, <2>4, <2>6
<1> QED BY <1>4, <1>5

-----------------------------------------------------------------------------
(* Sums of sequences *)

\* The same, the indices of g being named.
LEMMA SumRenamed ==
  ASSUME NEW f, NEW g, NEW S, NEW T, NEW h, IsFiniteSet(S),
         \A x \in S : f[x] \in Int /\ f[x] = g[h[x]],
         \A x, y \in S : h[x] = h[y] => x = y,
         T = {h[x] : x \in S}
  PROVE  SumFunctionOnSet(f, S) = SumFunctionOnSet(g, T)
BY SumReindex

\* Equal values have equal sums.
LEMMA SumsEqual ==
  ASSUME NEW f, NEW g, NEW S, IsFiniteSet(S), \A x \in S : f[x] \in Int /\ f[x] = g[x]
  PROVE  SumFunctionOnSet(f, S) = SumFunctionOnSet(g, S)
<1> DEFINE h == [x \in S |-> x]
<1>1. S = {h[x] : x \in S}
  OBVIOUS
<1>2. \A x \in S : f[x] \in Int /\ f[x] = g[h[x]]
  OBVIOUS
<1>3. \A x, y \in S : h[x] = h[y] => x = y
  OBVIOUS
<1> HIDE DEF h
<1> QED BY <1>1, <1>2, <1>3, SumRenamed

\* An element at the end adds itself.
LEMMA SumOfAppend ==
  ASSUME NEW s \in Seq(Int), NEW x \in Int
  PROVE  SumFunction(Append(s, x)) = SumFunction(s) + x
<1> DEFINE n == Len(s)
           a == Append(s, x)
<1>1. n \in Nat /\ DOMAIN s = 1 .. n /\ DOMAIN a = 1 .. n + 1
  BY AppendProperties, LenProperties
<1>2. (\A j \in 1 .. n : s[j] \in Int /\ s[j] = a[j]) /\ a[n + 1] = x
  BY AppendProperties, ElementOfSeq
<1>3. IsFiniteSet(1 .. n) /\ IsFiniteSet(1 .. n + 1)
  BY <1>1, FS_Interval
<1>5. SumFunctionOnSet(s, 1 .. n) = SumFunctionOnSet(a, 1 .. n)
  <2> DEFINE D == 1 .. n
  <2>1. IsFiniteSet(D) /\ \A j \in D : s[j] \in Int /\ s[j] = a[j]
    BY <1>2, <1>3
  <2> HIDE DEF D, n, a
  <2>2. SumFunctionOnSet(s, D) = SumFunctionOnSet(a, D)
    BY ONLY <2>1, SumsEqual
  <2> QED BY <2>2 DEF D
<1>6. (1 .. n + 1) \ {n + 1} = 1 .. n
  BY <1>1
<1>7. SumFunctionOnSet(a, 1 .. n + 1) = a[n + 1] + SumFunctionOnSet(a, 1 .. n)
  <2>1. \A j \in 1 .. n + 1 : a[j] \in Int
    BY <1>1, <1>2
  <2>2. n + 1 \in 1 .. n + 1
    BY <1>1
  <2> DEFINE D == 1 .. n + 1
             z == n + 1
  <2>3. IsFiniteSet(D) /\ (\A j \in D : a[j] \in Int) /\ z \in D
    BY <1>3, <2>1, <2>2
  <2> HIDE DEF D, z, n, a
  <2>4. SumFunctionOnSet(a, D) = a[z] + SumFunctionOnSet(a, D \ {z})
    BY ONLY <2>3, SumRemove
  <2> QED BY <1>6, <2>4 DEF D, z
<1>8. SumFunctionOnSet(s, 1 .. n) \in Int
  BY <1>2, <1>3, SumType
<1> HIDE DEF n, a
<1>9. SumFunctionOnSet(a, 1 .. n + 1) = SumFunctionOnSet(s, 1 .. n) + x
  BY <1>2, <1>5, <1>7, <1>8
<1> QED BY <1>1, <1>9 DEF SumFunction, a

\* The first element adds itself to the sum of the others.
LEMMA SumOfTail ==
  ASSUME NEW s \in Seq(Int), s # <<>>
  PROVE  SumFunction(s) = s[1] + SumFunction(Tail(s))
<1> DEFINE n == Len(s)
           t == Tail(s)
           h == [j \in 1 .. n - 1 |-> j + 1]
<1>1. n \in Nat \ {0} /\ DOMAIN s = 1 .. n /\ DOMAIN t = 1 .. n - 1
  BY HeadTailProperties, LenProperties, EmptySeq
<1>2. \A j \in 1 .. n - 1 : t[j] = s[j + 1] /\ t[j] \in Int
  BY <1>1, HeadTailProperties, ElementOfSeq
<1>3. IsFiniteSet(1 .. n) /\ IsFiniteSet(1 .. n - 1)
  BY <1>1, FS_Interval
<1>4. {h[j] : j \in 1 .. n - 1} = (1 .. n) \ {1}
  <2>1. ASSUME NEW k \in 2 .. n PROVE k - 1 \in 1 .. n - 1 /\ h[k - 1] = k
    BY <1>1
  <2>2. (1 .. n) \ {1} = 2 .. n
    BY <1>1
  <2>3. \A j \in 1 .. n - 1 : h[j] \in 2 .. n
    BY <1>1
  <2> HIDE DEF h, n
  <2> QED BY <2>1, <2>2, <2>3
<1>5. SumFunctionOnSet(t, 1 .. n - 1) = SumFunctionOnSet(s, (1 .. n) \ {1})
  <2>1. \A j \in 1 .. n - 1 : t[j] \in Int /\ t[j] = s[h[j]]
    BY <1>2
  <2>2. \A j, k \in 1 .. n - 1 : h[j] = h[k] => j = k
    BY <1>1
  <2> DEFINE D == 1 .. n - 1
             E == (1 .. n) \ {1}
  <2>3. /\ IsFiniteSet(D) /\ E = {h[j] : j \in D}
        /\ (\A j \in D : t[j] \in Int /\ t[j] = s[h[j]])
        /\ (\A j, k \in D : h[j] = h[k] => j = k)
    BY <1>3, <1>4, <2>1, <2>2
  <2> HIDE DEF D, E, n, t, h
  <2>4. SumFunctionOnSet(t, D) = SumFunctionOnSet(s, E)
    BY ONLY <2>3, SumRenamed
  <2> QED BY <2>4 DEF D, E
<1>6. SumFunctionOnSet(s, 1 .. n) = s[1] + SumFunctionOnSet(s, (1 .. n) \ {1})
  <2>1. \A j \in 1 .. n : s[j] \in Int
    BY <1>1, ElementOfSeq
  <2>2. 1 \in 1 .. n
    BY <1>1
  <2> DEFINE D == 1 .. n
  <2>3. IsFiniteSet(D) /\ (\A j \in D : s[j] \in Int) /\ 1 \in D
    BY <1>3, <2>1, <2>2
  <2> HIDE DEF D
  <2>4. SumFunctionOnSet(s, D) = s[1] + SumFunctionOnSet(s, D \ {1})
    BY ONLY <2>3, SumRemove
  <2> QED BY <2>4 DEF D
<1> HIDE DEF n, t, h
<1> QED BY <1>1, <1>5, <1>6 DEF SumFunction, t

\* The sum of integers is one.
LEMMA SumOfSeqType == ASSUME NEW s \in Seq(Int) PROVE SumFunction(s) \in Int
<1>1. Len(s) \in Nat /\ DOMAIN s = 1 .. Len(s) /\ \A j \in 1 .. Len(s) : s[j] \in Int
  BY LenProperties, ElementOfSeq
<1>2. IsFiniteSet(1 .. Len(s))
  BY <1>1, FS_Interval
<1> QED BY <1>1, <1>2, SumType DEF SumFunction

-----------------------------------------------------------------------------
(* The window *)

\* The window's indices.
WindowType(w) == /\ w.head \in 0 .. Capacity - 1 /\ w.count \in 0 .. Capacity
                 /\ w.push_count \in 0 .. Capacity * Capacity - 1

\* sw_push keeps head, count and pushes in range, whatever is pushed.
LEMMA WindowStays ==
  ASSUME NEW w, WindowType(w), NEW x PROVE WindowType(sw_push(w, x))
<1>1. Capacity * Capacity \in Nat \ {0}
  OBVIOUS
<1>2. sw_push(w, x).head \in 0 .. Capacity - 1
  BY DEF sw_push, WindowType
<1>3. sw_push(w, x).count \in 0 .. Capacity
  BY DEF sw_push, WindowType
<1>4. sw_push(w, x).push_count = IF w.push_count + 1 >= Capacity * Capacity THEN 0 ELSE w.push_count + 1
  BY DEF sw_push
<1>5. sw_push(w, x).push_count \in 0 .. Capacity * Capacity - 1
  <2> DEFINE square == Capacity * Capacity
  <2>1. square \in Nat \ {0} /\ w.push_count \in 0 .. square - 1
    BY <1>1 DEF WindowType
  <2>2. sw_push(w, x).push_count = IF w.push_count + 1 >= square THEN 0 ELSE w.push_count + 1
    BY <1>4
  <2> HIDE DEF square
  <2>3. sw_push(w, x).push_count \in 0 .. square - 1
    BY <2>1, <2>2
  <2> QED BY <2>3 DEF square
<1> QED BY <1>2, <1>3, <1>5 DEF WindowType

\* sw_init starts in range.
LEMMA WindowStarts == WindowType(sw_init)
<1>1. Capacity * Capacity \in Nat \ {0}
  OBVIOUS
<1> DEFINE square == Capacity * Capacity
<1>2. square \in Nat \ {0}
  BY <1>1
<1> HIDE DEF square
<1>3. 0 \in 0 .. square - 1
  BY <1>2
<1> QED BY <1>3 DEF WindowType, sw_init, square

\* Where the buffer holds the j-th oldest sample.
Place(head, count, j) == LET p == head - count + (j - 1)
                         IN IF p < 0 THEN p + Capacity ELSE p

\* The count slots behind the head hold these samples, the oldest first, and
\* until the window is full these are the first ones.
Holds(buffer, head, count, samples) ==
  /\ buffer \in [0 .. Capacity - 1 -> Int]
  /\ head \in 0 .. Capacity - 1 /\ count \in 0 .. Capacity
  /\ count < Capacity => head = count
  /\ samples \in Seq(Int) /\ Len(samples) = count
  /\ \A j \in 1 .. count : samples[j] = buffer[Place(head, count, j)]

WindowHolds(w, samples) ==
  Holds(w.buffer, w.head, w.count, samples) /\ w.run_sum = SumFunction(samples)

\* The slots of a window are its first count ones, each of them once.
LEMMA PlacesOnce ==
  ASSUME NEW head \in 0 .. Capacity - 1, NEW count \in 0 .. Capacity,
         count < Capacity => head = count
  PROVE  /\ \A j \in 1 .. count : Place(head, count, j) \in 0 .. count - 1
         /\ \A j, k \in 1 .. count : Place(head, count, j) = Place(head, count, k) => j = k
         /\ \A p \in 0 .. count - 1 : \E j \in 1 .. count : p = Place(head, count, j)
<1>1. ASSUME NEW p \in 0 .. count - 1
      PROVE  \E j \in 1 .. count : p = Place(head, count, j)
  <2>1. CASE count < Capacity
    <3>1. p + 1 \in 1 .. count /\ p = Place(head, count, p + 1)
      BY <2>1 DEF Place
    <3> QED BY <3>1
  <2>2. CASE count = Capacity /\ p < head
    <3>1. p - head + Capacity + 1 \in 1 .. count /\ p = Place(head, count, p - head + Capacity + 1)
      BY <2>2 DEF Place
    <3> QED BY <3>1
  <2>3. CASE count = Capacity /\ p >= head
    <3>1. p - head + 1 \in 1 .. count /\ p = Place(head, count, p - head + 1)
      BY <2>3 DEF Place
    <3> QED BY <3>1
  <2> QED BY <2>1, <2>2, <2>3
<1>2. \A j \in 1 .. count : Place(head, count, j) \in 0 .. count - 1
  BY DEF Place
<1>3. \A j, k \in 1 .. count : Place(head, count, j) = Place(head, count, k) => j = k
  BY DEF Place
<1> QED BY <1>1, <1>2, <1>3

\* The loop that computes the sum anew adds up those samples.
LEMMA SumAnew ==
  ASSUME NEW b, NEW head, NEW count, NEW samples, Holds(b, head, count, samples)
  PROVE  SumFunctionOnSet(b, 0 .. count - 1) = SumFunction(samples)
<1> DEFINE D == 1 .. count
           E == 0 .. count - 1
           h == [j \in D |-> Place(head, count, j)]
<1>1. /\ samples \in Seq(Int) /\ Len(samples) = count /\ count \in 0 .. Capacity
      /\ head \in 0 .. Capacity - 1 /\ (count < Capacity => head = count)
      /\ b \in [0 .. Capacity - 1 -> Int]
      /\ \A j \in D : samples[j] = b[Place(head, count, j)]
  BY DEF Holds
<1>2. DOMAIN samples = D /\ IsFiniteSet(D)
  BY <1>1, LenProperties, FS_Interval
<1>3. \A j \in D : samples[j] \in Int
  BY <1>1, ElementOfSeq
<1>4. /\ \A j \in D : Place(head, count, j) \in E
      /\ \A j, k \in D : Place(head, count, j) = Place(head, count, k) => j = k
      /\ \A p \in E : \E j \in D : p = Place(head, count, j)
  BY <1>1, PlacesOnce
<1> HIDE DEF D, E
<1>5. \A j \in D : h[j] = Place(head, count, j)
  OBVIOUS
<1> HIDE DEF h
<1>6. \A j \in D : samples[j] \in Int /\ samples[j] = b[h[j]]
  BY <1>1, <1>3, <1>5
<1>7. \A j, k \in D : h[j] = h[k] => j = k
  BY <1>4, <1>5
<1>8. E = {h[j] : j \in D}
  BY <1>4, <1>5
<1>9. SumFunctionOnSet(samples, D) = SumFunctionOnSet(b, E)
  BY ONLY <1>2, <1>6, <1>7, <1>8, SumRenamed
<1> QED BY <1>2, <1>9 DEF SumFunction, E

\* Behind the last slot comes the first.
LEMMA HeadWraps ==
  ASSUME NEW head \in 0 .. Capacity - 1
  PROVE  (head + 1) % Capacity = IF head + 1 = Capacity THEN 0 ELSE head + 1
<1>1. CASE head + 1 = Capacity
  BY <1>1
<1>2. CASE head + 1 < Capacity
  BY <1>2
<1> QED BY <1>1, <1>2

\* A push writes the newest sample into the slot of the oldest.
LEMMA PushHolds ==
  ASSUME NEW b, NEW head, NEW count, NEW samples, Holds(b, head, count, samples), NEW x \in Int
  PROVE  Holds([b EXCEPT ![head] = x], (head + 1) % Capacity,
               IF count = Capacity THEN count ELSE count + 1, Latest(samples, x))
<1> DEFINE all == Append(samples, x)
           b2 == [b EXCEPT ![head] = x]
           head2 == (head + 1) % Capacity
           count2 == IF count = Capacity THEN count ELSE count + 1
<1>1. /\ samples \in Seq(Int) /\ Len(samples) = count /\ count \in 0 .. Capacity
      /\ head \in 0 .. Capacity - 1 /\ (count < Capacity => head = count)
      /\ b \in [0 .. Capacity - 1 -> Int]
      /\ \A j \in 1 .. count : samples[j] = b[Place(head, count, j)]
  BY DEF Holds
<1>2. /\ all \in Seq(Int) /\ Len(all) = count + 1 /\ all[count + 1] = x
      /\ \A j \in 1 .. count : all[j] = samples[j]
  BY <1>1, AppendProperties
<1>3. b2 \in [0 .. Capacity - 1 -> Int]
  BY <1>1
<1>4. head2 = IF head + 1 = Capacity THEN 0 ELSE head + 1
  BY <1>1, HeadWraps
<1>5. \A p \in 0 .. Capacity - 1 : b2[p] = IF p = head THEN x ELSE b[p]
  <2>1. b \in [0 .. Capacity - 1 -> Int] /\ head \in 0 .. Capacity - 1
    BY <1>1
  <2> QED BY ONLY <2>1
<1> HIDE DEF all, b2, head2
<1>6. CASE count < Capacity
  <2>1. Latest(samples, x) = all /\ count2 = count + 1
    BY <1>1, <1>2, <1>6 DEF Latest, all
  <2>2. \A j \in 1 .. count : Place(head, count, j) = j - 1
    BY <1>1, <1>6 DEF Place
  <2>3. \A j \in 1 .. count + 1 : Place(head2, count + 1, j) = j - 1
    BY <1>1, <1>4, <1>6 DEF Place
  <2>4. ASSUME NEW j \in 1 .. count + 1 PROVE all[j] = b2[j - 1]
    <3>1. CASE j = count + 1
      BY <1>1, <1>2, <1>5, <1>6, <3>1
    <3>2. CASE j # count + 1
      <4>1. j \in 1 .. count /\ j - 1 \in 0 .. Capacity - 1 /\ j - 1 # head
        BY <1>1, <1>6, <3>2
      <4> QED BY <1>1, <1>2, <1>5, <2>2, <4>1
    <3> QED BY <3>1, <3>2
  <2>5. /\ head2 \in 0 .. Capacity - 1 /\ count + 1 \in 0 .. Capacity
        /\ (count + 1 < Capacity => head2 = count + 1)
    BY <1>1, <1>4, <1>6
  <2>6. Holds(b2, head2, count + 1, all)
    BY <1>2, <1>3, <2>3, <2>4, <2>5 DEF Holds
  <2> QED BY <2>1, <2>6 DEF b2, head2
<1>7. CASE count = Capacity
  <2> DEFINE tail == Tail(all)
  <2>0. all # <<>>
    BY <1>1, <1>2
  <2>1. Latest(samples, x) = tail /\ count2 = count
    BY <1>1, <1>2, <1>7 DEF Latest, all
  <2>2. /\ tail \in Seq(Int) /\ Len(tail) = count
        /\ \A j \in 1 .. count : tail[j] = all[j + 1]
    BY <1>1, <1>2, <2>0, HeadTailProperties
  <2> HIDE DEF tail
  <2>3. ASSUME NEW j \in 1 .. count PROVE tail[j] = b2[Place(head2, count, j)]
    <3>1. CASE j = count
      <4>1. Place(head2, count, j) = head
        BY <1>1, <1>4, <1>7, <3>1 DEF Place
      <4> QED BY <1>1, <1>2, <1>5, <2>2, <3>1, <4>1
    <3>2. CASE j # count
      <4>1. j + 1 \in 1 .. count
        BY <1>1, <3>2
      <4>2. /\ Place(head2, count, j) = Place(head, count, j + 1)
            /\ Place(head2, count, j) \in (0 .. Capacity - 1) \ {head}
        BY <1>1, <1>4, <1>7, <4>1 DEF Place
      <4> QED BY <1>1, <1>2, <1>5, <2>2, <4>1, <4>2
    <3> QED BY <3>1, <3>2
  <2>4. head2 \in 0 .. Capacity - 1
    BY <1>1, <1>4
  <2>5. Holds(b2, head2, count, tail)
    BY <1>1, <1>3, <1>7, <2>2, <2>3, <2>4 DEF Holds
  <2> QED BY <2>1, <2>5 DEF b2, head2
<1> QED BY <1>1, <1>6, <1>7

\* A push keeps the running sum that of the last samples: while the window
\* fills, when it wraps, and when the sum is computed anew.
LEMMA PushKeepsSum ==
  ASSUME NEW w, NEW samples, WindowHolds(w, samples), NEW x \in Int
  PROVE  WindowHolds(sw_push(w, x), Latest(samples, x))
<1> DEFINE b2 == [w.buffer EXCEPT ![w.head] = x]
           head2 == (w.head + 1) % Capacity
           count2 == IF w.count = Capacity THEN w.count ELSE w.count + 1
           last == Latest(samples, x)
           due == w.push_count + 1 >= Capacity * Capacity
           running == w.run_sum + x - IF w.count = Capacity THEN w.buffer[w.head] ELSE 0
<1>1. /\ sw_push(w, x).buffer = b2 /\ sw_push(w, x).head = head2
      /\ sw_push(w, x).count = count2
      /\ sw_push(w, x).run_sum =
           IF due THEN SumFunctionOnSet(b2, 0 .. count2 - 1) ELSE running
  BY DEF sw_push
<1>2. Holds(w.buffer, w.head, w.count, samples) /\ w.run_sum = SumFunction(samples)
  BY DEF WindowHolds
<1>3. Holds(b2, head2, count2, last)
  BY <1>2, PushHolds
<1>4. SumFunctionOnSet(b2, 0 .. count2 - 1) = SumFunction(last)
  <2> HIDE DEF b2, head2, count2, last
  <2> QED BY <1>3, SumAnew
<1>5. running = SumFunction(last)
  <2> DEFINE all == Append(samples, x)
  <2>1. samples \in Seq(Int) /\ Len(samples) = w.count /\ w.count \in 0 .. Capacity
    BY <1>2 DEF Holds
  <2>2. SumFunction(all) = SumFunction(samples) + x /\ SumFunction(samples) \in Int
    BY <2>1, SumOfAppend, SumOfSeqType
  <2>3. all \in Seq(Int) /\ Len(all) = w.count + 1
    BY <2>1, AppendProperties
  <2>4. CASE w.count < Capacity
    <3>1. last = all
      BY <2>1, <2>3, <2>4 DEF Latest
    <3> QED BY <1>2, <2>1, <2>2, <2>4, <3>1
  <2>5. CASE w.count = Capacity
    <3>1. last = Tail(all)
      BY <2>1, <2>3, <2>5 DEF Latest
    <3>2. all[1] = w.buffer[w.head]
      <4>1. 1 \in 1 .. w.count /\ Place(w.head, w.count, 1) = w.head
        BY <1>2, <2>5 DEF Holds, Place
      <4>2. all[1] = samples[1]
        BY <2>1, <4>1, AppendProperties
      <4> QED BY <1>2, <4>1, <4>2 DEF Holds
    <3>3. w.buffer[w.head] \in Int
      BY <1>2 DEF Holds
    <3> HIDE DEF all, last
    <3>4. all # <<>>
      BY <2>1, <2>3
    <3> DEFINE rest == Tail(all)
    <3>5. rest \in Seq(Int)
      BY <2>3, <3>4, HeadTailProperties
    <3>6. SumFunction(all) = all[1] + SumFunction(rest)
      BY <2>3, <3>4, SumOfTail
    <3> HIDE DEF rest
    <3>7. SumFunction(rest) \in Int
      BY <3>5, SumOfSeqType
    <3> DEFINE before == SumFunction(samples)
               oldest == w.buffer[w.head]
               after == SumFunction(rest)
    <3>8. running = before + x - oldest
      BY <1>2, <2>5
    <3>9. before + x = oldest + after
      BY <2>2, <3>2, <3>6
    <3>10. before \in Int /\ oldest \in Int /\ after \in Int
      BY <2>2, <3>3, <3>7
    <3>11. SumFunction(last) = after
      BY <3>1 DEF rest
    <3> HIDE DEF running, before, oldest, after
    <3> QED BY ONLY <3>8, <3>9, <3>10, <3>11
  <2> QED BY <2>1, <2>4, <2>5
<1> HIDE DEF b2, head2, count2, last, running, due
<1> QED BY <1>1, <1>3, <1>4, <1>5 DEF WindowHolds, last

\* An empty window holds no samples.
LEMMA InitHolds == WindowHolds(sw_init, <<>>)
<1>1. SumFunction(<<>>) = 0
  <2>1. DOMAIN <<>> = {}
    OBVIOUS
  <2> QED BY <2>1, SumStep, FS_EmptySet DEF SumFunction
<1>2. Holds(sw_init.buffer, 0, 0, <<>>)
  BY DEF sw_init, Holds
<1> QED BY <1>1, <1>2 DEF sw_init, WindowHolds
=============================================================================
