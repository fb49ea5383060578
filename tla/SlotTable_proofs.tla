-------------------------- MODULE SlotTable_proofs --------------------------
EXTENDS SlotTable, FiniteSetTheorems, SequenceTheorems, WellFoundedInduction, TLAPS

USE SlotAssumption

-----------------------------------------------------------------------------
(* The command line *)

\* The lesser of two numbers is at most each of them.
LEMMA LesserType ==
  ASSUME NEW a \in Nat, NEW b \in Nat
  PROVE  Lesser(a, b) \in 0 .. b /\ Lesser(a, b) <= a
BY DEF Lesser

\* An option keeps the configuration in range, whatever its argument.
LEMMA OptionParsed ==
  ASSUME NEW c \in Config, NEW o \in Option PROVE ParseOption(c, o) \in Config
<1>1. CASE o.opt = "--pids"
  <2> DEFINE all == c.pids \o o.arg
             kept == SubSeq(all, 1, Lesser(MaxPids, Len(all)))
  <2>1. c.pids \in Seq(Pids) /\ o.arg \in Seq(Pids)
    BY <1>1 DEF Config, Option
  <2>2. all \in Seq(Pids)
    BY <2>1, ConcatProperties
  <2> HIDE DEF all
  <2>3. /\ Len(all) \in Nat /\ MaxPids \in Nat
        /\ \A k \in 1 .. Len(all) : all[k] \in Pids
    BY <2>2, LenProperties, ElementOfSeq
  <2>4. Lesser(MaxPids, Len(all)) \in 0 .. Len(all)
    BY <2>3, LesserType
  <2>5. \A k \in 1 .. Lesser(MaxPids, Len(all)) : all[k] \in Pids
    BY <2>3, <2>4
  <2>6. kept \in Seq(Pids)
    BY <2>3, <2>4, <2>5, SubSeqProperties
  <2>7. ParseOption(c, o) = [c EXCEPT !.pids = kept]
    BY <1>1 DEF ParseOption, all
  <2> HIDE DEF kept
  <2> QED BY <2>6, <2>7 DEF Config
<1>2. CASE o.opt = "--top"
  <2>1. DefaultTopN \in 0 .. MaxPids /\ 1 .. MaxPids \subseteq 0 .. MaxPids
    OBVIOUS
  <2> QED BY <1>2, <2>1 DEF ParseOption, Config
<1>3. CASE o.opt = "--all"
  BY <1>3 DEF ParseOption, Config
<1>4. CASE o.opt = "--per-core"
  BY <1>4 DEF ParseOption, Config
<1>5. CASE o.opt = "--cores"
  <2> DEFINE mask == c.mask \cup (o.arg \cap (0 .. MaxCores - 1))
  <2>1. mask \in SUBSET (0 .. MaxCores - 1)
    BY DEF Config
  <2>2. ParseOption(c, o) = [c EXCEPT !.perCore = TRUE, !.mask = mask]
    BY <1>5 DEF ParseOption
  <2> HIDE DEF mask
  <2> QED BY <2>1, <2>2 DEF Config
<1> QED BY <1>1, <1>2, <1>3, <1>4, <1>5 DEF Option

\* The function FoldLeft picks to parse a line: its recursion over the sets of
\* options, of which it takes the last one.
IsFoldOf(g, line, S) ==
  g = [s \in SUBSET S |->
         IF s = {} THEN NoOptions ELSE ParseOption(g[s \ {Max(s)}], line[Max(s)])]

\* Sets of options have smallest members: what induction over them rests on.
LEMMA SmallestSet ==
  ASSUME NEW S, IsFiniteSet(S), NEW W \in SUBSET (SUBSET S), W # {}
  PROVE  \E s \in W : \A t \in W : t \subseteq s => t = s
<1>1. IsWellFoundedOn(StrictSubsetOrdering(S), SUBSET S)
  <2>1. FiniteSubsetsOf(S) = SUBSET S
    BY FS_FiniteSubsetsOfFinite
  <2> QED BY <2>1, FS_StrictSubsetOrderingWellFounded
<1>2. PICK s \in W : \A t \in W : <<t, s>> \notin StrictSubsetOrdering(S)
  BY <1>1, WFMin
<1>3. ASSUME NEW t \in W, t \subseteq s PROVE t = s
  <2>1. t \in SUBSET S /\ s \in SUBSET S
    OBVIOUS
  <2> QED BY <1>2, <1>3, <2>1 DEF StrictSubsetOrdering
<1> QED BY <1>3

\* A set of options has a last one.
LEMMA LastOption ==
  ASSUME NEW m \in Nat, NEW s \in SUBSET (1 .. m), s # {} PROVE Max(s) \in s
<1> DEFINE W == {(x + 1) .. m : x \in s}
<1>1. PICK u \in W : \A v \in W : v \subseteq u => v = u
  <2> DEFINE D == 1 .. m
  <2>1. W \in SUBSET (SUBSET D) /\ W # {}
    <3>1. \A x \in s : (x + 1) .. m \in SUBSET D
      OBVIOUS
    <3> HIDE DEF D
    <3> QED BY <3>1
  <2>2. IsFiniteSet(D)
    BY FS_Interval
  <2> HIDE DEF W, D
  <2> QED BY ONLY <2>1, <2>2, SmallestSet
<1>2. PICK x \in s : u = (x + 1) .. m
  OBVIOUS
<1>3. ASSUME NEW y \in s, y > x PROVE FALSE
  <2>1. (y + 1) .. m \in W /\ (y + 1) .. m \subseteq (x + 1) .. m
    BY <1>3
  <2>2. y \in (x + 1) .. m /\ y \notin (y + 1) .. m
    BY <1>3
  <2> QED BY <1>1, <1>2, <2>1, <2>2
<1>4. \A y \in s : x >= y
  BY <1>3
<1> QED BY <1>4 DEF Max

\* The recursion determines its values.
LEMMA FoldsAgree ==
  ASSUME NEW line, NEW m \in Nat, NEW S, NEW T, S \cap T \subseteq 1 .. m,
         NEW g, NEW h, IsFoldOf(g, line, S), IsFoldOf(h, line, T), NEW s \in SUBSET (S \cap T)
  PROVE  g[s] = h[s]
<1> DEFINE W == {t \in SUBSET s : g[t] # h[t]}
<1> SUFFICES ASSUME W # {} PROVE FALSE
  <2>1. s \in SUBSET s
    OBVIOUS
  <2> QED BY <2>1
<1>0. IsFiniteSet(s) /\ s \in SUBSET (1 .. m)
  <2>1. IsFiniteSet(1 .. m)
    BY FS_Interval
  <2> QED BY <2>1, FS_Subset
<1>1. PICK t \in W : \A u \in W : u \subseteq t => u = t
  <2>1. W \in SUBSET (SUBSET s) /\ W # {} /\ IsFiniteSet(s)
    BY <1>0
  <2> HIDE DEF W
  <2> QED BY ONLY <2>1, SmallestSet
<1>2. t \in SUBSET s /\ t \in SUBSET S /\ t \in SUBSET T /\ t \in SUBSET (1 .. m) /\ g[t] # h[t]
  BY <1>0
<1>3. /\ g[t] = IF t = {} THEN NoOptions ELSE ParseOption(g[t \ {Max(t)}], line[Max(t)])
      /\ h[t] = IF t = {} THEN NoOptions ELSE ParseOption(h[t \ {Max(t)}], line[Max(t)])
  BY <1>2 DEF IsFoldOf
<1>4. t # {}
  BY <1>2, <1>3
<1>5. Max(t) \in t
  BY <1>2, <1>4, LastOption
<1>6. g[t \ {Max(t)}] = h[t \ {Max(t)}]
  <2>1. t \ {Max(t)} \in SUBSET s /\ t \ {Max(t)} \subseteq t /\ t \ {Max(t)} # t
    BY <1>2, <1>5
  <2>2. t \ {Max(t)} \notin W
    BY <1>1, <2>1
  <2> QED BY <2>1, <2>2
<1> QED BY <1>2, <1>3, <1>4, <1>6

\* What the recursion makes of a set of options.
Folded(line, S) == (CHOOSE g : IsFoldOf(g, line, S))[S]

\* The recursion computes something for every set of options of a line.
LEMMA FoldExists ==
  ASSUME NEW line, NEW m \in Nat PROVE \E g : IsFoldOf(g, line, 1 .. m)
<1> DEFINE S == 1 .. m
           W == {t \in SUBSET S : ~ \E g : IsFoldOf(g, line, t)}
<1>0. IsFiniteSet(1 .. m)
  BY FS_Interval
<1> SUFFICES ASSUME W # {} PROVE FALSE
  <2>1. S \in SUBSET S
    OBVIOUS
  <2> QED BY <2>1
<1>1. PICK t \in W : \A u \in W : u \subseteq t => u = t
  <2>1. W \in SUBSET (SUBSET S) /\ W # {}
    OBVIOUS
  <2>2. IsFiniteSet(S)
    BY <1>0
  <2> HIDE DEF W, S
  <2> QED BY ONLY <2>1, <2>2, SmallestSet
<1>2. t \in SUBSET (1 .. m) /\ ~ \E g : IsFoldOf(g, line, t)
  OBVIOUS
<1>3. ASSUME NEW u \in SUBSET t, u # t
      PROVE  \E g : IsFoldOf(g, line, u) /\ Folded(line, u) = g[u]
  <2>1. u \in SUBSET S /\ u \notin W
    BY <1>1, <1>2, <1>3
  <2> HIDE DEF S
  <2>2. \E g : IsFoldOf(g, line, u)
    BY <2>1
  <2> QED BY <2>2 DEF Folded
<1> HIDE DEF W, S
<1> DEFINE Step(u) == IF u = {} THEN NoOptions
                      ELSE ParseOption(Folded(line, u \ {Max(u)}), line[Max(u)])
           G == [u \in SUBSET t |-> Step(u)]
<1>4. ASSUME NEW u \in SUBSET t, u # t PROVE Folded(line, u) = Step(u)
  <2>1. PICK g : IsFoldOf(g, line, u) /\ Folded(line, u) = g[u]
    BY <1>3, <1>4
  <2>2. g[u] = IF u = {} THEN NoOptions ELSE ParseOption(g[u \ {Max(u)}], line[Max(u)])
    BY <2>1 DEF IsFoldOf
  <2>3. CASE u # {}
    <3> DEFINE v == u \ {Max(u)}
    <3>1. v \in SUBSET t /\ v # t /\ v \in SUBSET (u \cap v) /\ u \cap v \subseteq 1 .. m
      BY <1>2, <1>4, <2>3, LastOption
    <3> HIDE DEF v
    <3>2. PICK h : IsFoldOf(h, line, v) /\ Folded(line, v) = h[v]
      BY <1>3, <3>1
    <3>3. g[v] = h[v]
      BY <2>1, <3>1, <3>2, FoldsAgree
    <3> QED BY <2>1, <2>2, <2>3, <3>2, <3>3 DEF v
  <2> QED BY <2>1, <2>2, <2>3
<1>5. ASSUME NEW u \in SUBSET t, u # {}
      PROVE  Folded(line, u \ {Max(u)}) = G[u \ {Max(u)}]
  <2>1. u \ {Max(u)} \in SUBSET t /\ u \ {Max(u)} # t
    BY <1>2, <1>5, LastOption
  <2> HIDE DEF Step
  <2> QED BY <1>4, <2>1
<1>6. G = [u \in SUBSET t |->
             IF u = {} THEN NoOptions ELSE ParseOption(G[u \ {Max(u)}], line[Max(u)])]
  <2>1. ASSUME NEW u \in SUBSET t
        PROVE  Step(u) = IF u = {} THEN NoOptions ELSE ParseOption(G[u \ {Max(u)}], line[Max(u)])
    <3> HIDE DEF G
    <3> QED BY <1>5
  <2> HIDE DEF Step
  <2> QED BY <2>1
<1> HIDE DEF G
<1>7. IsFoldOf(G, line, t)
  BY <1>6 DEF IsFoldOf
<1> QED BY <1>2, <1>7

\* parse_args leaves g_cfg in range, whatever the options and their number.
THEOREM ParsedInRange == ASSUME NEW line \in Seq(Option) PROVE ParseArgs(line) \in Config
<1> DEFINE D == DOMAIN line
<1>1. PICK m \in Nat : D = 1 .. m
  BY LenProperties
<1>2. \E g : IsFoldOf(g, line, D)
  BY <1>1, FoldExists
<1>3. PICK g : IsFoldOf(g, line, D) /\ FoldLeft(ParseOption, NoOptions, line) = g[D]
  BY <1>2 DEF FoldLeft, MapThenFoldSet, IsFoldOf
<1>4. NoOptions \in Config
  <2>1. 0 \in 0 .. MaxPids /\ <<>> \in Seq(Pids)
    OBVIOUS
  <2> QED BY <2>1 DEF NoOptions, Config
<1>5. \A k \in D : line[k] \in Option
  BY ElementOfSeq, LenProperties
<1> HIDE DEF D
<1>6. g[D] \in Config
  <2> DEFINE W == {s \in SUBSET D : g[s] \notin Config}
  <2> SUFFICES ASSUME W # {} PROVE FALSE
    <3>1. D \in SUBSET D
      OBVIOUS
    <3> QED BY <3>1
  <2>1. PICK s \in W : \A t \in W : t \subseteq s => t = s
    <3>1. W \in SUBSET (SUBSET D) /\ W # {}
      OBVIOUS
    <3>2. IsFiniteSet(D)
      <4>1. IsFiniteSet(1 .. m)
        BY FS_Interval
      <4> QED BY <1>1, <4>1
    <3> HIDE DEF W
    <3> QED BY ONLY <3>1, <3>2, SmallestSet
  <2>2. s \in SUBSET D /\ g[s] \notin Config
    OBVIOUS
  <2>3. g[s] = IF s = {} THEN NoOptions ELSE ParseOption(g[s \ {Max(s)}], line[Max(s)])
    BY <1>3, <2>2 DEF IsFoldOf
  <2>4. s # {}
    BY <1>4, <2>2, <2>3
  <2>5. Max(s) \in s
    BY <1>1, <2>2, <2>4, LastOption
  <2>6. s \ {Max(s)} \notin W /\ s \ {Max(s)} \in SUBSET D
    BY <2>1, <2>2, <2>5
  <2>7. g[s \ {Max(s)}] \in Config /\ line[Max(s)] \in Option
    BY <1>5, <2>2, <2>5, <2>6
  <2> QED BY <2>2, <2>3, <2>4, <2>7, OptionParsed
<1> DEFINE c == FoldLeft(ParseOption, NoOptions, line)
<1>7. c \in Config
  BY <1>3, <1>6
<1>8. ParseArgs(line) = IF c.pids = <<>> /\ c.topN = 0 THEN [c EXCEPT !.topN = DefaultTopN] ELSE c
  BY DEF ParseArgs
<1> HIDE DEF c
<1>9. DefaultTopN \in 0 .. MaxPids
  OBVIOUS
<1> QED BY <1>7, <1>8, <1>9 DEF Config

-----------------------------------------------------------------------------
(* Types *)

State == [pid : Pids \cup {NoPid}, active : BOOLEAN, final : BOOLEAN]
Holder == Owner \cup {Closed}

\* The types of the parallel arrays.
TableType ==
  /\ n \in 0 .. MaxPids
  /\ st \in [Slots -> State]
  /\ perf \in [Slots -> Holder]
  /\ comm \in [Slots -> Holder]
  /\ win \in [Slots -> WindowsOf]
  /\ sm \in [Slots -> EntryType]
  /\ valid \in [Slots -> BOOLEAN]
  /\ age \in [Slots -> 0 .. Never]
  /\ pcPerf \in [Slots -> [Cores -> Holder]]
  /\ pcWin \in [Slots -> [Cores -> SUBSET Owner]]
  /\ corePrev \in [Slots -> [Cores -> Holder]]
  /\ pcSm \in [Slots -> [Cores -> EntryType]]
  /\ pcAge \in [Slots -> [Cores -> 0 .. Never]]

\* Timestamps that grow older together keep their order.
LEMMA Older ==
  ASSUME NEW a \in 0 .. Never, NEW d \in 1 .. MaxSleep
  PROVE  /\ Lesser(a + d, Never) \in 0 .. Never
         /\ \A b \in 0 .. Never : b <= a => Lesser(b + d, Never) <= Lesser(a + d, Never)
<1>1. Never \in Nat /\ MaxSleep \in Nat
  BY DEF Never
<1> QED BY <1>1 DEF Lesser

\* Writing one flag of g_states.
LEMMA SetFinal ==
  ASSUME st \in [Slots -> State], NEW k \in Slots, NEW b \in BOOLEAN,
         st' = [st EXCEPT ![k].final = b]
  PROVE  /\ st' \in [Slots -> State]
         /\ \A j \in Slots : st'[j].pid = st[j].pid /\ st'[j].active = st[j].active
<1> DEFINE new == [st[k] EXCEPT !.final = b]
<1>1. st' = [st EXCEPT ![k] = new]
  OBVIOUS
<1>2. new \in State /\ new.pid = st[k].pid /\ new.active = st[k].active
  <2>1. st[k] \in State
    OBVIOUS
  <2> QED BY <2>1 DEF State
<1> HIDE DEF new
<1> QED BY <1>1, <1>2

\* What setting the active flag of some slots changes.
LEMMA SetActive ==
  ASSUME st \in [Slots -> State], NEW S \in SUBSET Slots, NEW b \in BOOLEAN,
         st' = [k \in Slots |-> IF k \in S THEN [st[k] EXCEPT !.active = b] ELSE st[k]]
  PROVE  /\ st' \in [Slots -> State]
         /\ \A j \in Slots : /\ st'[j].pid = st[j].pid
                             /\ st'[j].active = IF j \in S THEN b ELSE st[j].active
<1> DEFINE new(k) == [st[k] EXCEPT !.active = b]
<1>1. \A k \in Slots : new(k) \in State /\ new(k).pid = st[k].pid /\ new(k).active = b
  <2> SUFFICES ASSUME NEW k \in Slots
               PROVE  new(k) \in State /\ new(k).pid = st[k].pid /\ new(k).active = b
    OBVIOUS
  <2>1. st[k] \in State
    OBVIOUS
  <2> QED BY <2>1 DEF State
<1>2. st' = [k \in Slots |-> IF k \in S THEN new(k) ELSE st[k]]
  OBVIOUS
<1> HIDE DEF new
<1>3. \A k \in Slots : st'[k] = IF k \in S THEN new(k) ELSE st[k]
  BY <1>2
<1>4. st' \in [Slots -> State]
  BY <1>1, <1>2
<1> QED BY <1>1, <1>3, <1>4

\* The slots in use are slots, the last of them in use.
LEMMA UsedSlots ==
  ASSUME TableType
  PROVE  /\ Used \subseteq Slots
         /\ \A k \in Used : n \in Used /\ k <= n /\ k \in Nat
BY DEF TableType, Used, Slots

\* Moving the last slot into slot k.
LEMMA MovedArray ==
  ASSUME NEW T, NEW array \in [Slots -> T], NEW k \in Slots, n \in Slots
  PROVE  /\ Moved(array, k) \in [Slots -> T]
         /\ \A j \in Slots : Moved(array, k)[j] = array[IF j = k THEN n ELSE j]
BY DEF Moved

\* What remove_slot leaves of the table.
LEMMA RemoveSlotType ==
  ASSUME TableType, NEW k \in Used, RemoveSlot(k)
  PROVE  TableType'
<1>1. k \in Slots /\ n \in Slots /\ n >= 1
  BY UsedSlots DEF Used, Slots
<1>2. n' \in 0 .. MaxPids
  BY <1>1 DEF TableType, RemoveSlot
<1>3. /\ st' \in [Slots -> State]
      /\ comm' \in [Slots -> Holder]
      /\ win' \in [Slots -> WindowsOf]
      /\ sm' \in [Slots -> EntryType]
      /\ pcWin' \in [Slots -> [Cores -> SUBSET Owner]]
      /\ pcSm' \in [Slots -> [Cores -> EntryType]]
      /\ corePrev' \in [Slots -> [Cores -> Holder]]
  BY <1>1, MovedArray DEF TableType, RemoveSlot
<1>4. perf' \in [Slots -> Holder]
  BY <1>1 DEF TableType, RemoveSlot, Moved, Holder
<1>5. pcPerf' \in [Slots -> [Cores -> Holder]]
  BY <1>1 DEF TableType, RemoveSlot, Moved, Holder
<1>6. valid' \in [Slots -> BOOLEAN]
  BY <1>1 DEF TableType, RemoveSlot, Moved
<1>7. age' \in [Slots -> 0 .. Never]
  BY <1>1 DEF TableType, RemoveSlot, Moved, Never
<1>8. pcAge' \in [Slots -> [Cores -> 0 .. Never]]
  BY <1>1 DEF TableType, RemoveSlot, Moved
<1> QED BY <1>2, <1>3, <1>4, <1>5, <1>6, <1>7, <1>8 DEF TableType

-----------------------------------------------------------------------------
(* Which steps touch the table, and how *)

\* Steps of the loop, and of the world around it, that leave the table alone.
Quiet == \/ LeaveLoop \/ FastTick \/ SlowTick \/ SyncAdded \/ Evicted
         \/ Sampled \/ FastPush \/ Environment

\* Steps that are about the world or the loop only leave the table alone.
LEMMA QuietKeepsTable == Quiet => UNCHANGED <<g_cfg, table>>
BY DEF Quiet, LeaveLoop, FastTick, SlowTick, SyncAdded, Evicted, Sampled, FastPush,
       Environment, Signal, ExitProc, SpawnProc

\* Every step is quiet or one of these.
LEMMA StepCases ==
  ASSUME [Next]_vars
  PROVE  \/ Quiet \/ SyncScan \/ SyncKeep \/ SyncAdd \/ OpenCore \/ FillSlot \/ Evict
         \/ SampleGone \/ SampleIdle \/ SampleRan \/ Sleep \/ Cleanup \/ UNCHANGED vars
BY DEF Next, Daemon, Sync, Sample, Quiet

-----------------------------------------------------------------------------
(* add_pid *)

\* While add_pid is opening counters the next slot is free, and what it has
\* opened there is of processes that bore the wanted PID.
Opening ==
  pc = "open" =>
    /\ n < MaxPids /\ todo # <<>> /\ Wanted \in Pids /\ Wanted \notin Tracked
    /\ perf[n + 1] \in Borne(Wanted) \cup {Closed}
    /\ \A c \in Cores : pcPerf[n + 1][c] # Closed =>
         pcPerf[n + 1][c] \in Borne(Wanted) /\ pcWin[n + 1][c] = {}

\* The process that has a PID now is one that bore it.
LEMMA CurrentBorne ==
  ASSUME gen \in [Pids -> 0 .. MaxGen], NEW p \in Pids
  PROVE  Current(p) \in Borne(p) /\ Current(p) \in Owner /\ Current(p) # Closed
BY DEF Current, Borne, Owner, Closed

\* Until the slot is filled the slots in use stay as they were.
LEMMA OpeningType ==
  ASSUME TableType, Opening, gen \in [Pids -> 0 .. MaxGen], todo \in Seq(Pids),
         SyncAdd \/ OpenCore
  PROVE  TableType'
<1>1. CASE SyncAdd
  <2>1. Wanted \in Pids
    BY <1>1 DEF SyncAdd, Wanted
  <2>2. Current(Wanted) \in Holder /\ Closed \in Holder
    BY <2>1, CurrentBorne DEF Holder
  <2>3. CASE AddRefused
    BY <2>3 DEF AddRefused, table, slow, cached, TableType
  <2>4. CASE AddFails
    <3>1. n + 1 \in Slots
      BY <2>4 DEF AddFails, TableType, Slots
    <3> QED BY <2>2, <2>4, <3>1 DEF AddFails, ClearCounters, TableType, cached
  <2>5. CASE AddOpens
    <3>1. n + 1 \in Slots
      BY <2>5 DEF AddOpens, TableType, Slots
    <3>2. PICK o \in {Current(Wanted), Closed} : perf' = [perf EXCEPT ![n + 1] = o]
      BY <2>5 DEF AddOpens
    <3>3. perf' \in [Slots -> Holder] /\ pcPerf' \in [Slots -> [Cores -> Holder]]
      BY <2>2, <2>5, <3>1, <3>2 DEF AddOpens, ClearCounters, TableType
    <3> QED BY <2>5, <3>3 DEF AddOpens, TableType, cached
  <2> QED BY <1>1, <2>3, <2>4, <2>5 DEF SyncAdd
<1>2. CASE OpenCore
  <2>1. n + 1 \in Slots /\ Wanted \in Pids
    BY <1>2 DEF OpenCore, Opening, TableType, Slots
  <2>2. PICK c \in toOpen :
          \/ /\ pcPerf' = [pcPerf EXCEPT ![n + 1][c] = Current(Wanted)]
             /\ pcWin' = [pcWin EXCEPT ![n + 1][c] = {}]
          \/ pcWin' = [pcWin EXCEPT ![n + 1][c] = {}] /\ UNCHANGED pcPerf
          \/ UNCHANGED <<pcPerf, pcWin>>
    BY <1>2 DEF OpenCore
  <2>3. Current(Wanted) \in Holder
    BY <2>1, CurrentBorne DEF Holder
  <2> DEFINE counters == [pcPerf[n + 1] EXCEPT ![c] = Current(Wanted)]
             windows == [pcWin[n + 1] EXCEPT ![c] = {}]
  <2>4. pcPerf' \in [Slots -> [Cores -> Holder]]
    <3>1. counters \in [Cores -> Holder]
      BY <2>1, <2>3 DEF TableType
    <3>2. pcPerf' = [pcPerf EXCEPT ![n + 1] = counters] \/ pcPerf' = pcPerf
      BY <2>2
    <3> HIDE DEF counters
    <3> QED BY <2>1, <3>1, <3>2 DEF TableType
  <2>5. pcWin' \in [Slots -> [Cores -> SUBSET Owner]]
    <3>1. windows \in [Cores -> SUBSET Owner]
      BY <2>1 DEF TableType
    <3>2. pcWin' = [pcWin EXCEPT ![n + 1] = windows] \/ pcWin' = pcWin
      BY <2>2
    <3> HIDE DEF windows
    <3> QED BY <2>1, <3>1, <3>2 DEF TableType
  <2> QED BY <1>2, <2>4, <2>5 DEF OpenCore, TableType, cached
<1> QED BY <1>1, <1>2

\* The slot is filled with values of the right types.
LEMMA FillSlotType ==
  ASSUME TableType, Opening, gen \in [Pids -> 0 .. MaxGen], FillSlot
  PROVE  TableType'
<1>1. n + 1 \in Slots /\ n' \in 0 .. MaxPids /\ Wanted \in Pids
  BY DEF FillSlot, Opening, TableType, Slots
<1>2. Current(Wanted) \in Holder /\ Closed \in Holder
  BY <1>1, CurrentBorne DEF Holder
<1>3. Empty \in WindowsOf /\ Blank \in EntryType /\ Never \in 0 .. Never
  BY DEF Empty, WindowsOf, Blank, EntryType, Never
<1>4. st' \in [Slots -> State] /\ comm' \in [Slots -> Holder] /\ win' \in [Slots -> WindowsOf]
  BY <1>1, <1>2, <1>3 DEF FillSlot, TableType, State
<1>5. /\ sm' \in [Slots -> EntryType] /\ valid' \in [Slots -> BOOLEAN]
      /\ age' \in [Slots -> 0 .. Never]
  BY <1>1, <1>3 DEF FillSlot, TableType
<1>6. /\ pcSm' \in [Slots -> [Cores -> EntryType]] /\ pcAge' \in [Slots -> [Cores -> 0 .. Never]]
      /\ corePrev' \in [Slots -> [Cores -> Holder]]
  BY <1>1, <1>2, <1>3 DEF FillSlot, TableType
<1> QED BY <1>1, <1>4, <1>5, <1>6 DEF FillSlot, TableType

-----------------------------------------------------------------------------
(* Type correctness *)

\* The types of everything else.
LoopType ==
  /\ g_cfg \in Config
  /\ alive \in [Pids -> BOOLEAN] /\ gen \in [Pids -> 0 .. MaxGen]
  /\ pc \in {"top", "add", "open", "evict", "sample", "fast", "cleanup", "done"}
  /\ i \in 1 .. MaxPids + 1
  /\ todo \in Seq(Pids)
  /\ limit \in Nat
  /\ toOpen \subseteq Cores
  /\ phase \in 0 .. SlowEvery - 1
  /\ sinceSync \in 0 .. SyncEvery
  /\ running \in BOOLEAN
  /\ batch \subseteq [cpu : Cpus, data : EntryType]
  /\ seen \subseteq Pids
  /\ ranAge \in [Pids -> [Cpus -> 0 .. Never]]

\* TypeOK in two parts: the table, and the loop over it.
LEMMA TypeParts == TypeOK <=> TableType /\ LoopType
BY DEF TypeOK, TableType, LoopType, State, Holder

\* A slot in use names a process.
InUse == \A k \in Used : st[k].pid \in Pids

Typed == TableType /\ LoopType /\ InUse /\ Opening

\* What the slow path finds in the slot it samples.
LEMMA SampledSlot ==
  ASSUME Typed, Sampling
  PROVE  /\ i \in Used /\ i \in Slots /\ i + 1 \in 1 .. MaxPids + 1
         /\ st[i].pid \in Pids /\ perf[i] \in Holder
<1>1. i \in Used
  BY DEF Sampling
<1>2. n \in 0 .. MaxPids /\ perf \in [Slots -> Holder]
  BY DEF Typed, TableType
<1> QED BY <1>1, <1>2 DEF Typed, InUse, Used, Slots

\* What the steps that write g_states do to it.
LEMMA FlagSteps ==
  ASSUME Typed, SyncScan \/ SyncKeep \/ SampleIdle \/ SampleRan
  PROVE  /\ st' \in [Slots -> State]
         /\ \A k \in Slots : st'[k].pid = st[k].pid
<1>1. st \in [Slots -> State] /\ Used \subseteq Slots
  BY UsedSlots DEF Typed, TableType
<1>2. CASE SyncScan
  <2>1. CASE Explicitly
    BY <1>1, <1>2, <2>1 DEF SyncScan
  <2>2. CASE ~Explicitly
    BY <1>1, <1>2, <2>2, SetActive DEF SyncScan
  <2> QED BY <2>1, <2>2
<1>3. CASE SyncKeep
  <2>1. CASE Explicitly
    BY <1>1, <1>3, <2>1 DEF SyncKeep
  <2>2. CASE ~Explicitly
    <3> DEFINE S == {k \in Used : st[k].pid = Wanted}
    <3>1. st' = [k \in Slots |-> IF k \in S THEN [st[k] EXCEPT !.active = TRUE] ELSE st[k]]
      BY <1>3, <2>2 DEF SyncKeep
    <3>2. S \in SUBSET Slots
      BY <1>1
    <3> HIDE DEF S
    <3> QED BY <1>1, <3>1, <3>2, SetActive
  <2> QED BY <2>1, <2>2
<1>4. ASSUME SampleIdle \/ SampleRan
      PROVE  st' = [st EXCEPT ![i].final = ~Exists(perf[i])] /\ i \in Slots
  BY <1>4, SampledSlot DEF SampleIdle, SampleRan
<1>5. CASE SampleIdle \/ SampleRan
  <2>1. (~Exists(perf[i])) \in BOOLEAN
    OBVIOUS
  <2> QED BY <1>1, <1>4, <1>5, <2>1, SetFinal
<1> QED BY <1>2, <1>3, <1>5

\* What SampleRan does, with the sets of cores it picks.
RanOn(failed, ran) ==
  /\ ran \subseteq Cores /\ \A c \in ran : pcPerf[i][c] # Closed
  /\ corePrev' = [corePrev EXCEPT ![i] =
       [c \in Cores |-> IF c \in failed THEN Closed
                        ELSE IF c \in Selected THEN pcPerf[i][c] ELSE @[c]]]
  /\ pcWin' = [pcWin EXCEPT ![i] =
       [c \in Cores |-> IF c \in ran THEN @[c] \cup {pcPerf[i][c]} ELSE @[c]]]
  /\ pcSm' = [pcSm EXCEPT ![i] =
       [c \in Cores |-> IF c \in ran THEN CoreEntry(st[i].pid, pcWin'[i][c], win'[i])
                                     ELSE @[c]]]
  /\ pcAge' = [pcAge EXCEPT ![i] = [c \in Cores |-> IF c \in ran THEN 0 ELSE @[c]]]
  /\ ranAge' = [ranAge EXCEPT ![st[i].pid] =
       [c \in Cpus |-> IF c \in ran \cup {-1} THEN 0 ELSE @[c]]]
  /\ batch' = batch \cup {[cpu |-> c, data |-> pcSm'[i][c]] : c \in ran}

LEMMA SampleRanCores == SampleRan => \E failed, ran : RanOn(failed, ran)
<1> SUFFICES ASSUME SampleRan PROVE \E failed, ran : RanOn(failed, ran)
  OBVIOUS
<1>1. Selected \subseteq Cores
  BY DEF Selected, OpenCores
<1> DEFINE Effect(failed, ran) ==
  /\ corePrev' = [corePrev EXCEPT ![i] =
       [c \in Cores |-> IF c \in failed THEN Closed
                        ELSE IF c \in Selected THEN pcPerf[i][c] ELSE @[c]]]
  /\ pcWin' = [pcWin EXCEPT ![i] =
       [c \in Cores |-> IF c \in ran THEN @[c] \cup {pcPerf[i][c]} ELSE @[c]]]
  /\ pcSm' = [pcSm EXCEPT ![i] =
       [c \in Cores |-> IF c \in ran THEN CoreEntry(st[i].pid, pcWin'[i][c], win'[i])
                                     ELSE @[c]]]
  /\ pcAge' = [pcAge EXCEPT ![i] = [c \in Cores |-> IF c \in ran THEN 0 ELSE @[c]]]
  /\ ranAge' = [ranAge EXCEPT ![st[i].pid] =
       [c \in Cpus |-> IF c \in ran \cup {-1} THEN 0 ELSE @[c]]]
  /\ batch' = batch \cup {[cpu |-> c, data |-> pcSm'[i][c]] : c \in ran}
<1>2. \E failed \in SUBSET {c \in Selected : Unreadable(pcPerf[i][c])} :
       \E ran \in SUBSET {c \in Selected \ failed : pcPerf[i][c] # Closed} : Effect(failed, ran)
  BY ONLY SampleRan DEF SampleRan
<1>3. ASSUME NEW failed, NEW ran, Effect(failed, ran),
             ran \subseteq Cores, \A c \in ran : pcPerf[i][c] # Closed
      PROVE  RanOn(failed, ran)
  BY ONLY <1>3 DEF RanOn
<1> HIDE DEF Effect
<1>4. PICK failed \in SUBSET {c \in Selected : Unreadable(pcPerf[i][c])} :
       \E ran \in SUBSET {c \in Selected \ failed : pcPerf[i][c] # Closed} : Effect(failed, ran)
  BY ONLY <1>2
<1>5. PICK ran \in SUBSET {c \in Selected \ failed : pcPerf[i][c] # Closed} : Effect(failed, ran)
  BY ONLY <1>4
<1>6. ran \subseteq Cores /\ \A c \in ran : pcPerf[i][c] # Closed
  BY <1>1
<1> QED BY <1>3, <1>5, <1>6

\* What SampleRan does to the slot it samples, whatever the cores.
LEMMA SampleRanSlot ==
  ASSUME Typed, SampleRan
  PROVE  /\ i \in Used /\ i \in Slots /\ st[i].pid \in Pids /\ perf[i] \in Owner
         /\ n' = n /\ perf' = perf /\ pcPerf' = pcPerf
         /\ \A w \in Windows : SampleOf(i, w) \in Owner
         /\ win' \in [Slots -> WindowsOf] /\ sm' \in [Slots -> EntryType]
         /\ win'[i] = [w \in Windows |-> win[i][w] \cup {SampleOf(i, w)}]
         /\ sm'[i] = [pid |-> st[i].pid, of |-> win'[i]]
         /\ comm'[i] = Current(st[i].pid) /\ valid'[i] = TRUE /\ age'[i] = 0
         /\ \A k \in Slots : k # i =>
              /\ win'[k] = win[k] /\ sm'[k] = sm[k] /\ comm'[k] = comm[k]
              /\ valid'[k] = valid[k] /\ age'[k] = age[k]
<1>1. /\ i \in Used /\ i \in Slots /\ st[i].pid \in Pids /\ perf[i] \in Owner
      /\ n' = n /\ perf' = perf /\ pcPerf' = pcPerf
  BY SampledSlot DEF SampleRan, Holder
<1>2. \A w \in Windows : SampleOf(i, w) \in Owner
  BY <1>1, CurrentBorne DEF SampleOf, Typed, LoopType
<1>3. /\ comm \in [Slots -> Holder] /\ win \in [Slots -> WindowsOf]
      /\ sm \in [Slots -> EntryType] /\ valid \in [Slots -> BOOLEAN]
      /\ age \in [Slots -> 0 .. Never]
  BY DEF Typed, TableType
<1> DEFINE new == [w \in Windows |-> win[i][w] \cup {SampleOf(i, w)}]
           e == [pid |-> st[i].pid, of |-> win'[i]]
<1>4. new \in WindowsOf
  <2>1. \A w \in Windows : win[i][w] \in SUBSET Owner
    BY <1>1, <1>3 DEF WindowsOf
  <2> QED BY <1>2, <2>1 DEF WindowsOf
<1>5. win' = [win EXCEPT ![i] = new]
  BY DEF SampleRan
<1>6. sm' = [sm EXCEPT ![i] = e]
  BY DEF SampleRan
<1>7. /\ comm' = [comm EXCEPT ![i] = Current(st[i].pid)]
      /\ valid' = [valid EXCEPT ![i] = TRUE] /\ age' = [age EXCEPT ![i] = 0]
  BY DEF SampleRan
<1> HIDE DEF new
<1>8. win' \in [Slots -> WindowsOf] /\ win'[i] = new /\ \A k \in Slots : k # i => win'[k] = win[k]
  BY <1>1, <1>3, <1>4, <1>5
<1>9. e \in EntryType
  BY <1>1, <1>8 DEF EntryType
<1> HIDE DEF e
<1>10. sm' \in [Slots -> EntryType] /\ sm'[i] = e /\ \A k \in Slots : k # i => sm'[k] = sm[k]
  BY <1>1, <1>3, <1>6, <1>9
<1>11. /\ comm'[i] = Current(st[i].pid) /\ valid'[i] = TRUE /\ age'[i] = 0
       /\ \A k \in Slots : k # i =>
            comm'[k] = comm[k] /\ valid'[k] = valid[k] /\ age'[k] = age[k]
  BY <1>1, <1>3, <1>7
<1> QED BY <1>1, <1>2, <1>8, <1>10, <1>11 DEF new, e

\* The entry of a core is an entry.
LEMMA CoreEntryType ==
  ASSUME NEW p \in Pids, NEW own \in SUBSET Owner, NEW slot \in WindowsOf
  PROVE  CoreEntry(p, own, slot) \in EntryType
<1> DEFINE of == [w \in Windows |-> IF w \in Counters THEN own ELSE slot[w]]
<1>1. of \in WindowsOf
  BY DEF WindowsOf
<1>2. CoreEntry(p, own, slot) = [pid |-> p, of |-> of]
  BY DEF CoreEntry
<1> HIDE DEF of
<1> QED BY <1>1, <1>2 DEF EntryType

\* A sample leaves the table well typed.
LEMMA SampleRanType == ASSUME Typed, SampleRan PROVE TableType'
<1>1. i \in Slots /\ st[i].pid \in Pids /\ perf[i] \in Owner
  BY SampleRanSlot
<1>2. st' \in [Slots -> State] /\ n' \in 0 .. MaxPids
  BY FlagSteps DEF SampleRan, Typed, TableType
<1>3. win' \in [Slots -> WindowsOf] /\ sm' \in [Slots -> EntryType]
  BY SampleRanSlot
<1>4. /\ valid' \in [Slots -> BOOLEAN] /\ age' \in [Slots -> 0 .. Never]
      /\ perf' = perf /\ pcPerf' = pcPerf
  BY <1>1 DEF SampleRan, Typed, TableType, Never
<1>c. comm' \in [Slots -> Holder]
  <2>1. Current(st[i].pid) \in Holder
    BY <1>1, CurrentBorne DEF Typed, LoopType, Holder
  <2> QED BY <1>1, <2>1 DEF SampleRan, Typed, TableType
<1>5. PICK failed, ran : RanOn(failed, ran)
  BY SampleRanCores
<1>t. /\ pcPerf \in [Slots -> [Cores -> Holder]] /\ corePrev \in [Slots -> [Cores -> Holder]]
      /\ pcWin \in [Slots -> [Cores -> SUBSET Owner]]
      /\ pcSm \in [Slots -> [Cores -> EntryType]]
      /\ pcAge \in [Slots -> [Cores -> 0 .. Never]]
  BY DEF Typed, TableType
<1>6. \A c \in ran : c \in Cores /\ pcPerf[i][c] \in Owner
  BY <1>1, <1>5, <1>t DEF RanOn, Holder
<1>7. pcWin' \in [Slots -> [Cores -> SUBSET Owner]]
  <2> DEFINE new == [c \in Cores |-> IF c \in ran THEN pcWin[i][c] \cup {pcPerf[i][c]}
                                                  ELSE pcWin[i][c]]
  <2>1. new \in [Cores -> SUBSET Owner]
    BY <1>1, <1>6, <1>t
  <2>2. pcWin' = [pcWin EXCEPT ![i] = new]
    BY <1>5 DEF RanOn
  <2> HIDE DEF new
  <2> QED BY <1>t, <2>1, <2>2
<1>8. pcSm' \in [Slots -> [Cores -> EntryType]]
  <2> DEFINE entry(c) == CoreEntry(st[i].pid, pcWin'[i][c], win'[i])
             new == [c \in Cores |-> IF c \in ran THEN entry(c) ELSE pcSm[i][c]]
  <2>1. \A c \in Cores : entry(c) \in EntryType
    <3>1. \A c \in Cores : pcWin'[i][c] \in SUBSET Owner
      BY <1>1, <1>7
    <3>2. win'[i] \in WindowsOf
      BY <1>1, <1>3
    <3> QED BY <1>1, <3>1, <3>2, CoreEntryType
  <2>2. pcSm' = [pcSm EXCEPT ![i] = new]
    BY <1>5 DEF RanOn
  <2> HIDE DEF entry
  <2>3. new \in [Cores -> EntryType]
    BY <1>1, <1>t, <2>1
  <2> HIDE DEF new
  <2> QED BY <1>t, <2>2, <2>3
<1>9. pcAge' \in [Slots -> [Cores -> 0 .. Never]]
  <2> DEFINE new == [c \in Cores |-> IF c \in ran THEN 0 ELSE pcAge[i][c]]
  <2>1. new \in [Cores -> 0 .. Never]
    BY <1>1, <1>t DEF Never
  <2>2. pcAge' = [pcAge EXCEPT ![i] = new]
    BY <1>5 DEF RanOn
  <2> HIDE DEF new
  <2> QED BY <1>t, <2>1, <2>2
<1>10. corePrev' \in [Slots -> [Cores -> Holder]]
  <2> DEFINE new == [c \in Cores |-> IF c \in failed THEN Closed
                        ELSE IF c \in Selected THEN pcPerf[i][c] ELSE corePrev[i][c]]
  <2>1. new \in [Cores -> Holder]
    BY <1>1, <1>t DEF Holder
  <2>2. corePrev' = [corePrev EXCEPT ![i] = new]
    BY <1>5 DEF RanOn
  <2> HIDE DEF new
  <2> QED BY <1>t, <2>1, <2>2
<1> QED BY <1>2, <1>3, <1>4, <1>c, <1>7, <1>8, <1>9, <1>10 DEF Typed, TableType

\* Every step keeps the types of the table.
LEMMA TableTypeInductive == Typed /\ [Next]_vars => TableType'
<1> SUFFICES ASSUME Typed, [Next]_vars PROVE TableType'
  OBVIOUS
<1>0. TableType /\ LoopType
  BY DEF Typed
<1>1. ASSUME UNCHANGED table PROVE TableType'
  BY <1>0, <1>1 DEF table, slow, cached, TableType
<1>2. CASE SyncScan
  <2>1. st' \in [Slots -> State]
    BY <1>2, FlagSteps
  <2> QED BY <1>0, <1>2, <2>1 DEF SyncScan, TableType, slow, cached
<1>3. CASE SyncKeep
  <2>1. st' \in [Slots -> State]
    BY <1>3, FlagSteps
  <2> QED BY <1>0, <1>3, <2>1 DEF SyncKeep, TableType, slow, cached
<1>4. CASE SyncAdd \/ OpenCore
  BY <1>0, <1>4, OpeningType DEF Typed, LoopType
<1>11. CASE FillSlot
  BY <1>0, <1>11, FillSlotType DEF Typed, LoopType
<1>5. CASE Evict
  BY <1>0, <1>1, <1>5, RemoveSlotType DEF Evict
<1>6. CASE SampleGone
  BY <1>0, <1>6, RemoveSlotType DEF SampleGone, Sampling
<1>7. CASE SampleIdle
  <2>1. st' \in [Slots -> State]
    BY <1>7, FlagSteps
  <2> QED BY <1>0, <1>7, <2>1 DEF SampleIdle, TableType, slow, cached
<1>8. CASE SampleRan
  BY <1>8, SampleRanType
<1>9. CASE Sleep
  <2>1. PICK d \in 1 .. MaxSleep :
          /\ age' = [k \in Slots |-> Lesser(age[k] + d, Never)]
          /\ pcAge' = [k \in Slots |-> [c \in Cores |-> Lesser(pcAge[k][c] + d, Never)]]
    BY <1>9 DEF Sleep
  <2>2. \A a \in 0 .. Never : Lesser(a + d, Never) \in 0 .. Never
    BY Older
  <2> QED BY <1>0, <1>9, <2>1, <2>2 DEF Sleep, TableType, slow
<1>10. CASE Cleanup
  BY <1>0, <1>10 DEF Cleanup, TableType, cached, Holder
<1> QED
  BY <1>1, <1>2, <1>3, <1>4, <1>5, <1>6, <1>7, <1>8, <1>9, <1>10, <1>11, StepCases,
     QuietKeepsTable DEF vars

\* What a slot sends to the classifier has the type of the batch.
LEMMA EntriesTyped ==
  ASSUME Typed, NEW k \in Slots
  PROVE  Entries(k) \subseteq [cpu : Cpus, data : EntryType]
<1>1. sm[k] \in EntryType
  BY DEF Typed, TableType
<1>2. pcSm[k] \in [Cores -> EntryType]
  BY DEF Typed, TableType
<1> DEFINE Aggregate == [cpu |-> -1, data |-> sm[k]]
           Shown == {c \in Selected : pcSm[k][c].pid # NoPid /\ pcAge[k][c] <= Stale}
           PushedCore(c) == [cpu |-> c, data |-> pcSm[k][c]]
<1>3. Aggregate \in [cpu : Cpus, data : EntryType]
  BY <1>1 DEF Cpus
<1>4. Shown \subseteq Cores
  BY DEF Selected, OpenCores
<1>5. ASSUME NEW c \in Shown PROVE PushedCore(c) \in [cpu : Cpus, data : EntryType]
  <2>1. c \in Cpus /\ pcSm[k][c] \in EntryType
    BY <1>2, <1>4, <1>5 DEF Cpus
  <2> HIDE DEF Shown
  <2> QED BY <2>1
<1>6. ASSUME NEW e \in Entries(k)
      PROVE  e = Aggregate \/ \E c \in Shown : e = PushedCore(c)
  BY <1>6 DEF Entries
<1> HIDE DEF Aggregate, Shown, PushedCore
<1> QED BY <1>3, <1>5, <1>6

\* Every step keeps the types of the loop.
LEMMA LoopTypeInductive == Typed /\ [Next]_vars => LoopType'
<1> SUFFICES ASSUME Typed, [Next]_vars PROVE LoopType'
  OBVIOUS
<1> USE DEF LoopType, loop, procs, observed
<1>0. TableType /\ LoopType
  BY DEF Typed
<1>1. CASE LeaveLoop   BY <1>0, <1>1 DEF LeaveLoop
<1>2. CASE FastTick    BY <1>0, <1>2 DEF FastTick
<1>3. DisplayLimit \in Nat
  BY <1>0 DEF DisplayLimit, Config, TableType
<1>4. CASE SlowTick    BY <1>0, <1>3, <1>4 DEF SlowTick
<1>5. CASE SyncScan
  <2>1. Rankings \subseteq Seq(Pids)
    BY DEF Rankings, SeqOf
  <2>2. todo' \in Seq(Pids)
    BY <1>0, <1>5, <2>1 DEF SyncScan, Config
  <2> QED BY <1>0, <1>5, <2>2 DEF SyncScan
<1>6. CASE SyncKeep    BY <1>0, <1>6, HeadTailProperties DEF SyncKeep
<1>7. CASE SyncAdd
  <2>1. Tail(todo) \in Seq(Pids) /\ OpenCores \subseteq Cores
    BY <1>0, <1>7, HeadTailProperties DEF SyncAdd, OpenCores
  <2>2. toOpen' \subseteq Cores /\ todo' \in Seq(Pids) /\ pc' \in {"add", "open"}
    BY <1>0, <1>7, <2>1 DEF SyncAdd, AddRefused, AddFails, AddOpens
  <2> QED BY <1>0, <1>7, <2>2 DEF SyncAdd
<1>22. CASE OpenCore   BY <1>0, <1>22 DEF OpenCore
<1>23. CASE FillSlot
  <2>1. todo # <<>>
    BY <1>23 DEF FillSlot, Typed, Opening
  <2> QED BY <1>0, <1>23, <2>1, HeadTailProperties DEF FillSlot
<1>8. CASE SyncAdded   BY <1>0, <1>8 DEF SyncAdded
<1>9. CASE Evict
  <2>1. i + 1 \in 1 .. MaxPids + 1
    BY <1>0, <1>9 DEF Evict, Used, TableType
  <2> QED BY <1>0, <1>9, <2>1 DEF Evict
<1>10. CASE Evicted    BY <1>0, <1>3, <1>10 DEF Evicted
<1>11. CASE SampleGone BY <1>0, <1>11 DEF SampleGone
<1>12. CASE SampleIdle BY <1>0, <1>12, SampledSlot DEF SampleIdle
<1>13. CASE SampleRan
  <2>0. st[i].pid \in Pids /\ i \in Slots /\ i + 1 \in 1 .. MaxPids + 1
    BY <1>13, SampledSlot DEF SampleRan
  <2>a. PICK failed, ran : RanOn(failed, ran)
    BY <1>13, SampleRanCores
  <2>1. /\ ranAge' = [ranAge EXCEPT ![st[i].pid] =
             [c \in Cpus |-> IF c \in ran \cup {-1} THEN 0 ELSE @[c]]]
        /\ batch' = batch \cup {[cpu |-> c, data |-> pcSm'[i][c]] : c \in ran}
    BY <2>a DEF RanOn
  <2>2. ranAge' \in [Pids -> [Cpus -> 0 .. Never]]
    <3>1. \A p \in Pids : [c \in Cpus |-> IF c \in ran \cup {-1} THEN 0 ELSE ranAge[p][c]]
                              \in [Cpus -> 0 .. Never]
      BY <1>0 DEF Never
    <3> QED BY <1>0, <2>0, <2>1, <3>1
  <2>3. ran \subseteq Cores
    BY <2>a DEF RanOn
  <2>4. pcSm' \in [Slots -> [Cores -> EntryType]]
    BY <1>13, SampleRanType DEF TableType
  <2>5. batch' \subseteq [cpu : Cpus, data : EntryType]
    BY <1>0, <2>0, <2>1, <2>3, <2>4 DEF Cpus
  <2> QED BY <1>0, <1>13, <2>0, <2>2, <2>5 DEF SampleRan
<1>14. CASE Sampled    BY <1>0, <1>14 DEF Sampled
<1>15. CASE FastPush
  <2>1. i \in Slots /\ i + 1 \in 1 .. MaxPids + 1
    BY <1>0, <1>15, UsedSlots DEF FastPush, Slots
  <2>2. Entries(i) \subseteq [cpu : Cpus, data : EntryType]
    BY <2>1, EntriesTyped
  <2> QED BY <1>0, <1>15, <2>1, <2>2 DEF FastPush
<1>16. CASE Sleep
  <2>1. PICK d \in 1 .. MaxSleep :
          /\ ranAge' = [p \in Pids |-> [c \in Cpus |-> Lesser(ranAge[p][c] + d, Never)]]
          /\ sinceSync' = Lesser(sinceSync + d, SyncEvery)
    BY <1>16 DEF Sleep
  <2>2. \A a \in 0 .. Never : Lesser(a + d, Never) \in 0 .. Never
    BY Older
  <2>3. ranAge' \in [Pids -> [Cpus -> 0 .. Never]]
    BY <1>0, <2>1, <2>2
  <2>4. sinceSync' \in 0 .. SyncEvery
    <3>1. sinceSync + d \in Nat /\ SyncEvery \in Nat
      BY <1>0
    <3> QED BY <2>1, <3>1, LesserType
  <2>5. (phase + 1) % SlowEvery \in 0 .. SlowEvery - 1
    BY <1>0
  <2> QED BY <1>0, <1>16, <2>3, <2>4, <2>5 DEF Sleep
<1>17. CASE Cleanup    BY <1>0, <1>17 DEF Cleanup
<1>18. CASE Signal     BY <1>0, <1>18 DEF Signal
<1>19. ASSUME NEW p \in Pids, ExitProc(p) PROVE LoopType'
  BY <1>0, <1>19 DEF ExitProc
<1>20. ASSUME NEW p \in Pids, SpawnProc(p) PROVE LoopType'
  BY <1>0, <1>20 DEF SpawnProc
<1>21. CASE UNCHANGED vars BY <1>0, <1>21 DEF vars
<1> QED
  BY <1>1, <1>2, <1>4, <1>5, <1>6, <1>7, <1>8, <1>9, <1>10, <1>11, <1>12, <1>13, <1>14,
     <1>15, <1>16, <1>17, <1>18, <1>19, <1>20, <1>21, <1>22, <1>23
  DEF Next, Daemon, Sync, Sample, Environment

-----------------------------------------------------------------------------
(* Slots after a step: moved, kept or filled *)

\* The slot whose contents slot j has after slot k was removed.
Source(j, k) == IF j = k THEN n ELSE j

\* Slot j has now what slot s had before.
SameSlot(j, s) ==
  /\ st'[j] = st[s] /\ perf'[j] = perf[s] /\ comm'[j] = comm[s] /\ win'[j] = win[s]
  /\ sm'[j] = sm[s] /\ valid'[j] = valid[s] /\ age'[j] = age[s]
  /\ pcPerf'[j] = pcPerf[s] /\ pcWin'[j] = pcWin[s] /\ corePrev'[j] = corePrev[s]
  /\ pcSm'[j] = pcSm[s] /\ pcAge'[j] = pcAge[s]

\* Slot j has been given to the wanted process, with the counters opened there.
NewSlot(j) ==
  /\ st'[j] = [pid |-> Wanted, active |-> TRUE, final |-> FALSE]
  /\ comm'[j] = Current(Wanted) /\ win'[j] = Empty /\ valid'[j] = FALSE
  /\ perf'[j] = perf[j] /\ pcPerf'[j] = pcPerf[j] /\ pcWin'[j] = pcWin[j]
  /\ \A c \in Cores : pcSm'[j][c] = Blank /\ corePrev'[j][c] = Closed

\* remove_slot moves whole slots: every array takes part, and every slot that
\* stays in use was one before.
LEMMA RemoveSlotMoves ==
  ASSUME TableType, NEW k \in Used, RemoveSlot(k), NEW j \in Used'
  PROVE  /\ j \in Used /\ Source(j, k) \in Used
         /\ SameSlot(j, Source(j, k))
<1>1. k \in Slots /\ n \in Slots /\ n \in Used
  BY UsedSlots DEF Used, Slots
<1>2. j \in Used /\ j < n /\ j \in Slots /\ j # n
  BY <1>1 DEF RemoveSlot, Used, Slots
<1>3. /\ st'[j] = st[Source(j, k)] /\ comm'[j] = comm[Source(j, k)]
      /\ win'[j] = win[Source(j, k)] /\ sm'[j] = sm[Source(j, k)]
      /\ pcWin'[j] = pcWin[Source(j, k)] /\ pcSm'[j] = pcSm[Source(j, k)]
      /\ corePrev'[j] = corePrev[Source(j, k)]
  BY <1>1, <1>2 DEF TableType, RemoveSlot, Moved, Source
<1>4. perf'[j] = perf[Source(j, k)] /\ pcPerf'[j] = pcPerf[Source(j, k)]
  BY <1>1, <1>2 DEF TableType, RemoveSlot, Moved, Source
<1>5. valid'[j] = valid[Source(j, k)] /\ age'[j] = age[Source(j, k)]
  BY <1>1, <1>2 DEF TableType, RemoveSlot, Moved, Source
<1>6. pcAge'[j] = pcAge[Source(j, k)]
  BY <1>1, <1>2 DEF TableType, RemoveSlot, Moved, Source
<1> QED BY <1>1, <1>2, <1>3, <1>4, <1>5, <1>6 DEF SameSlot, Source

\* While add_pid opens counters the slots in use stay as they were.
LEMMA OpeningKeeps ==
  ASSUME TableType, SyncAdd \/ OpenCore
  PROVE  /\ n' = n /\ st' = st
         /\ \A j \in Used : SameSlot(j, j)
<1>1. n' = n /\ UNCHANGED <<st, comm, win, corePrev, cached>>
  BY DEF SyncAdd, AddRefused, AddFails, AddOpens, OpenCore, table, slow
<1>2. ASSUME NEW j \in Used
      PROVE  perf'[j] = perf[j] /\ pcPerf'[j] = pcPerf[j] /\ pcWin'[j] = pcWin[j]
  <2>1. j \in Slots /\ j # n + 1
    BY UsedSlots DEF TableType
  <2>2. CASE SyncAdd
    BY <2>1, <2>2 DEF SyncAdd, AddRefused, AddFails, AddOpens, ClearCounters, TableType,
                      table, slow
  <2>3. CASE OpenCore
    <3>1. perf' = perf
      BY <2>3 DEF OpenCore
    <3>2. PICK c \in toOpen :
            \/ /\ pcPerf' = [pcPerf EXCEPT ![n + 1][c] = Current(Wanted)]
               /\ pcWin' = [pcWin EXCEPT ![n + 1][c] = {}]
            \/ pcWin' = [pcWin EXCEPT ![n + 1][c] = {}] /\ UNCHANGED pcPerf
            \/ UNCHANGED <<pcPerf, pcWin>>
      BY <2>3 DEF OpenCore
    <3> QED BY <2>1, <3>1, <3>2 DEF TableType
  <2> QED BY <2>2, <2>3
<1> QED BY <1>1, <1>2 DEF SameSlot, cached

\* add_pid keeps all slots in use and fills the one after them.
LEMMA FillSlotFills ==
  ASSUME TableType, Opening, FillSlot
  PROVE  /\ n' = n + 1 /\ n + 1 \in Slots /\ n + 1 \notin Used /\ Used' = Used \cup {n + 1}
         /\ NewSlot(n + 1)
         /\ \A j \in Used : SameSlot(j, j)
<1>1. n' = n + 1 /\ n + 1 \in Slots /\ n \in Nat
  BY DEF FillSlot, Opening, TableType, Slots
<1>2. n + 1 \notin Used /\ Used' = Used \cup {n + 1}
  BY <1>1 DEF Used
<1>3. NewSlot(n + 1)
  BY <1>1 DEF FillSlot, NewSlot, TableType
<1>4. ASSUME NEW j \in Used PROVE SameSlot(j, j)
  <2>1. j \in Slots /\ j # n + 1
    BY <1>2, UsedSlots
  <2> QED BY <2>1 DEF FillSlot, SameSlot, TableType
<1> QED BY <1>1, <1>2, <1>3, <1>4

-----------------------------------------------------------------------------
(* Type correctness *)

\* Every step keeps InUse.
LEMMA InUseInductive == Typed /\ [Next]_vars => InUse'
<1> SUFFICES ASSUME Typed, [Next]_vars PROVE InUse'
  OBVIOUS
<1>0. TableType /\ LoopType /\ InUse
  BY DEF Typed
<1>1. ASSUME n' = n, st' = st PROVE InUse'
  BY <1>0, <1>1 DEF InUse, Used
<1>2. CASE Quiet
  BY <1>1, <1>2, QuietKeepsTable DEF table
<1>3. CASE SyncScan \/ SyncKeep \/ SampleIdle \/ SampleRan
  <2>1. n' = n
    BY <1>3 DEF SyncScan, SyncKeep, SampleIdle, SampleRan
  <2> QED BY <1>0, <1>3, <2>1, FlagSteps, UsedSlots DEF InUse, Used
<1>4. CASE SyncAdd \/ OpenCore
  BY <1>0, <1>1, <1>4, OpeningKeeps
<1>11. CASE FillSlot
  <2>1. Wanted \in Pids
    BY <1>11 DEF FillSlot, Typed, Opening
  <2> QED BY <1>0, <1>11, <2>1, FillSlotFills DEF Typed, InUse, SameSlot, NewSlot
<1>5. ASSUME NEW k \in Used, RemoveSlot(k) PROVE InUse'
  BY <1>0, <1>5, RemoveSlotMoves DEF InUse, SameSlot
<1>6. CASE Evict
  BY <1>1, <1>5, <1>6 DEF Evict, table
<1>7. CASE SampleGone
  BY <1>5, <1>7 DEF SampleGone, Sampling
<1>8. CASE Sleep
  BY <1>1, <1>8 DEF Sleep
<1>9. CASE Cleanup
  BY <1>1, <1>9 DEF Cleanup
<1>10. CASE UNCHANGED vars
  BY <1>1, <1>10 DEF vars, table
<1> QED
  BY <1>2, <1>3, <1>4, <1>6, <1>7, <1>8, <1>9, <1>10, <1>11, StepCases

\* Every step keeps Opening.
LEMMA OpeningInductive == Typed /\ [Next]_vars => Opening'
<1> SUFFICES ASSUME Typed, [Next]_vars PROVE Opening'
  OBVIOUS
<1>0. TableType /\ LoopType /\ Opening
  BY DEF Typed
<1>1. ASSUME UNCHANGED <<table, pc, todo>> PROVE Opening'
  <2>1. /\ n' = n /\ st' = st /\ perf' = perf /\ pcPerf' = pcPerf /\ pcWin' = pcWin
        /\ pc' = pc /\ todo' = todo
    BY <1>1 DEF table, slow
  <2> QED BY <1>0, <2>1 DEF Opening, Wanted, Tracked, Used
<1>2. CASE Environment
  BY <1>1, <1>2 DEF Environment, Signal, ExitProc, SpawnProc
<1>3. CASE UNCHANGED vars
  BY <1>1, <1>3 DEF vars
<1>4. CASE \/ LeaveLoop \/ FastTick \/ SlowTick \/ SyncScan \/ SyncKeep \/ SyncAdded \/ Evict
           \/ Evicted \/ Sample \/ FastPush \/ Sleep \/ Cleanup \/ FillSlot
  <2>1. pc' # "open"
    BY <1>4 DEF LeaveLoop, FastTick, SlowTick, SyncScan, SyncKeep, SyncAdded, Evict, Evicted,
                Sample, SampleGone, SampleIdle, SampleRan, Sampled, Sampling, FastPush, Sleep,
                Cleanup, FillSlot
  <2> QED BY <2>1 DEF Opening
<1>5. CASE SyncAdd
  <2>1. /\ n' = n /\ st' = st
    BY <1>0, <1>5, OpeningKeeps
  <2>2. CASE AddRefused \/ AddFails
    <3>1. pc' # "open"
      BY <1>5, <2>2 DEF SyncAdd, AddRefused, AddFails
    <3> QED BY <3>1 DEF Opening
  <2>3. CASE AddOpens
    <3>1. todo' = todo /\ todo # <<>> /\ Wanted \in Pids /\ Wanted \notin Tracked
      BY <1>0, <1>5, <2>3 DEF SyncAdd, AddOpens, LoopType, Wanted
    <3>2. n < MaxPids /\ n + 1 \in Slots
      BY <1>0, <2>3 DEF AddOpens, TableType, Slots
    <3>3. perf'[n + 1] \in {Current(Wanted), Closed}
      BY <1>0, <2>3, <3>2 DEF AddOpens, TableType
    <3>4. Current(Wanted) \in Borne(Wanted)
      BY <1>0, <3>1, CurrentBorne DEF LoopType
    <3>5. \A c \in Cores : pcPerf'[n + 1][c] = Closed
      BY <1>0, <2>3, <3>2 DEF AddOpens, ClearCounters, TableType
    <3>6. Wanted' = Wanted /\ Tracked' = Tracked
      BY <2>1, <3>1 DEF Wanted, Tracked, Used
    <3> QED BY <2>1, <3>1, <3>2, <3>3, <3>4, <3>5, <3>6 DEF Opening
  <2> QED BY <1>5, <2>2, <2>3 DEF SyncAdd
<1>6. CASE OpenCore
  <2>1. /\ n' = n /\ st' = st /\ perf' = perf /\ todo' = todo /\ pc = "open"
    BY <1>6 DEF OpenCore
  <2>2. Wanted' = Wanted /\ Tracked' = Tracked
    BY <2>1 DEF Wanted, Tracked, Used
  <2>3. n + 1 \in Slots /\ Wanted \in Pids
    BY <1>0, <2>1 DEF Opening, TableType, Slots
  <2>4. Current(Wanted) \in Borne(Wanted)
    BY <1>0, <2>3, CurrentBorne DEF LoopType
  <2>5. PICK c \in toOpen :
          \/ /\ pcPerf' = [pcPerf EXCEPT ![n + 1][c] = Current(Wanted)]
             /\ pcWin' = [pcWin EXCEPT ![n + 1][c] = {}]
          \/ pcWin' = [pcWin EXCEPT ![n + 1][c] = {}] /\ UNCHANGED pcPerf
          \/ UNCHANGED <<pcPerf, pcWin>>
    BY <1>6 DEF OpenCore
  <2>6. ASSUME NEW d \in Cores, pcPerf'[n + 1][d] # Closed
        PROVE  pcPerf'[n + 1][d] \in Borne(Wanted) /\ pcWin'[n + 1][d] = {}
    <3>1. pcPerf[n + 1][d] # Closed =>
            pcPerf[n + 1][d] \in Borne(Wanted) /\ pcWin[n + 1][d] = {}
      BY <1>0, <2>1 DEF Opening
    <3>2. /\ pcPerf \in [Slots -> [Cores -> Holder]]
          /\ pcWin \in [Slots -> [Cores -> SUBSET Owner]]
      BY <1>0 DEF TableType
    <3>3. /\ pcPerf'[n + 1][d] = pcPerf[n + 1][d] \/ pcPerf'[n + 1][d] = Current(Wanted)
          /\ pcPerf'[n + 1][d] = Current(Wanted) =>
               pcWin'[n + 1][d] = {} \/ pcPerf'[n + 1][d] = pcPerf[n + 1][d]
          /\ pcWin'[n + 1][d] = pcWin[n + 1][d] \/ pcWin'[n + 1][d] = {}
      BY <2>3, <2>5, <3>2
    <3> QED BY <2>4, <2>6, <3>1, <3>3
  <2> QED BY <1>0, <2>1, <2>2, <2>6 DEF Opening
<1> QED BY <1>2, <1>3, <1>4, <1>5, <1>6 DEF Next, Daemon, Sync

\* Typed holds at the start.
LEMMA TypedInit == Init => Typed
<1> SUFFICES ASSUME Init PROVE Typed
  OBVIOUS
<1>0. Empty \in WindowsOf /\ Blank \in EntryType /\ Never \in 0 .. Never
  BY DEF Empty, WindowsOf, Blank, EntryType, Never
<1>1. TableType
  BY <1>0 DEF Init, TableType, State, Holder
<1>2. g_cfg \in Config
  BY LinesAssumption, ParsedInRange DEF Init
<1>3. <<>> \in Seq(Pids)
  OBVIOUS
<1>4. LoopType
  BY <1>2, <1>3 DEF Init, LoopType, Never
<1>5. InUse /\ Opening
  BY DEF Init, InUse, Used, Opening
<1> QED BY <1>1, <1>4, <1>5 DEF Typed

\* Every step keeps the types.
LEMMA TypedInductive == Typed /\ [Next]_vars => Typed'
BY TableTypeInductive, LoopTypeInductive, InUseInductive, OpeningInductive DEF Typed

\* The variables keep their types; in particular the number of slots never
\* exceeds MAX_PIDS, and no loop of the daemon leaves the arrays.
THEOREM TypeCorrect == Spec => []TypeOK
<1>1. Typed => TypeOK
  BY TypeParts DEF Typed
<1> QED BY <1>1, TypedInit, TypedInductive, PTL DEF Spec

-----------------------------------------------------------------------------
(* One slot per process *)

\* Every step keeps DistinctPids.
LEMMA DistinctInductive == Typed /\ DistinctPids /\ [Next]_vars => DistinctPids'
<1> SUFFICES ASSUME Typed, DistinctPids, [Next]_vars PROVE DistinctPids'
  OBVIOUS
<1>0. TableType
  BY DEF Typed
<1>1. ASSUME n' = n, \A k \in Used : st'[k].pid = st[k].pid PROVE DistinctPids'
  BY <1>1 DEF DistinctPids, Used
<1>2. CASE Quiet
  BY <1>1, <1>2, QuietKeepsTable DEF table
<1>3. CASE SyncScan \/ SyncKeep \/ SampleIdle \/ SampleRan
  <2>1. n' = n
    BY <1>3 DEF SyncScan, SyncKeep, SampleIdle, SampleRan
  <2> QED BY <1>0, <1>1, <1>3, <2>1, FlagSteps, UsedSlots
<1>4. CASE SyncAdd \/ OpenCore
  BY <1>0, <1>1, <1>4, OpeningKeeps
<1>11. CASE FillSlot
  <2>1. \A j \in Used' : \/ j \in Used /\ st'[j] = st[j]
                         \/ j = n + 1 /\ j \notin Used /\ st'[j].pid = Wanted
    BY <1>11, FillSlotFills DEF Typed, SameSlot, NewSlot
  <2>2. \A k \in Used : st[k].pid # Wanted
    BY <1>11 DEF FillSlot, Typed, Opening, Tracked
  <2> QED BY <2>1, <2>2 DEF DistinctPids
<1>5. ASSUME NEW k \in Used, RemoveSlot(k) PROVE DistinctPids'
  <2>1. \A j \in Used' : j \in Used /\ Source(j, k) \in Used /\ st'[j] = st[Source(j, k)]
    BY <1>0, <1>5, RemoveSlotMoves DEF SameSlot
  <2>2. \A j \in Used' : j # n
    BY <1>0, <1>5 DEF RemoveSlot, Used, TableType
  <2>3. \A j1, j2 \in Used' : Source(j1, k) = Source(j2, k) => j1 = j2
    BY <2>2 DEF Source
  <2> QED BY <2>1, <2>3 DEF DistinctPids
<1>6. CASE Evict
  BY <1>1, <1>5, <1>6 DEF Evict, table
<1>7. CASE SampleGone
  BY <1>5, <1>7 DEF SampleGone, Sampling
<1>8. CASE Sleep
  BY <1>1, <1>8 DEF Sleep
<1>9. CASE Cleanup
  BY <1>1, <1>9 DEF Cleanup
<1>10. CASE UNCHANGED vars
  BY <1>1, <1>10 DEF vars, table
<1> QED
  BY <1>2, <1>3, <1>4, <1>6, <1>7, <1>8, <1>9, <1>10, <1>11, StepCases

\* A process is monitored in one slot at the most: add_pid is called for PIDs
\* that find_slot does not find only, and remove_slot leaves no copy in use.
THEOREM OneSlotEach == Spec => []DistinctPids
<1>1. Init => Typed /\ DistinctPids
  BY TypedInit DEF Init, DistinctPids, Used
<1>2. Typed /\ DistinctPids /\ [Next]_vars => Typed' /\ DistinctPids'
  BY TypedInductive, DistinctInductive
<1> QED BY <1>1, <1>2, PTL DEF Spec

-----------------------------------------------------------------------------
(* The arrays agree *)

\* SlotCoherent, of one slot.
Coherent(k) == LET p == st[k].pid IN
  /\ {perf[k], comm[k]} \subseteq Borne(p) \cup {Closed}
  /\ \A w \in Windows : win[k][w] \subseteq IF w \in Counters THEN {perf[k]} ELSE Borne(p)
  /\ valid[k] => sm[k] = [pid |-> p, of |-> win[k]]
  /\ \A c \in Cores :
       /\ pcPerf[k][c] # Closed => pcPerf[k][c] \in Borne(p) /\ pcWin[k][c] \subseteq {pcPerf[k][c]}
       /\ pcSm[k][c].pid # NoPid =>
            /\ pcSm[k][c].pid = p
            /\ \A w \in Windows : IF w \in Counters THEN pcSm[k][c].of[w] = pcWin[k][c]
                                                    ELSE pcSm[k][c].of[w] \subseteq win[k][w]
       /\ corePrev[k][c] \in {Closed, pcPerf[k][c]}

Agree == \A k \in Used : Coherent(k)

\* Slots agree one by one.
LEMMA CoherentSlots == SlotCoherent <=> (pc # "done" => Agree)
BY DEF SlotCoherent, Agree, Coherent

\* A slot that takes everything another had agrees as that one did.
LEMMA SameCoherent ==
  ASSUME NEW j, NEW s, Coherent(s), SameSlot(j, s) PROVE Coherent(j)'
BY DEF SameSlot, Coherent, Borne

\* The slot add_pid fills agrees.
LEMMA NewCoherent ==
  ASSUME Typed, FillSlot, NEW q, q = n + 1 PROVE Coherent(q)'
<1>1. pc = "open"
  BY DEF FillSlot
<1>2. /\ perf[q] \in Borne(Wanted) \cup {Closed} /\ Wanted \in Pids
      /\ \A c \in Cores : pcPerf[q][c] # Closed =>
           pcPerf[q][c] \in Borne(Wanted) /\ pcWin[q][c] = {}
  BY <1>1 DEF Typed, Opening
<1>3. Current(Wanted) \in Borne(Wanted)
  BY <1>2, CurrentBorne DEF Typed, LoopType
<1>4. NewSlot(q)
  BY FillSlotFills DEF Typed
<1>5. /\ st'[q].pid = Wanted /\ perf'[q] = perf[q] /\ comm'[q] = Current(Wanted)
      /\ win'[q] = Empty /\ valid'[q] = FALSE
      /\ pcPerf'[q] = pcPerf[q] /\ pcWin'[q] = pcWin[q]
      /\ \A c \in Cores : pcSm'[q][c] = Blank /\ corePrev'[q][c] = Closed
  BY <1>4 DEF NewSlot
<1>6. {perf'[q], comm'[q]} \subseteq Borne(Wanted) \cup {Closed}
  BY <1>2, <1>3, <1>5
<1>7. \A w \in Windows : win'[q][w] = {}
  BY <1>5 DEF Empty
<1>8. \A c \in Cores :
        /\ pcPerf'[q][c] # Closed =>
             pcPerf'[q][c] \in Borne(Wanted) /\ pcWin'[q][c] \subseteq {pcPerf'[q][c]}
        /\ pcSm'[q][c].pid = NoPid /\ corePrev'[q][c] = Closed
  BY <1>2, <1>5 DEF Blank
<1> QED BY <1>5, <1>6, <1>7, <1>8 DEF Coherent, Borne

\* A sample goes into the windows and entries of the slot it was taken from.
LEMMA SampleRanCoherent ==
  ASSUME Typed, Agree, SampleRan
  PROVE  Agree'
<1>0. TableType /\ LoopType
  BY DEF Typed
<1>1. /\ i \in Used /\ i \in Slots /\ st[i].pid \in Pids /\ perf[i] \in Owner
      /\ n' = n /\ perf' = perf /\ pcPerf' = pcPerf
  BY SampleRanSlot
<1>2. \A k \in Slots : st'[k].pid = st[k].pid
  BY FlagSteps
<1>3. PICK failed, ran : RanOn(failed, ran)
  BY SampleRanCores
<1>4. /\ pcWin \in [Slots -> [Cores -> SUBSET Owner]]
      /\ pcSm \in [Slots -> [Cores -> EntryType]]
      /\ corePrev \in [Slots -> [Cores -> Holder]]
  BY <1>0 DEF TableType
<1>5. ASSUME NEW k \in Used, k # i PROVE Coherent(k)'
  <2>1. k \in Slots /\ Coherent(k)
    BY <1>0, <1>5, UsedSlots DEF Agree
  <2>2. pcWin'[k] = pcWin[k] /\ pcSm'[k] = pcSm[k] /\ corePrev'[k] = corePrev[k]
    BY <1>3, <1>4, <1>5, <2>1 DEF RanOn
  <2>3. /\ win'[k] = win[k] /\ sm'[k] = sm[k] /\ comm'[k] = comm[k] /\ valid'[k] = valid[k]
    BY <1>5, <2>1, SampleRanSlot
  <2> QED BY <1>1, <1>2, <2>1, <2>2, <2>3 DEF Coherent, Borne
<1>6. ASSUME NEW k \in Used, k = i PROVE Coherent(k)'
  <2> DEFINE p == st[k].pid
  <2>1. Coherent(k) /\ k \in Slots /\ st'[k].pid = p /\ p \in Pids
    BY <1>1, <1>2, <1>6 DEF Agree
  <2>2. Current(p) \in Borne(p)
    BY <1>0, <2>1, CurrentBorne DEF LoopType
  <2>3. /\ win'[k] = [w \in Windows |-> win[k][w] \cup {SampleOf(k, w)}]
        /\ sm'[k] = [pid |-> p, of |-> win'[k]] /\ comm'[k] = Current(p)
    BY <1>6, SampleRanSlot
  <2>4. {perf[k], comm'[k]} \subseteq Borne(p) \cup {Closed} /\ perf[k] # Closed
    BY <1>1, <1>6, <2>1, <2>2, <2>3 DEF Coherent, SampleRan
  <2>5. \A w \in Windows : win'[k][w] \subseteq IF w \in Counters THEN {perf[k]} ELSE Borne(p)
    BY <2>1, <2>2, <2>3 DEF Coherent, SampleOf
  <2>6. \A w \in Windows : win[k][w] \subseteq win'[k][w]
    BY <2>3
  <2>7. ASSUME NEW c \in Cores
        PROVE  /\ pcPerf[k][c] # Closed =>
                    pcPerf[k][c] \in Borne(p) /\ pcWin'[k][c] \subseteq {pcPerf[k][c]}
               /\ pcSm'[k][c].pid # NoPid =>
                    /\ pcSm'[k][c].pid = p
                    /\ \A w \in Windows :
                         IF w \in Counters THEN pcSm'[k][c].of[w] = pcWin'[k][c]
                                           ELSE pcSm'[k][c].of[w] \subseteq win'[k][w]
               /\ corePrev'[k][c] \in {Closed, pcPerf[k][c]}
    <3>1. /\ pcPerf[k][c] # Closed =>
               pcPerf[k][c] \in Borne(p) /\ pcWin[k][c] \subseteq {pcPerf[k][c]}
          /\ corePrev[k][c] \in {Closed, pcPerf[k][c]}
      BY <2>1 DEF Coherent
    <3>2. corePrev'[k][c] = IF c \in failed THEN Closed
                            ELSE IF c \in Selected THEN pcPerf[k][c] ELSE corePrev[k][c]
      BY <1>3, <1>4, <1>6, <2>1 DEF RanOn
    <3>3. CASE c \in ran
      <4>1. /\ pcPerf[k][c] # Closed
            /\ pcWin'[k][c] = pcWin[k][c] \cup {pcPerf[k][c]}
        BY <1>3, <1>4, <1>6, <2>1, <3>3 DEF RanOn
      <4>2. pcSm'[k][c] = CoreEntry(p, pcWin'[k][c], win'[k])
        BY <1>3, <1>4, <1>6, <2>1, <3>3 DEF RanOn
      <4>3. /\ pcSm'[k][c].pid = p
            /\ \A w \in Windows : pcSm'[k][c].of[w] = IF w \in Counters THEN pcWin'[k][c]
                                                                       ELSE win'[k][w]
        BY <4>2 DEF CoreEntry
      <4> QED BY <3>1, <3>2, <4>1, <4>3
    <3>4. CASE c \notin ran
      <4>1. pcWin'[k][c] = pcWin[k][c] /\ pcSm'[k][c] = pcSm[k][c]
        BY <1>3, <1>4, <1>6, <2>1, <3>4 DEF RanOn
      <4>2. pcSm[k][c].pid # NoPid =>
              /\ pcSm[k][c].pid = p
              /\ \A w \in Windows : IF w \in Counters THEN pcSm[k][c].of[w] = pcWin[k][c]
                                                      ELSE pcSm[k][c].of[w] \subseteq win[k][w]
        BY <2>1 DEF Coherent
      <4> QED BY <2>6, <3>1, <3>2, <4>1, <4>2
    <3> QED BY <3>3, <3>4
  <2> QED BY <1>1, <2>1, <2>3, <2>4, <2>5, <2>7 DEF Coherent, Borne
<1>7. Used' = Used
  BY <1>1 DEF Used
<1> QED BY <1>5, <1>6, <1>7 DEF Agree

\* Every step keeps SlotCoherent.
LEMMA CoherentInductive == Typed /\ SlotCoherent /\ [Next]_vars => SlotCoherent'
<1> SUFFICES ASSUME Typed, SlotCoherent, [Next]_vars, pc' # "done" PROVE Agree'
  BY DEF SlotCoherent, Agree, Coherent, Borne
<1>d. pc # "done"
  BY DEF Next, Daemon, Sync, Sample, LeaveLoop, FastTick, SlowTick, SyncScan, SyncKeep, SyncAdd,
         OpenCore, FillSlot, SyncAdded, Evict, Evicted, SampleGone, SampleIdle, SampleRan,
         Sampled, Sampling, FastPush, Sleep, Cleanup, Environment, Signal, ExitProc, SpawnProc,
         vars
<1>0. TableType /\ LoopType /\ Opening /\ Agree
  BY <1>d, CoherentSlots DEF Typed
<1>1. ASSUME n' = n, \A k \in Slots : st'[k].pid = st[k].pid, UNCHANGED <<slow, sm, valid, pcSm>>
      PROVE  Agree'
  <2>1. \A k \in Used : Coherent(k)'
    BY <1>0, <1>1, UsedSlots DEF Agree, Coherent, Borne, slow
  <2> QED BY <1>1, <2>1 DEF Agree, Used
<1>2. CASE Quiet
  BY <1>1, <1>2, QuietKeepsTable DEF table, cached
<1>3. CASE SyncScan \/ SyncKeep \/ SampleIdle
  BY <1>1, <1>3, FlagSteps DEF SyncScan, SyncKeep, SampleIdle, cached
<1>4. CASE SyncAdd \/ OpenCore
  BY <1>0, <1>4, OpeningKeeps, SameCoherent DEF Agree, Used
<1>12. CASE FillSlot
  <2>1. \A j \in Used : Coherent(j)'
    BY <1>0, <1>12, FillSlotFills, SameCoherent DEF Agree
  <2>2. \A j \in Used' : j \in Used \/ j = n + 1
    BY <1>0, <1>12, FillSlotFills
  <2> QED BY <1>12, <2>1, <2>2, NewCoherent DEF Agree
<1>5. ASSUME NEW k \in Used, RemoveSlot(k) PROVE Agree'
  <2> SUFFICES ASSUME NEW j \in Used' PROVE Coherent(j)'
    BY DEF Agree
  <2>1. PICK s : s \in Used /\ SameSlot(j, s)
    BY <1>0, <1>5, RemoveSlotMoves
  <2> QED BY <1>0, <2>1, SameCoherent DEF Agree
<1>6. CASE Evict
  BY <1>1, <1>5, <1>6 DEF Evict, table, cached
<1>7. CASE SampleGone
  BY <1>5, <1>7 DEF SampleGone, Sampling
<1>8. CASE SampleRan
  BY <1>0, <1>8, SampleRanCoherent
<1>9. CASE Sleep
  BY <1>1, <1>9 DEF Sleep
<1>10. CASE Cleanup
  BY <1>10 DEF Cleanup
<1>11. CASE UNCHANGED vars
  BY <1>1, <1>11 DEF vars, table, cached
<1> QED
  BY <1>2, <1>3, <1>4, <1>6, <1>7, <1>8, <1>9, <1>10, <1>11, <1>12, StepCases

\* The parallel arrays describe one process in every slot in use, after any
\* sequence of additions, failed additions, moves and samples, with processes
\* exiting and PIDs reused between any two of them.
THEOREM ArraysAgree == Spec => []SlotCoherent
<1>1. Init => Typed /\ SlotCoherent
  BY TypedInit DEF Init, SlotCoherent, Used
<1>2. Typed /\ SlotCoherent /\ [Next]_vars => Typed' /\ SlotCoherent'
  BY TypedInductive, CoherentInductive
<1> QED BY <1>1, <1>2, PTL DEF Spec

-----------------------------------------------------------------------------
(* The slow path examines every slot once *)

\* Nothing has been examined when a tick begins.
NotYet == pc \in {"top", "add", "open", "evict"} => seen = {}

Examined == DistinctPids /\ NotYet /\ ExaminedOnce

\* Every step keeps NotYet and ExaminedOnce.
LEMMA ExaminedInductive == Typed /\ Examined /\ [Next]_vars => NotYet' /\ ExaminedOnce'
<1> SUFFICES ASSUME Typed, Examined, [Next]_vars PROVE NotYet' /\ ExaminedOnce'
  OBVIOUS
<1> USE DEF NotYet, ExaminedOnce
<1>0. TableType /\ LoopType /\ DistinctPids /\ NotYet /\ ExaminedOnce
  BY DEF Typed, Examined
<1>1. ASSUME UNCHANGED <<table, pc, i, seen>> PROVE NotYet' /\ ExaminedOnce'
  BY <1>0, <1>1 DEF table, Used
<1>2. CASE SlowTick \/ Evicted
  <2>1. /\ seen = {} /\ seen' = {} /\ i' = 1 /\ pc' = "sample"
    BY <1>0, <1>2 DEF SlowTick, Evicted, observed
  <2> QED BY <1>0, <2>1 DEF Used, TableType
<1>3. CASE LeaveLoop \/ FastTick \/ SyncAdded \/ Sampled \/ FastPush
  BY <1>0, <1>3 DEF LeaveLoop, FastTick, SyncAdded, Sampled, FastPush, observed
<1>4. CASE Environment
  BY <1>1, <1>4 DEF Environment, Signal, ExitProc, SpawnProc, observed
<1>5. CASE SyncScan \/ SyncKeep \/ SyncAdd \/ OpenCore \/ FillSlot \/ Evict
  <2>1. seen' = seen /\ pc' \in {"add", "open", "evict"} /\ pc \in {"top", "add", "open", "evict"}
    BY <1>5 DEF SyncScan, SyncKeep, SyncAdd, AddRefused, AddFails, AddOpens, OpenCore, FillSlot,
                Evict, observed
  <2> QED BY <1>0, <2>1
<1>6. CASE SampleGone
  <2>1. /\ pc = "sample" /\ i \in Used /\ RemoveSlot(i)
        /\ pc' = "sample" /\ i' = i /\ seen' = seen
    BY <1>6 DEF SampleGone, Sampling, observed
  <2>2. ASSUME NEW j \in Used' PROVE st'[j].pid \in seen <=> j < i
    <3>1. j \in Used /\ Source(j, i) \in Used /\ st'[j] = st[Source(j, i)]
      BY <1>0, <2>1, RemoveSlotMoves DEF SameSlot
    <3>2. st'[j].pid \in seen <=> Source(j, i) < i
      BY <1>0, <2>1, <3>1
    <3> QED BY <2>1, <3>2, <1>0, UsedSlots DEF Source, TableType, Used
  <2> QED BY <2>1, <2>2
<1>7. CASE SampleIdle \/ SampleRan
  <2>1. /\ pc = "sample" /\ i \in Used /\ n' = n
        /\ pc' = "sample" /\ i' = i + 1 /\ seen' = seen \cup {st[i].pid}
    BY <1>7 DEF SampleIdle, SampleRan, Sampling
  <2>2. ASSUME NEW k \in Used PROVE st'[k].pid \in seen' <=> k < i + 1
    <3>1. st'[k].pid = st[k].pid
      BY <1>0, <1>7, FlagSteps, UsedSlots
    <3>2. st[k].pid = st[i].pid <=> k = i
      BY <1>0, <2>1 DEF DistinctPids
    <3>3. st[k].pid \in seen <=> k < i
      BY <1>0, <2>1
    <3> QED BY <2>1, <3>1, <3>2, <3>3 DEF Used, TableType
  <2> QED BY <2>1, <2>2 DEF Used
<1>8. CASE Sleep
  BY <1>8 DEF Sleep
<1>9. CASE Cleanup
  BY <1>9 DEF Cleanup
<1>10. CASE UNCHANGED vars
  BY <1>1, <1>10 DEF vars, observed
<1> QED
  BY <1>2, <1>3, <1>4, <1>5, <1>6, <1>7, <1>8, <1>9, <1>10, StepCases DEF Quiet

\* They hold at the start.
LEMMA ExaminedInit == Init => Typed /\ Examined
BY TypedInit DEF Init, Examined, DistinctPids, NotYet, ExaminedOnce, Used

\* In the middle of the slow path exactly the slots before i were examined,
\* whatever was removed on the way.
THEOREM LoopExaminesOnce == Spec => []ExaminedOnce
<1>1. Typed /\ Examined /\ [Next]_vars => Typed' /\ Examined'
  BY TypedInductive, DistinctInductive, ExaminedInductive DEF Examined
<1>2. Examined => ExaminedOnce
  BY DEF Examined
<1> QED BY <1>1, <1>2, ExaminedInit, PTL DEF Spec

-----------------------------------------------------------------------------
(* What the classifier is told is fresh *)

\* Samples were taken into every window.
Filled(of) == \A w \in Windows : of[w] # {}

\* A cached entry of slot k holds samples, and is no younger than the last time
\* the process was seen running on that cpu.
EntryKnown(k) ==
  /\ valid[k] => Filled(sm[k].of) /\ ranAge[st[k].pid][-1] <= age[k]
  /\ \A c \in Cores : pcSm[k][c].pid # NoPid =>
       Filled(pcSm[k][c].of) /\ ranAge[st[k].pid][c] <= pcAge[k][c]

EntriesKnown == \A k \in Used : EntryKnown(k)

\* What was pushed came from slots the loop has passed.
Passed(k) == pc = "sample" => k < i

EntryFresh(e) ==
  /\ \E k \in Used : e.data.pid = st[k].pid /\ Passed(k)
  /\ Filled(e.data.of)
  /\ ranAge[e.data.pid][e.cpu] <= Stale

BatchFresh ==
  /\ \A e \in batch : EntryFresh(e)
  /\ pc \notin {"sample", "fast"} => batch = {}

\* The age of a timestamp of 0 is an age.
LEMMA NeverType == Never \in Nat
BY DEF Never

\* Seeing a process run only makes it younger.
LEMMA RanAgeFalls ==
  ASSUME Typed, SampleRan
  PROVE  \A p \in Pids, c \in Cpus : ranAge'[p][c] <= ranAge[p][c]
<1>1. PICK ran : ranAge' = [ranAge EXCEPT ![st[i].pid] =
                    [c \in Cpus |-> IF c \in ran \cup {-1} THEN 0 ELSE @[c]]]
  BY SampleRanCores DEF RanOn
<1>2. ranAge \in [Pids -> [Cpus -> 0 .. Never]] /\ Never \in Nat
  BY DEF Typed, LoopType, Never
<1> QED BY <1>1, <1>2

\* The entries of the slot a sample was taken of hold samples of every window.
LEMMA SampleRanFills ==
  ASSUME Typed, SampleRan, NEW failed, NEW ran, RanOn(failed, ran)
  PROVE  /\ Filled(sm'[i].of)
         /\ \A c \in ran : pcSm'[i][c].pid = st[i].pid /\ Filled(pcSm'[i][c].of)
<1>1. /\ i \in Slots /\ win'[i] = [w \in Windows |-> win[i][w] \cup {SampleOf(i, w)}]
      /\ sm'[i] = [pid |-> st[i].pid, of |-> win'[i]]
  BY SampleRanSlot
<1>2. Filled(win'[i])
  BY <1>1 DEF Filled
<1>3. ASSUME NEW c \in ran PROVE pcSm'[i][c].pid = st[i].pid /\ Filled(pcSm'[i][c].of)
  <2>1. pcWin \in [Slots -> [Cores -> SUBSET Owner]] /\ pcSm \in [Slots -> [Cores -> EntryType]]
    BY DEF Typed, TableType
  <2>2. c \in Cores /\ pcWin'[i][c] = pcWin[i][c] \cup {pcPerf[i][c]}
    BY <1>1, <1>3, <2>1 DEF RanOn
  <2>3. pcSm'[i][c] = CoreEntry(st[i].pid, pcWin'[i][c], win'[i])
    BY <1>1, <1>3, <2>1, <2>2 DEF RanOn
  <2>4. /\ pcSm'[i][c].pid = st[i].pid
        /\ \A w \in Windows : pcSm'[i][c].of[w] = IF w \in Counters THEN pcWin'[i][c]
                                                                   ELSE win'[i][w]
    BY <2>3 DEF CoreEntry
  <2>5. pcWin'[i][c] # {}
    BY <2>2
  <2> QED BY <1>2, <2>4, <2>5 DEF Filled
<1> QED BY <1>1, <1>2, <1>3

\* A sample makes an entry of the process in its slot, seen running now.
LEMMA SampleRanKnown ==
  ASSUME Typed, EntriesKnown, SampleRan
  PROVE  EntriesKnown'
<1>0. /\ TableType /\ ranAge \in [Pids -> [Cpus -> 0 .. Never]]
      /\ age \in [Slots -> 0 .. Never] /\ pcAge \in [Slots -> [Cores -> 0 .. Never]]
      /\ pcSm \in [Slots -> [Cores -> EntryType]]
  BY DEF Typed, LoopType, TableType
<1>c. Cores \subseteq Cpus /\ -1 \in Cpus
  BY DEF Cpus
<1>1. i \in Used /\ i \in Slots /\ n' = n /\ st[i].pid \in Pids
  BY SampleRanSlot
<1>2. \A k \in Slots : st'[k].pid = st[k].pid
  BY FlagSteps
<1>3. PICK failed, ran : RanOn(failed, ran)
  BY SampleRanCores
<1>4. \A p \in Pids, c \in Cpus : ranAge'[p][c] <= ranAge[p][c]
  BY RanAgeFalls
<1>a. \A c \in Cpus : c \in ran \cup {-1} => ranAge'[st[i].pid][c] = 0
  BY <1>0, <1>1, <1>3 DEF RanOn
<1>b. /\ \A p \in Pids, c \in Cpus : ranAge[p][c] \in Int
      /\ \A p \in Pids, c \in Cpus : ranAge'[p][c] \in Int
      /\ \A k \in Slots : age[k] \in Int
      /\ \A k \in Slots, c \in Cores : pcAge[k][c] \in Int
  <2>1. ranAge' \in [Pids -> [Cpus -> 0 .. Never]]
    BY LoopTypeInductive DEF LoopType, Next, Daemon, Sample
  <2>2. \A p \in Pids, c \in Cpus : ranAge[p][c] \in Int
    BY <1>0, NeverType
  <2>3. \A p \in Pids, c \in Cpus : ranAge'[p][c] \in Int
    BY <2>1, NeverType
  <2>4. (\A k \in Slots : age[k] \in Int) /\ \A k \in Slots, c \in Cores : pcAge[k][c] \in Int
    BY <1>0, NeverType
  <2> QED BY <2>2, <2>3, <2>4
<1>5. ASSUME NEW k \in Used, k # i PROVE EntryKnown(k)'
  <2>1. k \in Slots /\ EntryKnown(k) /\ st[k].pid \in Pids
    BY <1>0, <1>5, UsedSlots DEF EntriesKnown, Typed, InUse
  <2>2. pcSm'[k] = pcSm[k] /\ pcAge'[k] = pcAge[k]
    BY <1>0, <1>3, <1>5, <2>1 DEF RanOn
  <2>3. sm'[k] = sm[k] /\ valid'[k] = valid[k] /\ age'[k] = age[k]
    BY <1>5, <2>1, SampleRanSlot
  <2>4. valid[k] => ranAge'[st[k].pid][-1] <= age[k]
    BY <1>c, <1>4, <1>b, <2>1 DEF EntryKnown
  <2>5. ASSUME NEW c \in Cores, pcSm[k][c].pid # NoPid
        PROVE  ranAge'[st[k].pid][c] <= pcAge[k][c]
    BY <1>c, <1>4, <1>b, <2>1, <2>5 DEF EntryKnown
  <2> QED BY <1>2, <2>1, <2>2, <2>3, <2>4, <2>5 DEF EntryKnown, Filled
<1>6. ASSUME NEW k \in Used, k = i PROVE EntryKnown(k)'
  <2>1. EntryKnown(i)
    BY <1>1 DEF EntriesKnown
  <2>2. Filled(sm'[i].of) /\ age'[i] = 0 /\ ranAge'[st[i].pid][-1] = 0
    BY <1>c, <1>3, <1>a, SampleRanSlot, SampleRanFills
  <2>3. ASSUME NEW c \in Cores, pcSm'[i][c].pid # NoPid
        PROVE  Filled(pcSm'[i][c].of) /\ ranAge'[st[i].pid][c] <= pcAge'[i][c]
    <3>1. CASE c \in ran
      <4>1. ranAge'[st[i].pid][c] = 0 /\ pcAge'[i][c] = 0
        BY <1>0, <1>1, <1>3, <1>a, <1>c, <3>1 DEF RanOn
      <4> QED BY <1>3, <3>1, <4>1, SampleRanFills
    <3>2. CASE c \notin ran
      <4>1. pcSm'[i][c] = pcSm[i][c] /\ pcAge'[i][c] = pcAge[i][c]
        BY <1>0, <1>1, <1>3, <3>2 DEF RanOn
      <4>2. ranAge[st[i].pid][c] <= pcAge[i][c] /\ Filled(pcSm[i][c].of)
        BY <2>1, <2>3, <4>1 DEF EntryKnown
      <4> QED BY <1>1, <1>4, <1>b, <1>c, <4>1, <4>2
    <3> QED BY <3>1, <3>2
  <2> QED BY <1>1, <1>2, <1>6, <2>2, <2>3 DEF EntryKnown, Filled
<1> QED BY <1>1, <1>5, <1>6 DEF EntriesKnown, Used

\* Every timestamp grows older by the same sleep.
LEMMA SleepKnown ==
  ASSUME Typed, EntriesKnown, Sleep
  PROVE  EntriesKnown'
<1>0. TableType /\ ranAge \in [Pids -> [Cpus -> 0 .. Never]]
  BY DEF Typed, LoopType
<1>1. PICK d \in 1 .. MaxSleep :
        /\ age' = [k \in Slots |-> Lesser(age[k] + d, Never)]
        /\ pcAge' = [k \in Slots |-> [c \in Cores |-> Lesser(pcAge[k][c] + d, Never)]]
        /\ ranAge' = [p \in Pids |-> [c \in Cpus |-> Lesser(ranAge[p][c] + d, Never)]]
  BY DEF Sleep
<1>2. UNCHANGED <<n, st, sm, valid, pcSm>>
  BY DEF Sleep
<1> SUFFICES ASSUME NEW k \in Used PROVE EntryKnown(k)'
  BY <1>2 DEF EntriesKnown, Used
<1>3. k \in Slots /\ st[k].pid \in Pids /\ EntryKnown(k)
  BY <1>0, UsedSlots DEF Typed, InUse, EntriesKnown
<1>4. \A a, b \in 0 .. Never : b <= a => Lesser(b + d, Never) <= Lesser(a + d, Never)
  BY Older
<1>5. valid[k] => ranAge'[st[k].pid][-1] <= age'[k]
  BY <1>0, <1>1, <1>3, <1>4 DEF EntryKnown, TableType, Cpus
<1>6. ASSUME NEW c \in Cores, pcSm[k][c].pid # NoPid
      PROVE  ranAge'[st[k].pid][c] <= pcAge'[k][c]
  <2>1. /\ pcAge[k][c] \in 0 .. Never /\ ranAge[st[k].pid][c] \in 0 .. Never
        /\ ranAge[st[k].pid][c] <= pcAge[k][c]
    BY <1>0, <1>3, <1>6 DEF EntryKnown, TableType, Cpus
  <2>2. /\ pcAge'[k][c] = Lesser(pcAge[k][c] + d, Never)
        /\ ranAge'[st[k].pid][c] = Lesser(ranAge[st[k].pid][c] + d, Never)
    BY <1>1, <1>3 DEF Cpus
  <2> QED BY <1>4, <2>1, <2>2
<1> QED BY <1>2, <1>3, <1>5, <1>6 DEF EntryKnown, Filled

\* Every step keeps EntriesKnown.
LEMMA KnownInductive == Typed /\ EntriesKnown /\ [Next]_vars => EntriesKnown'
<1> SUFFICES ASSUME Typed, EntriesKnown, [Next]_vars PROVE EntriesKnown'
  OBVIOUS
<1>0. TableType
  BY DEF Typed
<1>1. ASSUME n' = n, \A k \in Slots : st'[k].pid = st[k].pid, UNCHANGED <<cached, ranAge>>
      PROVE  EntriesKnown'
  BY <1>0, <1>1, UsedSlots DEF EntriesKnown, EntryKnown, Filled, Used, cached
<1>2. CASE Quiet
  <2>1. UNCHANGED ranAge
    BY <1>2 DEF Quiet, LeaveLoop, FastTick, SlowTick, SyncAdded, Evicted, Sampled, FastPush,
                Environment, Signal, ExitProc, SpawnProc, observed
  <2> QED BY <1>1, <1>2, <2>1, QuietKeepsTable DEF table
<1>3. CASE SyncScan \/ SyncKeep \/ SampleIdle
  BY <1>1, <1>3, FlagSteps DEF SyncScan, SyncKeep, SampleIdle, observed
<1>4. CASE SyncAdd \/ OpenCore \/ FillSlot
  <2>1. ranAge' = ranAge
    BY <1>4 DEF SyncAdd, OpenCore, FillSlot, observed
  <2>2. ASSUME NEW j \in Used, SameSlot(j, j) PROVE EntryKnown(j)'
    BY <2>1, <2>2 DEF SameSlot, EntriesKnown, EntryKnown, Filled
  <2>3. ASSUME NEW j, NewSlot(j) PROVE EntryKnown(j)'
    BY <2>3 DEF NewSlot, EntryKnown, Blank
  <2>4. \A j \in Used' : (j \in Used /\ SameSlot(j, j)) \/ NewSlot(j)
    BY <1>0, <1>4, OpeningKeeps, FillSlotFills DEF Typed, Used
  <2> QED BY <2>2, <2>3, <2>4 DEF EntriesKnown
<1>5. ASSUME NEW k \in Used, RemoveSlot(k), ranAge' = ranAge PROVE EntriesKnown'
  <2>1. \A j \in Used' : Source(j, k) \in Used /\ SameSlot(j, Source(j, k))
    BY <1>0, <1>5, RemoveSlotMoves
  <2>2. \A j \in Used' : EntryKnown(j)'
    BY <1>5, <2>1 DEF SameSlot, EntriesKnown, EntryKnown, Filled
  <2> QED BY <2>2 DEF EntriesKnown
<1>6. CASE Evict
  BY <1>1, <1>5, <1>6 DEF Evict, table, observed
<1>7. CASE SampleGone
  BY <1>5, <1>7 DEF SampleGone, Sampling, observed
<1>8. CASE SampleRan
  BY <1>8, SampleRanKnown
<1>9. CASE Sleep
  BY <1>9, SleepKnown
<1>10. CASE Cleanup
  BY <1>1, <1>10 DEF Cleanup, observed
<1>11. CASE UNCHANGED vars
  BY <1>1, <1>11 DEF vars, table, observed
<1> QED
  BY <1>2, <1>3, <1>4, <1>6, <1>7, <1>8, <1>9, <1>10, <1>11, StepCases

\* An entry stays fresh while its slot stays in place and nothing grows older.
LEMMA StaysFresh ==
  ASSUME Typed, Typed', NEW e \in batch, EntryFresh(e),
         \A k \in Used : Passed(k) => k \in Used' /\ st'[k].pid = st[k].pid /\ Passed(k)',
         \A p \in Pids, c \in Cpus : ranAge'[p][c] <= ranAge[p][c]
  PROVE  EntryFresh(e)'
<1>1. PICK k \in Used : e.data.pid = st[k].pid /\ Passed(k)
  BY DEF EntryFresh
<1>2. k \in Used' /\ e.data.pid = st'[k].pid /\ Passed(k)'
  BY <1>1
<1>3. e.data.pid \in Pids /\ e.cpu \in Cpus
  BY <1>1 DEF Typed, InUse, LoopType
<1>4. /\ ranAge \in [Pids -> [Cpus -> 0 .. Never]]
      /\ ranAge' \in [Pids -> [Cpus -> 0 .. Never]]
  BY DEF Typed, LoopType
<1>5. /\ ranAge[e.data.pid][e.cpu] \in Int
      /\ ranAge'[e.data.pid][e.cpu] \in Int
      /\ ranAge'[e.data.pid][e.cpu] <= ranAge[e.data.pid][e.cpu]
  BY <1>3, <1>4, NeverType
<1> QED BY <1>2, <1>5 DEF EntryFresh, Filled

\* What is sampled or cached of a slot is that slot's process and fresh.
LEMMA SampledFresh ==
  ASSUME Typed, Typed', BatchFresh, SampleRan
  PROVE  BatchFresh'
<1>0. TableType /\ LoopType /\ Typed'
  BY DEF Typed
<1>1. /\ i \in Used /\ i \in Slots /\ st[i].pid \in Pids
      /\ pc = "sample" /\ pc' = "sample" /\ n' = n /\ i' = i + 1
  BY SampledSlot DEF SampleRan, Sampling
<1>2. \A k \in Slots : st'[k].pid = st[k].pid
  BY FlagSteps
<1>3. PICK failed, ran : RanOn(failed, ran)
  BY SampleRanCores
<1>4. \A k \in Used : Passed(k) => k \in Used' /\ st'[k].pid = st[k].pid /\ Passed(k)'
  BY <1>0, <1>1, <1>2, UsedSlots DEF Passed, Used, TableType
<1>5. \A e \in batch : EntryFresh(e)'
  BY <1>0, <1>4, RanAgeFalls, StaysFresh DEF BatchFresh
<1>6. ASSUME NEW e, NEW c \in ran, e = [cpu |-> c, data |-> pcSm'[i][c]]
      PROVE  EntryFresh(e)'
  <2>1. c \in Cores /\ c \in Cpus /\ 0 <= Stale
    BY <1>3 DEF RanOn, Cpus
  <2>2. pcSm'[i][c].pid = st[i].pid /\ Filled(pcSm'[i][c].of)
    BY <1>3, <1>6, SampleRanFills
  <2>3. ranAge'[st[i].pid][c] = 0
    BY <1>0, <1>1, <1>3, <1>6, <2>1 DEF RanOn, LoopType
  <2>4. \E k \in Used' : st[i].pid = st'[k].pid /\ k < i'
    BY <1>0, <1>1, <1>2 DEF Used, TableType
  <2>5. /\ e.data.pid = st[i].pid /\ Filled(e.data.of)
        /\ ranAge'[e.data.pid][e.cpu] <= Stale
    BY <1>6, <2>1, <2>2, <2>3
  <2> QED BY <2>4, <2>5 DEF EntryFresh, Filled, Passed
<1>7. batch' = batch \cup {[cpu |-> c, data |-> pcSm'[i][c]] : c \in ran}
  BY <1>3 DEF RanOn
<1>8. ASSUME NEW e \in batch' PROVE EntryFresh(e)'
  BY <1>5, <1>6, <1>7
<1> QED BY <1>1, <1>8 DEF BatchFresh

\* What the fast path pushes is known and not stale.
LEMMA PushedFresh ==
  ASSUME Typed, Typed', SlotCoherent, EntriesKnown, BatchFresh, FastPush
  PROVE  BatchFresh'
<1>0. /\ TableType /\ i \in Used /\ pc' = "fast" /\ ranAge' = ranAge
      /\ batch' = batch \cup Entries(i) /\ UNCHANGED table
  BY DEF Typed, FastPush
<1>1. /\ i \in Slots /\ st[i].pid \in Pids /\ Coherent(i) /\ EntryKnown(i)
  BY <1>0, UsedSlots, CoherentSlots DEF FastPush, Typed, InUse, Agree, EntriesKnown
<1>2. n' = n /\ st' = st
  BY <1>0 DEF table
<1>3. /\ \A p \in Pids, c \in Cpus : ranAge[p][c] \in Int
      /\ age[i] \in Int /\ \A c \in Cores : pcAge[i][c] \in Int
      /\ -1 \in Cpus /\ Cores \subseteq Cpus
  <2>1. /\ ranAge \in [Pids -> [Cpus -> 0 .. Never]]
        /\ age \in [Slots -> 0 .. Never] /\ pcAge \in [Slots -> [Cores -> 0 .. Never]]
    BY DEF Typed, LoopType, TableType
  <2>2. \A p \in Pids, c \in Cpus : ranAge[p][c] \in Int
    BY <2>1, NeverType
  <2>3. age[i] \in Int /\ \A c \in Cores : pcAge[i][c] \in Int
    BY <1>1, <2>1, NeverType
  <2> QED BY <2>2, <2>3 DEF Cpus
<1>4. \A e \in batch : EntryFresh(e)'
  <2>1. \A k \in Used : Passed(k) => k \in Used' /\ st'[k].pid = st[k].pid /\ Passed(k)'
    BY <1>0, <1>2 DEF Passed, Used
  <2> QED BY <1>0, <1>3, <2>1, StaysFresh DEF BatchFresh
<1>5. ASSUME NEW e \in Entries(i) PROVE EntryFresh(e)'
  <2>1. valid[i] /\ age[i] <= Stale
    BY <1>3, <1>5 DEF Entries
  <2>2. /\ e.data.pid = st[i].pid /\ Filled(e.data.of)
        /\ ranAge[e.data.pid][e.cpu] <= Stale
    <3>1. CASE e = [cpu |-> -1, data |-> sm[i]]
      <4>1. /\ sm[i].pid = st[i].pid /\ Filled(sm[i].of)
            /\ ranAge[st[i].pid][-1] <= age[i]
        BY <1>1, <2>1 DEF Coherent, EntryKnown
      <4> QED BY <1>1, <1>3, <2>1, <3>1, <4>1
    <3>2. ASSUME NEW c \in Cores, e = [cpu |-> c, data |-> pcSm[i][c]],
                 pcSm[i][c].pid # NoPid, pcAge[i][c] <= Stale
          PROVE  /\ e.data.pid = st[i].pid /\ Filled(e.data.of)
                 /\ ranAge[e.data.pid][e.cpu] <= Stale
      <4>1. /\ pcSm[i][c].pid = st[i].pid /\ Filled(pcSm[i][c].of)
            /\ ranAge[st[i].pid][c] <= pcAge[i][c]
        BY <1>1, <3>2 DEF Coherent, EntryKnown
      <4> QED BY <1>1, <1>3, <3>2, <4>1
    <3> QED BY <1>5, <2>1, <3>1, <3>2 DEF Entries, Selected, OpenCores
  <2>3. \E k \in Used' : e.data.pid = st'[k].pid
    BY <1>0, <1>2, <2>2 DEF Used
  <2> QED BY <1>0, <2>2, <2>3 DEF EntryFresh, Filled, Passed
<1> QED BY <1>0, <1>4, <1>5 DEF BatchFresh

\* Every step keeps BatchFresh.
LEMMA BatchInductive ==
  ASSUME Typed, Typed', SlotCoherent, EntriesKnown, BatchFresh, [Next]_vars
  PROVE  BatchFresh'
<1>1. ASSUME UNCHANGED <<table, pc, i, batch, ranAge>> PROVE BatchFresh'
  BY <1>1 DEF BatchFresh, EntryFresh, Filled, Passed, Used, table
<1>2. ASSUME batch = {}, batch' = {} PROVE BatchFresh'
  BY <1>2 DEF BatchFresh
<1>3. CASE LeaveLoop \/ FastTick \/ SlowTick \/ SyncAdded \/ Evicted
  BY <1>2, <1>3 DEF LeaveLoop, FastTick, SlowTick, SyncAdded, Evicted, observed, BatchFresh
<1>4. CASE Sampled
  BY <1>4 DEF Sampled, observed, BatchFresh, EntryFresh, Filled, Passed, Used, table
<1>5. CASE FastPush
  BY <1>5, PushedFresh
<1>6. CASE Environment
  BY <1>1, <1>6 DEF Environment, Signal, ExitProc, SpawnProc, observed
<1>7. CASE SyncScan \/ SyncKeep \/ SyncAdd \/ OpenCore \/ FillSlot \/ Evict
  <2>1. batch' = batch /\ pc \in {"top", "add", "open", "evict"}
    BY <1>7 DEF SyncScan, SyncKeep, SyncAdd, OpenCore, FillSlot, Evict, observed
  <2> QED BY <1>2, <2>1 DEF BatchFresh
<1>8. CASE SampleGone
  <2>1. /\ TableType /\ i \in Used /\ RemoveSlot(i) /\ pc = "sample"
        /\ UNCHANGED <<pc, i, batch, ranAge>>
    BY <1>8 DEF SampleGone, Sampling, observed, Typed
  <2>2. ASSUME NEW k \in Used, Passed(k)
        PROVE  k \in Used' /\ st'[k].pid = st[k].pid /\ Passed(k)'
    <3>1. k < i /\ k \in Used' /\ Passed(k)'
      BY <2>1, <2>2 DEF Passed, RemoveSlot, Used, TableType
    <3> QED BY <2>1, <3>1, RemoveSlotMoves DEF Source, SameSlot, Used
  <2>3. /\ ranAge \in [Pids -> [Cpus -> 0 .. Never]]
    BY DEF Typed, LoopType
  <2>4. \A p \in Pids, c \in Cpus : ranAge'[p][c] <= ranAge[p][c]
    BY <2>1, <2>3, NeverType
  <2> QED BY <2>1, <2>2, <2>4, StaysFresh DEF BatchFresh
<1>9. CASE SampleIdle
  <2>1. /\ i \in Used /\ pc = "sample" /\ n' = n
        /\ i' = i + 1 /\ UNCHANGED <<pc, batch, ranAge>>
    BY <1>9 DEF SampleIdle, Sampling
  <2>2. \A k \in Used : Passed(k) => k \in Used' /\ st'[k].pid = st[k].pid /\ Passed(k)'
    BY <1>9, <2>1, FlagSteps, UsedSlots DEF Passed, Used, Typed, TableType
  <2>3. \A p \in Pids, c \in Cpus : ranAge'[p][c] <= ranAge[p][c]
    <3>1. ranAge \in [Pids -> [Cpus -> 0 .. Never]]
      BY DEF Typed, LoopType
    <3> QED BY <2>1, <3>1, NeverType
  <2> QED BY <2>1, <2>2, <2>3, StaysFresh DEF BatchFresh
<1>10. CASE SampleRan
  BY <1>10, SampledFresh
<1>11. CASE Sleep
  BY <1>11 DEF Sleep, BatchFresh
<1>12. CASE Cleanup
  BY <1>2, <1>12 DEF Cleanup, observed, BatchFresh
<1>13. CASE UNCHANGED vars
  BY <1>1, <1>13 DEF vars, observed
<1> QED
  BY <1>3, <1>4, <1>5, <1>6, <1>7, <1>8, <1>9, <1>10, <1>11, <1>12, <1>13, StepCases
  DEF Quiet

\* Whatever the table goes through, and however late the loop wakes up, the
\* classifier is only given entries of processes in the table that were seen
\* running, on that cpu, within the staleness threshold.
THEOREM PushesAreFresh == Spec => []FreshPush
<1> DEFINE Inv == Typed /\ SlotCoherent /\ EntriesKnown /\ BatchFresh
<1>1. Init => Inv
  BY TypedInit DEF Init, SlotCoherent, EntriesKnown, BatchFresh, Used
<1>2. Inv /\ [Next]_vars => Inv'
  <2>1. Typed /\ SlotCoherent /\ EntriesKnown /\ [Next]_vars =>
          Typed' /\ SlotCoherent' /\ EntriesKnown'
    BY TypedInductive, CoherentInductive, KnownInductive
  <2> QED BY <2>1, BatchInductive
<1>3. Inv => FreshPush
  BY DEF BatchFresh, EntryFresh, Filled, FreshPush, Tracked
<1> QED BY <1>1, <1>2, <1>3, PTL DEF Spec

-----------------------------------------------------------------------------
(* The display limit never binds *)

\* No command line gives both --pids and --top (or --all).
OneMode == \A line \in CommandLines :
             ParseArgs(line).pids = <<>> \/ ParseArgs(line).topN = 0

ActiveSlots == {k \in Used : st[k].active}

\* In top-N mode the slots in use and ranked, with the processes still to be
\* looked up, are no more than were asked for; those not ranked are gone when
\* the slow path starts.
WithinTopN ==
  g_cfg.topN > 0 =>
    /\ pc \in {"add", "open"} => Cardinality(ActiveSlots) + Len(todo) <= g_cfg.topN
    /\ pc = "evict" => /\ Cardinality(ActiveSlots) <= g_cfg.topN
                       /\ \A k \in Used : k < i => st[k].active
    /\ pc \in {"top", "sample", "fast"} => n <= g_cfg.topN

WithinLimit == pc = "sample" => n <= limit

\* A set that gains one element at the most.
LEMMA OneMore ==
  ASSUME NEW S, IsFiniteSet(S), NEW x, NEW T \in SUBSET (S \cup {x})
  PROVE  /\ Cardinality(S) \in Nat /\ Cardinality(T) \in Nat
         /\ Cardinality(T) <= Cardinality(S) + 1
<1>0. Cardinality(S) \in Nat
  BY FS_CardinalityType
<1>1. /\ IsFiniteSet(S \cup {x})
      /\ Cardinality(S \cup {x}) = IF x \in S THEN Cardinality(S) ELSE Cardinality(S) + 1
  BY FS_AddElement
<1>2. IsFiniteSet(T) /\ Cardinality(T) <= Cardinality(S \cup {x})
  BY <1>1, FS_Subset
<1>3. Cardinality(T) \in Nat /\ Cardinality(S \cup {x}) \in Nat
  BY <1>1, <1>2, FS_CardinalityType
<1> QED BY <1>0, <1>1, <1>2, <1>3

\* There are as many active slots as slots in use when all are active.
LEMMA ActiveFinite ==
  ASSUME TableType
  PROVE  /\ IsFiniteSet(ActiveSlots) /\ Cardinality(ActiveSlots) \in Nat
         /\ ActiveSlots = Used => Cardinality(ActiveSlots) = n
<1>1. n \in Nat
  BY DEF TableType
<1>2. IsFiniteSet(Used) /\ Cardinality(Used) = n
  <2>0. 1 \in Int /\ n \in Int
    BY <1>1
  <2>1. IsFiniteSet(1 .. n) /\ Cardinality(1 .. n) = IF 1 > n THEN 0 ELSE n - 1 + 1
    BY <2>0, FS_Interval, Zenon
  <2> QED BY <1>1, <2>1 DEF Used
<1>3. ActiveSlots \in SUBSET Used
  BY DEF ActiveSlots
<1> QED BY <1>2, <1>3, FS_Subset, FS_CardinalityType

\* A process of the ranking takes one slot at the most.
LEMMA LookedUp ==
  ASSUME Typed, DistinctPids, g_cfg.pids = <<>>, SyncKeep \/ FillSlot
  PROVE  \E k : ActiveSlots' \subseteq ActiveSlots \cup {k}
<1>0. TableType
  BY DEF Typed
<1>1. CASE SyncKeep
  <2>1. PICK k \in Used : st[k].pid = Wanted
    BY <1>1 DEF SyncKeep, Tracked
  <2>2. n' = n /\ \A j \in Used : j # k => st'[j] = st[j]
    BY <1>0, <1>1, <2>1, UsedSlots DEF SyncKeep, Explicitly, DistinctPids
  <2>3. ActiveSlots' \subseteq ActiveSlots \cup {k}
    BY <2>2 DEF ActiveSlots, Used
  <2> QED BY <2>3
<1>2. CASE FillSlot
  <2> DEFINE k == n + 1
  <2>1. \A j \in Used' : (j \in Used /\ st'[j] = st[j]) \/ j = k
    BY <1>2, FillSlotFills DEF Typed, SameSlot
  <2>2. ActiveSlots' \subseteq ActiveSlots \cup {k}
    BY <2>1 DEF ActiveSlots
  <2> HIDE DEF k
  <2> QED BY <2>2
<1> QED BY <1>1, <1>2

\* Removing a slot that is not ranked leaves as many ranked ones.
LEMMA RemovedUnranked ==
  ASSUME TableType, NEW k \in Used, ~st[k].active, RemoveSlot(k)
  PROVE  /\ Cardinality(ActiveSlots) \in Nat /\ Cardinality(ActiveSlots') \in Nat
         /\ Cardinality(ActiveSlots') <= Cardinality(ActiveSlots)
<1>1. \A j \in Used' : j \in Used /\ j # n /\ st'[j] = st[Source(j, k)] /\ Source(j, k) \in Used
  <2>1. \A j \in Used' : j # n
    BY DEF RemoveSlot, Used, TableType
  <2> QED BY <2>1, RemoveSlotMoves DEF SameSlot
<1>2. IsFiniteSet(ActiveSlots) /\ Cardinality(ActiveSlots) \in Nat
  BY ActiveFinite
<1>3. CASE st[n].active
  <2>1. n \in ActiveSlots
    BY <1>3, UsedSlots DEF ActiveSlots
  <2>2. ActiveSlots' \subseteq (ActiveSlots \ {n}) \cup {k}
    BY <1>1 DEF ActiveSlots, Source
  <2>3. /\ IsFiniteSet(ActiveSlots \ {n})
        /\ Cardinality(ActiveSlots \ {n}) = Cardinality(ActiveSlots) - 1
    BY <1>2, <2>1, FS_RemoveElement
  <2>4. /\ Cardinality(ActiveSlots') \in Nat
        /\ Cardinality(ActiveSlots') <= (Cardinality(ActiveSlots) - 1) + 1
    BY <2>2, <2>3, OneMore
  <2> QED BY <1>2, <2>4
<1>4. CASE ~st[n].active
  <2>1. ActiveSlots' \subseteq ActiveSlots
    BY <1>1, <1>4 DEF ActiveSlots, Source
  <2> QED BY <1>2, <2>1, FS_Subset, FS_CardinalityType
<1> QED BY <1>3, <1>4

\* The configuration does not change.
LEMMA ConfigFixed == [Next]_vars => g_cfg' = g_cfg
BY DEF Next, Daemon, Sync, Sample, Environment, LeaveLoop, FastTick,
       SlowTick, SyncScan, SyncKeep, SyncAdd, OpenCore, FillSlot, SyncAdded, Evict, Evicted,
       SampleGone, SampleIdle, SampleRan, Sampled, FastPush, Sleep, Cleanup, Signal, ExitProc,
       SpawnProc, vars

\* Every step keeps WithinTopN.
LEMMA TopNInductive ==
  ASSUME Typed, DistinctPids, WithinTopN, g_cfg.pids = <<>> \/ g_cfg.topN = 0, [Next]_vars
  PROVE  WithinTopN'
<1>0. TableType /\ LoopType /\ g_cfg' = g_cfg /\ g_cfg.topN \in Nat
  BY ConfigFixed DEF Typed, LoopType, Config
<1> SUFFICES ASSUME g_cfg.topN > 0, g_cfg.pids = <<>> PROVE WithinTopN'
  BY <1>0 DEF WithinTopN
<1>1. ASSUME UNCHANGED <<table, pc, i, todo>> PROVE WithinTopN'
  BY <1>0, <1>1 DEF WithinTopN, ActiveSlots, Used, table
<1>2. CASE \/ LeaveLoop \/ FastTick \/ SlowTick \/ Sampled \/ FastPush \/ SampleIdle
           \/ SampleRan \/ Sleep \/ Cleanup
  BY <1>0, <1>2 DEF WithinTopN, LeaveLoop, FastTick, SlowTick, Sampled, FastPush, SampleIdle,
     SampleRan, Sampling, Sleep, Cleanup, table
<1>3. CASE Environment
  BY <1>1, <1>3 DEF Environment, Signal, ExitProc, SpawnProc
<1>4. CASE SyncScan
  <2>1. Len(todo') <= g_cfg.topN /\ Len(todo') \in Nat
    <3>1. todo' \in Rankings
      BY <1>4 DEF SyncScan, Explicitly
    <3>2. PICK m \in 0 .. Lesser(g_cfg.topN, MaxPids) : todo' \in [1 .. m -> {p \in Pids : alive[p]}]
      BY <3>1 DEF Rankings, SeqOf
    <3>3. Len(todo') = m
      BY <1>0, <3>2, LesserType
    <3> QED BY <1>0, <3>3 DEF Lesser
  <2>2. ActiveSlots' = {}
    <3>1. n' = n /\ st' = [k \in Slots |-> IF k \in Used THEN [st[k] EXCEPT !.active = FALSE]
                                                           ELSE st[k]]
      BY <1>4 DEF SyncScan, Explicitly
    <3>2. Used \in SUBSET Slots
      BY <1>0, UsedSlots
    <3>3. \A k \in Used : st'[k].active = FALSE
      BY <1>0, <3>1, <3>2, SetActive DEF TableType
    <3> QED BY <3>1, <3>3 DEF ActiveSlots, Used
  <2>3. Cardinality(ActiveSlots') = 0
    BY <2>2, FS_EmptySet
  <2> QED BY <1>0, <1>4, <2>1, <2>3 DEF SyncScan, WithinTopN
<1>5. CASE SyncKeep \/ FillSlot
  <2>1. /\ pc \in {"add", "open"} /\ pc' = "add" /\ todo # <<>> /\ todo' = Tail(todo)
    BY <1>5 DEF SyncKeep, FillSlot, Typed, Opening
  <2>2. Len(todo') = Len(todo) - 1 /\ Len(todo) \in Nat
    BY <1>0, <2>1, HeadTailProperties DEF LoopType
  <2>3. /\ Cardinality(ActiveSlots) \in Nat /\ Cardinality(ActiveSlots') \in Nat
        /\ Cardinality(ActiveSlots') <= Cardinality(ActiveSlots) + 1
    BY <1>0, <1>5, LookedUp, ActiveFinite, OneMore
  <2> QED BY <1>0, <2>1, <2>2, <2>3 DEF WithinTopN
<1>11. CASE SyncAdd \/ OpenCore
  <2>1. /\ pc \in {"add", "open"} /\ pc' \in {"add", "open"}
        /\ todo' = todo \/ (todo # <<>> /\ todo' = Tail(todo))
    BY <1>11 DEF SyncAdd, AddRefused, AddFails, AddOpens, OpenCore
  <2>2. Len(todo') <= Len(todo) /\ Len(todo) \in Nat /\ Len(todo') \in Nat
    BY <1>0, <2>1, HeadTailProperties, LenProperties DEF LoopType
  <2>3. ActiveSlots' = ActiveSlots /\ Cardinality(ActiveSlots) \in Nat
    BY <1>0, <1>11, OpeningKeeps, ActiveFinite DEF ActiveSlots, Used
  <2> QED BY <1>0, <2>1, <2>2, <2>3 DEF WithinTopN
<1>6. CASE SyncAdded
  <2>1. /\ pc = "add" /\ pc' = "evict" /\ i' = 1 /\ Len(todo) = 0
        /\ n' = n /\ st' = st
    BY <1>6 DEF SyncAdded, table
  <2>2. ActiveSlots' = ActiveSlots /\ Cardinality(ActiveSlots) \in Nat
    BY <1>0, <2>1, ActiveFinite DEF ActiveSlots, Used
  <2> QED BY <1>0, <2>1, <2>2 DEF WithinTopN, Used, TableType
<1>7. CASE Evict
  <2>1. pc = "evict" /\ pc' = "evict" /\ i \in Used /\ Unwanted(i) = ~st[i].active
    BY <1>7 DEF Evict, Unwanted, Explicitly
  <2>2. CASE Unwanted(i)
    <3>1. RemoveSlot(i) /\ i' = i /\ ~st[i].active
      BY <1>7, <2>1, <2>2 DEF Evict
    <3>2. /\ Cardinality(ActiveSlots) \in Nat /\ Cardinality(ActiveSlots') \in Nat
          /\ Cardinality(ActiveSlots') <= Cardinality(ActiveSlots)
      BY <1>0, <2>1, <3>1, RemovedUnranked
    <3>3. \A k \in Used' : k < i => st'[k].active
      BY <1>0, <2>1, <3>1, RemoveSlotMoves DEF WithinTopN, Source, SameSlot, Used, TableType
    <3> QED BY <1>0, <2>1, <3>1, <3>2, <3>3 DEF WithinTopN
  <2>3. CASE ~Unwanted(i)
    <3>1. UNCHANGED <<n, st>> /\ i' = i + 1 /\ st[i].active
      BY <1>7, <2>1, <2>3 DEF Evict, table
    <3>2. ActiveSlots' = ActiveSlots
      BY <3>1 DEF ActiveSlots, Used
    <3> QED BY <1>0, <2>1, <3>1, <3>2 DEF WithinTopN, Used, TableType
  <2> QED BY <2>2, <2>3
<1>8. CASE Evicted
  <2>1. /\ pc = "evict" /\ pc' = "sample" /\ i \notin Used /\ n' = n
    BY <1>8 DEF Evicted, table
  <2>2. ActiveSlots = Used
    BY <1>0, <2>1 DEF WithinTopN, ActiveSlots, Used, TableType, LoopType
  <2>3. n <= g_cfg.topN
    BY <1>0, <2>1, <2>2, ActiveFinite DEF WithinTopN
  <2> QED BY <1>0, <2>1, <2>3 DEF WithinTopN
<1>9. CASE SampleGone
  <2>1. pc = "sample" /\ pc' = "sample" /\ n' = n - 1
    BY <1>9 DEF SampleGone, Sampling, RemoveSlot
  <2> QED BY <1>0, <2>1 DEF WithinTopN, TableType
<1>10. CASE UNCHANGED vars
  BY <1>1, <1>10 DEF vars
<1> QED
  BY <1>2, <1>3, <1>4, <1>5, <1>6, <1>7, <1>8, <1>9, <1>10, <1>11, StepCases DEF Quiet

\* Every step keeps WithinLimit.
LEMMA LimitInductive ==
  ASSUME Typed, Typed', WithinTopN, WithinLimit, [Next]_vars
  PROVE  WithinLimit'
<1>0. TableType /\ LoopType /\ g_cfg.topN \in Nat
  <2>1. TableType /\ LoopType
    BY DEF Typed
  <2>2. g_cfg.topN \in 0 .. MaxPids
    BY <2>1 DEF LoopType, Config
  <2> QED BY <2>1, <2>2
<1>1. ASSUME UNCHANGED <<n, pc, limit>> PROVE WithinLimit'
  BY <1>1 DEF WithinLimit
<1>2. CASE SlowTick
  BY <1>0, <1>2 DEF SlowTick, DisplayLimit, WithinTopN, WithinLimit, table, TableType
<1>3. CASE Evicted
  <2>1. pc = "evict" /\ limit' = DisplayLimit /\ n' = n /\ pc' = "sample"
    BY <1>3 DEF Evicted, table
  <2>2. g_cfg.topN > 0 => n <= g_cfg.topN
    <3>1. ASSUME g_cfg.topN > 0 PROVE n <= g_cfg.topN
      <4>1. ActiveSlots = Used
        BY <1>0, <1>3, <2>1, <3>1 DEF Evicted, WithinTopN, ActiveSlots, Used, TableType, LoopType
      <4> QED BY <1>0, <2>1, <3>1, <4>1, ActiveFinite DEF WithinTopN
    <3> QED BY <3>1
  <2> QED BY <1>0, <2>1, <2>2 DEF DisplayLimit, WithinLimit, TableType
<1>4. CASE \/ LeaveLoop \/ FastTick \/ Sampled \/ FastPush \/ Sleep \/ Cleanup \/ SyncScan
           \/ SyncKeep \/ SyncAdd \/ OpenCore \/ FillSlot \/ SyncAdded \/ Evict
  <2>1. pc' # "sample"
    BY <1>4 DEF LeaveLoop, FastTick, Sampled, FastPush, Sleep, Cleanup, SyncScan, SyncKeep,
       SyncAdd, AddRefused, AddFails, AddOpens, OpenCore, FillSlot, SyncAdded, Evict
  <2> QED BY <2>1 DEF WithinLimit
<1>5. CASE Environment
  BY <1>1, <1>5 DEF Environment, Signal, ExitProc, SpawnProc, table
<1>6. CASE SampleGone
  BY <1>0, <1>6 DEF SampleGone, Sampling, RemoveSlot, WithinLimit, TableType, LoopType
<1>7. CASE SampleIdle \/ SampleRan
  BY <1>1, <1>7 DEF SampleIdle, SampleRan
<1>8. CASE UNCHANGED vars
  BY <1>1, <1>8 DEF vars, table
<1> QED BY <1>2, <1>3, <1>4, <1>5, <1>6, <1>7, <1>8, StepCases DEF Quiet

\* Every step keeps AllExamined.
LEMMA AllInductive ==
  ASSUME Typed, ExaminedOnce, WithinLimit, AllExamined, [Next]_vars
  PROVE  AllExamined'
<1>1. ASSUME UNCHANGED <<table, pc, phase, seen>> PROVE AllExamined'
  BY <1>1 DEF AllExamined, Tracked, Used, table
<1>2. CASE Sampled
  <2>1. i \notin Used \/ ~(i - 1 < limit)
    BY <1>2 DEF Sampled, Sampling
  <2>2. \A k \in Used : k < i
    BY <1>2, <2>1 DEF Sampled, WithinLimit, Used, Typed, TableType, LoopType
  <2>3. Tracked \subseteq seen
    BY <1>2, <2>2 DEF Sampled, ExaminedOnce, Tracked
  <2> QED BY <1>2, <2>3 DEF Sampled, observed, table, AllExamined, Tracked, Used
<1>3. CASE FastTick
  BY <1>3 DEF FastTick, loop, AllExamined
<1>4. CASE FastPush
  BY <1>1, <1>4 DEF FastPush, loop
<1>5. CASE \/ LeaveLoop \/ SlowTick \/ Sleep \/ Cleanup \/ SyncScan \/ SyncKeep \/ SyncAdd
           \/ OpenCore \/ FillSlot \/ SyncAdded \/ Evict \/ Evicted \/ SampleGone
           \/ SampleIdle \/ SampleRan
  <2>1. pc' # "fast"
    BY <1>5 DEF LeaveLoop, SlowTick, Sleep, Cleanup, SyncScan, SyncKeep, SyncAdd, AddRefused,
       AddFails, AddOpens, OpenCore, FillSlot, SyncAdded, Evict, Evicted, SampleGone,
       SampleIdle, SampleRan, Sampling
  <2> QED BY <2>1 DEF AllExamined
<1>6. CASE Environment
  BY <1>1, <1>6 DEF Environment, Signal, ExitProc, SpawnProc, loop, observed
<1>7. CASE UNCHANGED vars
  BY <1>1, <1>7 DEF vars, loop, observed
<1> QED BY <1>2, <1>3, <1>4, <1>5, <1>6, <1>7, StepCases DEF Quiet

\* When no command line gives both --pids and --top, the display limit never
\* cuts the slow path short: every process in the table is examined.
THEOREM LimitNeverBinds == ASSUME OneMode PROVE Spec => []AllExamined
<1> DEFINE Mode == g_cfg.pids = <<>> \/ g_cfg.topN = 0
           Inv == /\ Typed /\ Examined /\ Mode /\ WithinTopN /\ WithinLimit
                  /\ AllExamined
<1>1. Init => Inv
  <2>1. Init => Mode
    BY OneMode DEF Init, OneMode
  <2>2. Init => n = 0 /\ pc = "top"
    BY DEF Init
  <2>3. Init => Typed /\ Examined /\ g_cfg.topN \in Nat
    BY ExaminedInit DEF Typed, LoopType, Config
  <2>4. Init => WithinTopN /\ WithinLimit /\ AllExamined
    BY <2>2, <2>3 DEF WithinTopN, WithinLimit, AllExamined
  <2> HIDE DEF Mode
  <2> QED BY <2>1, <2>3, <2>4
<1>2. Inv /\ [Next]_vars => Inv'
  <2> SUFFICES ASSUME Inv, [Next]_vars PROVE Inv'
    OBVIOUS
  <2>1. Typed' /\ Examined'
    BY TypedInductive, DistinctInductive, ExaminedInductive DEF Examined
  <2>2. Mode'
    BY ConfigFixed
  <2>3. WithinTopN'
    BY TopNInductive DEF Examined
  <2>4. WithinLimit'
    BY <2>1, LimitInductive
  <2>5. AllExamined'
    BY AllInductive DEF Examined
  <2> QED BY <2>1, <2>2, <2>3, <2>4, <2>5
<1>3. Inv => AllExamined
  OBVIOUS
<1> QED BY <1>1, <1>2, <1>3, PTL DEF Spec
=============================================================================
