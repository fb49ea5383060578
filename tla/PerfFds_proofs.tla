--------------------------- MODULE PerfFds_proofs ---------------------------
(***************************************************************************)
(* The descriptors behind the slots, for any set of processes, number of   *)
(* slots, and machines: cores, PMU and limit of descriptors.               *)
(***************************************************************************)
EXTENDS PerfFds, FiniteSetTheorems, WellFoundedInduction, TLAPS

USE FdAssumption DEF NoProc

-----------------------------------------------------------------------------
(* The lowest free descriptor *)

\* The minimum of a set of naturals below a bound is one of them: the intervals
\* up to its elements have a least one in the order of inclusion.
LEMMA MinInSet ==
  ASSUME NEW m \in Nat, NEW S \in SUBSET (0 .. m), S # {} PROVE Min(S) \in S
<1> DEFINE T == {0 .. x : x \in S}
<1>1. IsWellFoundedOn(StrictSubsetOrdering(0 .. m), SUBSET (0 .. m))
  <2>1. IsFiniteSet(0 .. m)
    BY FS_Interval
  <2>2. FiniteSubsetsOf(0 .. m) = SUBSET (0 .. m)
    BY <2>1, FS_FiniteSubsetsOfFinite
  <2> QED BY <2>2, FS_StrictSubsetOrderingWellFounded
<1>2. T \subseteq SUBSET (0 .. m) /\ T # {}
  <2>1. ASSUME NEW x \in S PROVE 0 .. x \in SUBSET (0 .. m)
    OBVIOUS
  <2> QED BY <2>1
<1>3. PICK t \in T : \A u \in T : <<u, t>> \notin StrictSubsetOrdering(0 .. m)
  BY <1>1, <1>2, WFMin
<1>4. PICK x \in S : t = 0 .. x
  OBVIOUS
<1>5. ASSUME NEW y \in S, y < x PROVE FALSE
  <2>1. 0 .. y \in T /\ 0 .. y \subseteq 0 .. x /\ x \notin 0 .. y /\ x \in 0 .. x
    BY <1>5
  <2> QED BY <1>2, <1>3, <1>4, <2>1 DEF StrictSubsetOrdering
<1>6. \A y \in S : x <= y
  BY <1>5
<1> QED BY <1>6 DEF Min

-----------------------------------------------------------------------------
(* Types *)

FdType  == [what : {"event"}, task : Procs \cup {NoProc}, on : Int, kind : Kinds, size : Nat]
             \cup {Free, Stdin}
CtrType == [fd : [Kinds -> -1 .. host.maxFd], hw : BOOLEAN]

\* add_pid is at work, and with which counter.
Opening == pc \notin {"idle", "done"}
Current == ctr[New][cpu]

Typed ==
  /\ host \in Hosts /\ alive \subseteq Procs
  /\ fds \in [Fds -> FdType]
  /\ n \in 0 .. MaxPids /\ (Opening => n < MaxPids)
  /\ pid \in [Slots -> Procs \cup {NoProc}]
  /\ ctr \in [Slots -> [Cpus -> CtrType]]
  /\ pc \in {"idle", "leader", "software", "instr", "llc", "done"}
  /\ cpu \in Cpus
  /\ target \in Procs \cup {NoProc}

\* What the steps of perf_counter_open have left of the counter so far, and of
\* its leader.  Nothing but add_pid opens or closes in between, so what could
\* not be opened for want of a process or a descriptor still cannot.
Halfway ==
  /\ pc = "software" => /\ Current.fd = [k \in Kinds |-> -1] /\ ~Current.hw
                        /\ ~host.pmu \/ ~MayOpen
  /\ pc \in {"instr", "llc"} =>
       /\ Current.hw /\ Current.fd["cycles"] \in Fds
       /\ IsEvent(Current.fd["cycles"])
       /\ Current.fd["llc"] = -1
  /\ pc = "instr" => /\ Current.fd["instr"] = -1
                     /\ fds[Current.fd["cycles"]].size <= 3
  /\ pc = "llc" => fds[Current.fd["cycles"]].size <= 5

\* The machine's numbers have the types the assumption gives them.
LEMMA HostType ==
  ASSUME Typed PROVE /\ host.cores \in Nat /\ host.pmu \in BOOLEAN /\ host.maxFd \in Nat
                     /\ -1 \in Cpus /\ 0 \in Fds
BY DEF Typed, Cpus, Fds

\* A free entry, standard input and an event are told apart by what they are.
LEMMA KindsFree == Free.what = "free" /\ Stdin.what = "stdin" /\ Free # Stdin
BY DEF Free, Stdin

\* The counters the code assigns are counters.
LEMMA CounterTypes ==
  ASSUME Typed
  PROVE  /\ Zeroed \in CtrType /\ Unopened \in CtrType /\ Closed \in CtrType
         /\ [Unopened EXCEPT !.hw = FALSE] \in CtrType
         /\ \A f \in Fds : [Unopened EXCEPT !.fd["cycles"] = f] \in CtrType
         /\ \A c \in CtrType, f \in Fds, k \in Kinds : [c EXCEPT !.fd[k] = f] \in CtrType
<1> USE HostType DEF CtrType, Zeroed, Unopened, Closed, Kinds, Fds
<1>1. Zeroed \in CtrType
  OBVIOUS
<1>2. Unopened \in CtrType /\ Closed \in CtrType
  OBVIOUS
<1>3. [Unopened EXCEPT !.hw = FALSE] \in CtrType
  BY <1>2
<1>4. \A c \in CtrType, f \in Fds, k \in Kinds : [c EXCEPT !.fd[k] = f] \in CtrType
  OBVIOUS
<1>5. \A f \in Fds : [Unopened EXCEPT !.fd["cycles"] = f] \in CtrType
  BY <1>2, <1>4
<1> QED BY <1>1, <1>2, <1>3, <1>4, <1>5

\* The lowest free descriptor is free.
LEMMA LowestFree ==
  ASSUME Typed, MayOpen
  PROVE  Min(FreeFds) \in Fds /\ fds[Min(FreeFds)] = Free
<1>1. FreeFds \in SUBSET (0 .. host.maxFd) /\ FreeFds # {}
  BY DEF FreeFds, Fds, MayOpen
<1>2. Min(FreeFds) \in FreeFds
  BY <1>1, HostType, MinInSet
<1> QED BY <1>2 DEF FreeFds

\* Closing keeps the descriptor table one.
LEMMA CloseType ==
  ASSUME Typed
  PROVE  /\ \A c : FdsAfterClose(c) \in [Fds -> FdType]
         /\ \A counters : FdsAfterCloseAll(counters) \in [Fds -> FdType]
<1>1. Free \in FdType
  BY DEF FdType
<1> QED BY <1>1 DEF Typed, FdsAfterClose, FdsAfterCloseAll

\* What assigning a counter to the slot that is filled changes.
LEMMA SetCtrParts ==
  ASSUME Typed, Opening, NEW c \in CtrType, SetCtr(c)
  PROVE  /\ ctr' \in [Slots -> [Cpus -> CtrType]]
         /\ New \in Slots /\ ctr'[New][cpu] = c
         /\ \A s \in Slots, d \in Cpus : s # New \/ d # cpu => ctr'[s][d] = ctr[s][d]
<1>1. New \in Slots
  BY DEF Typed, New, Slots
<1> QED BY <1>1 DEF Typed, SetCtr

\* The next core, or the slot is in use.
LEMMA AfterCounterParts ==
  ASSUME Typed, Opening, NEW c, AfterCounter(c), host' = host, target' = target
  PROVE  /\ \/ pc' = "leader" /\ n' = n /\ pid' = pid
            \/ pc' = "idle" /\ n' = New /\ pid' = [pid EXCEPT ![New] = target]
         /\ n' \in 0 .. MaxPids /\ (Opening' => n' < MaxPids)
         /\ pid' \in [Slots -> Procs \cup {NoProc}]
         /\ cpu' \in Cpus
<1>1. CASE cpu < host.cores - 1 /\ (cpu >= 0 \/ c.hw)
  BY <1>1, HostType DEF AfterCounter, Typed, Cpus, Opening
<1>2. CASE ~(cpu < host.cores - 1 /\ (cpu >= 0 \/ c.hw))
  <2>1. n' = New /\ pid' = [pid EXCEPT ![New] = target] /\ pc' = "idle" /\ cpu' = -1
    BY <1>2 DEF AfterCounter
  <2>2. n' \in 0 .. MaxPids
    BY <2>1 DEF Typed, New
  <2>3. pid' \in [Slots -> Procs \cup {NoProc}]
    BY <2>1 DEF Typed
  <2>4. cpu' \in Cpus
    BY <2>1, HostType DEF Cpus
  <2> QED BY <2>1, <2>2, <2>3, <2>4 DEF Opening
<1> QED BY <1>1, <1>2

\* The same where a counter could not be opened.
LEMMA AfterFailureParts ==
  ASSUME Typed, Opening, AfterFailure, host' = host, target' = target
  PROVE  /\ pc' \in {"idle", "leader"}
         /\ n' \in 0 .. MaxPids /\ (Opening' => n' < MaxPids)
         /\ pid' \in [Slots -> Procs \cup {NoProc}]
         /\ cpu' \in Cpus
<1>1. CASE cpu = -1
  BY <1>1 DEF AfterFailure, Typed, Opening
<1>2. CASE cpu # -1
  BY <1>2, AfterCounterParts DEF AfterFailure
<1> QED BY <1>1, <1>2

\* An open keeps the descriptor table one.
LEMMA OpenedType ==
  ASSUME Typed, NEW f \in Fds, NEW k \in Kinds, NEW z \in Nat
  PROVE  [fds EXCEPT ![f] = Event(target, cpu, k, z)] \in [Fds -> FdType]
<1>1. Event(target, cpu, k, z) \in FdType
  BY HostType DEF Typed, Event, FdType, Cpus
<1> QED BY <1>1 DEF Typed

\* The same for a member of a group, whose leader's reads become longer.
Joined(f, g, k) == [fds EXCEPT ![f] = Event(target, cpu, k, 1), ![g].size = @ + 2]

\* What joining a group changes: the new member and its leader.
LEMMA JoinedParts ==
  ASSUME Typed, NEW f \in Fds, NEW g \in Fds, f # g, NEW k
  PROVE  /\ DOMAIN Joined(f, g, k) = Fds
         /\ Joined(f, g, k)[f] = Event(target, cpu, k, 1)
         /\ Joined(f, g, k)[g] = [fds[g] EXCEPT !.size = @ + 2]
         /\ \A x \in Fds \ {f, g} : Joined(f, g, k)[x] = fds[x]
<1>1. DOMAIN fds = Fds
  BY DEF Typed
<1> QED BY <1>1 DEF Joined

\* It keeps the descriptor table one.
LEMMA JoinedType ==
  ASSUME Typed, NEW f \in Fds, NEW g \in Fds, f # g, IsEvent(g), NEW k \in Kinds
  PROVE  Joined(f, g, k) \in [Fds -> FdType]
<1>1. Event(target, cpu, k, 1) \in FdType
  BY HostType DEF Typed, Event, FdType, Cpus
<1>2. fds[g] \in FdType \ {Free, Stdin}
  BY KindsFree DEF Typed, IsEvent
<1>3. [fds[g] EXCEPT !.size = @ + 2] \in FdType
  BY <1>2 DEF FdType
<1>4. \A x \in Fds : fds[x] \in FdType
  BY DEF Typed
<1> HIDE DEF FdType
<1>5. ASSUME NEW x \in Fds PROVE Joined(f, g, k)[x] \in FdType
  BY <1>1, <1>3, <1>4, JoinedParts
<1>6. Joined(f, g, k) = [x \in Fds |-> Joined(f, g, k)[x]]
  BY JoinedParts DEF Joined, Typed
<1> QED BY <1>5, <1>6

-----------------------------------------------------------------------------
(* perf_counter_open, from leader to group *)

\* The two outcomes of each step of it.
LeaderOpens == /\ pc = "leader" /\ host.pmu /\ MayOpen
               /\ fds' = [fds EXCEPT ![Min(FreeFds)] = Event(target, cpu, "cycles", 3)]
               /\ SetCtr([Unopened EXCEPT !.fd["cycles"] = Min(FreeFds)])
               /\ pc' = "instr"
               /\ UNCHANGED <<host, alive, n, pid, cpu, target>>
LeaderFails == /\ pc = "leader" /\ (~host.pmu \/ ~MayOpen)
               /\ fds' = fds
               /\ SetCtr([Unopened EXCEPT !.hw = FALSE])
               /\ pc' = "software"
               /\ UNCHANGED <<host, alive, n, pid, cpu, target>>
SoftwareOpens == /\ pc = "software" /\ MayOpen
                 /\ fds' = [fds EXCEPT ![Min(FreeFds)] = Event(target, cpu, "cycles", 3)]
                 /\ SetCtr([Current EXCEPT !.fd["cycles"] = Min(FreeFds)])
                 /\ AfterCounter([Current EXCEPT !.fd["cycles"] = Min(FreeFds)])
                 /\ UNCHANGED <<host, alive, target>>
MemberJoins(k) ==
  /\ pc = k /\ MayOpen
  /\ fds' = Joined(Min(FreeFds), Current.fd["cycles"], k)
  /\ SetCtr([Current EXCEPT !.fd[k] = Min(FreeFds)])
  /\ IF k = "llc" THEN AfterCounter([Current EXCEPT !.fd[k] = Min(FreeFds)])
                  ELSE pc' = "llc" /\ UNCHANGED <<n, pid, cpu>>
  /\ UNCHANGED <<host, alive, target>>
\* The group, or the counter that has none, is given up.
GivesUp == /\ pc \in {"software", "instr", "llc"}
           /\ fds' = IF pc = "software" THEN fds ELSE FdsAfterClose(Current)
           /\ SetCtr(Closed)
           /\ AfterFailure
           /\ UNCHANGED <<host, alive, target>>

\* Every step of perf_counter_open has one of these outcomes.
LEMMA OpenOutcomes ==
  Open => \/ LeaderOpens \/ LeaderFails \/ SoftwareOpens \/ GivesUp
          \/ \E k \in {"instr", "llc"} : MemberJoins(k)
<1>1. OpenLeader => LeaderOpens \/ LeaderFails
  BY DEF OpenLeader, LeaderOpens, LeaderFails
<1>2. OpenSoftware => SoftwareOpens \/ GivesUp
  BY DEF OpenSoftware, SoftwareOpens, GivesUp, Current
<1>3. OpenMember("instr", "llc") => MemberJoins("instr") \/ GivesUp
  BY DEF OpenMember, MemberJoins, GivesUp, Current, Joined
<1>4. OpenMember("llc", "opened") => MemberJoins("llc") \/ GivesUp
  BY DEF OpenMember, MemberJoins, GivesUp, Current, Joined
<1> QED BY <1>1, <1>2, <1>3, <1>4 DEF Open

\* The steps of perf_counter_open keep the types.
LEMMA TypedOpen == ASSUME Typed, Halfway, Open PROVE Typed'
<1> USE DEF Kinds
<1>1. CASE LeaderOpens
  <2>1. Opening /\ fds' \in [Fds -> FdType]
    BY <1>1, LowestFree, OpenedType DEF LeaderOpens, Opening
  <2>2. ctr' \in [Slots -> [Cpus -> CtrType]]
    BY <1>1, <2>1, LowestFree, CounterTypes, SetCtrParts DEF LeaderOpens
  <2> QED BY <1>1, <2>1, <2>2 DEF LeaderOpens, Typed, Opening, Fds, Cpus, CtrType, FdType
<1>2. CASE LeaderFails
  <2>1. Opening
    BY <1>2 DEF LeaderFails, Opening
  <2>2. ctr' \in [Slots -> [Cpus -> CtrType]]
    BY <1>2, <2>1, CounterTypes, SetCtrParts DEF LeaderFails
  <2> QED BY <1>2, <2>1, <2>2 DEF LeaderFails, Typed, Opening, Fds, Cpus, CtrType, FdType
<1>3. ASSUME Opening, host' = host, alive' = alive, target' = target,
             fds' \in [Fds -> FdType], ctr' \in [Slots -> [Cpus -> CtrType]],
             pc' \in {"idle", "leader", "llc"},
             n' \in 0 .. MaxPids /\ (Opening' => n' < MaxPids),
             pid' \in [Slots -> Procs \cup {NoProc}], cpu' \in Cpus
      PROVE  Typed'
  BY <1>3 DEF Typed, Fds, Cpus, CtrType, FdType
<1>0. ASSUME Opening PROVE Current \in CtrType
  BY <1>0 DEF Typed, Opening, Current, New, Slots
<1>4. CASE SoftwareOpens
  <2>1. Opening /\ Min(FreeFds) \in Fds /\ fds' \in [Fds -> FdType]
    BY <1>4, LowestFree, OpenedType DEF SoftwareOpens, Opening
  <2>2. [Current EXCEPT !.fd["cycles"] = Min(FreeFds)] \in CtrType
    BY <1>0, <2>1, CounterTypes
  <2>3. ctr' \in [Slots -> [Cpus -> CtrType]]
    BY <1>4, <2>1, <2>2, SetCtrParts DEF SoftwareOpens
  <2> QED BY <1>3, <1>4, <2>1, <2>3, AfterCounterParts DEF SoftwareOpens
<1>5. ASSUME NEW k \in {"instr", "llc"}, MemberJoins(k) PROVE Typed'
  <2>1. Opening /\ Min(FreeFds) \in Fds /\ fds[Min(FreeFds)] = Free
    BY <1>5, LowestFree DEF MemberJoins, Opening
  <2>2. Current.fd["cycles"] \in Fds /\ IsEvent(Current.fd["cycles"])
    BY <1>5 DEF Halfway, MemberJoins
  <2>3. Min(FreeFds) # Current.fd["cycles"]
    BY <2>1, <2>2, KindsFree DEF IsEvent
  <2>4. fds' \in [Fds -> FdType]
    BY <1>5, <2>1, <2>2, <2>3, JoinedType DEF MemberJoins
  <2>5. [Current EXCEPT !.fd[k] = Min(FreeFds)] \in CtrType
    BY <1>0, <2>1, CounterTypes
  <2>6. ctr' \in [Slots -> [Cpus -> CtrType]]
    BY <1>5, <2>1, <2>5, SetCtrParts DEF MemberJoins
  <2>7. CASE k = "llc"
    BY <1>3, <1>5, <2>1, <2>4, <2>6, <2>7, AfterCounterParts DEF MemberJoins
  <2>8. CASE k # "llc"
    BY <1>3, <1>5, <2>1, <2>4, <2>6, <2>8 DEF MemberJoins, Typed, Opening, Cpus
  <2> QED BY <2>7, <2>8
<1>6. CASE GivesUp
  <2>1. Opening /\ fds' \in [Fds -> FdType]
    BY <1>6, CloseType DEF GivesUp, Opening, Typed
  <2>2. ctr' \in [Slots -> [Cpus -> CtrType]]
    BY <1>6, <2>1, CounterTypes, SetCtrParts DEF GivesUp
  <2> QED BY <1>3, <1>6, <2>1, <2>2, AfterFailureParts DEF GivesUp
<1> QED BY <1>1, <1>2, <1>4, <1>5, <1>6, OpenOutcomes

\* They keep what they rely on from one to the next.
LEMMA HalfwayOpen == ASSUME Typed, Halfway, Open PROVE Halfway'
<1> USE DEF Kinds
<1>1. CASE LeaderOpens
  <2> DEFINE f == Min(FreeFds)
  <2>1. Opening /\ f \in Fds /\ fds[f] = Free
    BY <1>1, LowestFree DEF LeaderOpens, Opening
  <2>2. ctr'[New][cpu] = [Unopened EXCEPT !.fd["cycles"] = f]
    BY <1>1, <2>1, CounterTypes, SetCtrParts DEF LeaderOpens
  <2>3. Current' = [Unopened EXCEPT !.fd["cycles"] = f]
    BY <1>1, <2>2 DEF LeaderOpens, Current, New
  <2>4. /\ Current'.hw /\ Current'.fd["cycles"] = f
        /\ Current'.fd["instr"] = -1 /\ Current'.fd["llc"] = -1
    BY <2>3 DEF Unopened
  <2>5. fds'[f] = Event(target, cpu, "cycles", 3) /\ Fds' = Fds
    BY <1>1, <2>1 DEF LeaderOpens, Typed, Fds
  <2>6. fds'[f].what = "event" /\ fds'[f].size = 3
    BY <2>5 DEF Event
  <2> QED BY <1>1, <2>1, <2>4, <2>5, <2>6 DEF LeaderOpens, Halfway, IsEvent
<1>2. CASE LeaderFails
  <2>1. Opening /\ ctr'[New][cpu] = [Unopened EXCEPT !.hw = FALSE]
    BY <1>2, CounterTypes, SetCtrParts DEF LeaderFails, Opening
  <2>2. Current' = [Unopened EXCEPT !.hw = FALSE]
    BY <1>2, <2>1 DEF LeaderFails, Current, New
  <2>3. Current'.fd = [k \in Kinds |-> -1] /\ ~Current'.hw
    BY <2>2 DEF Unopened
  <2>4. MayOpen' = MayOpen /\ host' = host
    BY <1>2 DEF LeaderFails, MayOpen, FreeFds, Fds
  <2> QED BY <1>2, <2>3, <2>4 DEF LeaderFails, Halfway
<1>3. ASSUME pc' \in {"idle", "leader"} PROVE Halfway'
  BY <1>3 DEF Halfway
<1>4. CASE SoftwareOpens
  BY <1>3, <1>4, AfterCounterParts DEF SoftwareOpens, AfterCounter
<1>5. CASE MemberJoins("instr")
  <2> DEFINE f == Min(FreeFds)
             g == Current.fd["cycles"]
  <2>1. Opening /\ f \in Fds /\ fds[f] = Free /\ New \in Slots
    BY <1>5, LowestFree DEF MemberJoins, Opening, New, Slots, Typed
  <2>2. /\ g \in Fds /\ IsEvent(g) /\ fds[g].size <= 3 /\ fds[g] \in FdType
        /\ Current.hw /\ Current.fd["llc"] = -1
    BY <1>5 DEF Halfway, MemberJoins, Typed
  <2>3. f # g
    BY <2>1, <2>2, KindsFree DEF IsEvent
  <2>4. Current \in CtrType
    BY <2>1 DEF Typed, Current
  <2>5. ctr'[New][cpu] = [Current EXCEPT !.fd["instr"] = f]
    BY <1>5, <2>1, <2>4, CounterTypes, SetCtrParts DEF MemberJoins
  <2>6. Current' = [Current EXCEPT !.fd["instr"] = f]
    BY <1>5, <2>5 DEF MemberJoins, Current, New
  <2>7. Current'.hw /\ Current'.fd["cycles"] = g /\ Current'.fd["llc"] = -1
    BY <2>2, <2>4, <2>6 DEF CtrType
  <2>8. fds'[g] = [fds[g] EXCEPT !.size = @ + 2] /\ Fds' = Fds
    BY <1>5, <2>1, <2>2, <2>3, JoinedParts DEF MemberJoins, Fds
  <2>9. fds'[g].what = "event" /\ fds'[g].size <= 5
    <3>1. fds[g] \in FdType \ {Free, Stdin}
      BY <2>2, KindsFree DEF IsEvent
    <3> QED BY <2>2, <2>8, <3>1 DEF FdType
  <2> QED BY <1>5, <2>2, <2>7, <2>8, <2>9 DEF MemberJoins, Halfway, IsEvent
<1>6. CASE MemberJoins("llc")
  BY <1>3, <1>6 DEF MemberJoins, AfterCounter
<1>7. CASE GivesUp
  <2>1. Opening
    BY <1>7 DEF GivesUp, Opening
  <2> QED BY <1>3, <1>7, <2>1, AfterFailureParts DEF GivesUp
<1> QED BY <1>1, <1>2, <1>4, <1>5, <1>6, <1>7, OpenOutcomes

\* remove_slot, whose index is one of the slots in use.
LEMMA RemoveSlotParts ==
  ASSUME Typed, NEW s \in Used, RemoveSlot(s)
  PROVE  /\ s \in Slots /\ n \in Slots /\ n' = n - 1
         /\ ctr' \in [Slots -> [Cpus -> CtrType]]
         /\ s # n => ctr'[s] = ctr[n] /\ pid'[s] = pid[n]
         /\ \A t \in Slots \ {s} : ctr'[t] = ctr[t] /\ pid'[t] = pid[t]
         /\ pid' \in [Slots -> Procs \cup {NoProc}]
<1> DEFINE shut == [ctr EXCEPT ![s] = [c \in Cpus |-> Closed]]
<1>1. s \in Slots /\ n \in Slots /\ n' = n - 1
  BY DEF Typed, Used, Slots, RemoveSlot
<1>2. Closed \in CtrType
  BY CounterTypes
<1>3. shut \in [Slots -> [Cpus -> CtrType]]
  BY <1>1, <1>2 DEF Typed
<1>4. \A t \in Slots : t # s => shut[t] = ctr[t]
  BY DEF Typed
<1> HIDE DEF shut
<1>5. ctr' = [shut EXCEPT ![s] = shut[n]] /\ pid' = [pid EXCEPT ![s] = pid[n]]
  BY DEF RemoveSlot, Moved, shut
<1>6. ctr' \in [Slots -> [Cpus -> CtrType]]
  BY <1>1, <1>3, <1>5
<1>7. pid' \in [Slots -> Procs \cup {NoProc}]
  BY <1>1, <1>5 DEF Typed
<1>8. s # n => ctr'[s] = ctr[n] /\ pid'[s] = pid[n]
  BY <1>1, <1>3, <1>4, <1>5 DEF Typed
<1>9. \A t \in Slots \ {s} : ctr'[t] = ctr[t] /\ pid'[t] = pid[t]
  BY <1>1, <1>3, <1>4, <1>5 DEF Typed
<1> QED BY <1>1, <1>6, <1>7, <1>8, <1>9

\* What cleanup leaves of the counters.
LEMMA CleanupParts ==
  ASSUME Typed, Cleanup
  PROVE  /\ ctr' \in [Slots -> [Cpus -> CtrType]]
         /\ \A s \in Used, c \in Cpus : ctr'[s][c] = Closed
<1>1. Closed \in CtrType /\ Used \subseteq Slots
  BY CounterTypes DEF Typed, Used, Slots
<1>2. [c \in Cpus |-> Closed] \in [Cpus -> CtrType]
  BY <1>1
<1>3. ctr' = [s \in Slots |-> IF s \in Used THEN [c \in Cpus |-> Closed] ELSE ctr[s]]
  BY DEF Cleanup
<1> QED BY <1>1, <1>2, <1>3 DEF Typed

\* A slot leaves in the slow path or in sync_pids.
Leaves(s) == pc = "idle" /\ s \in Used /\ RemoveSlot(s)

\* The steps, with the two ways a slot is removed taken as one.
LEMMA NextCases ==
  Next => \/ Open \/ Cleanup
          \/ \E p \in Procs : AddPid(p) \/ ExitProc(p)
          \/ \E s \in Slots : Leaves(s)
BY DEF Next, SampleGone, Evict, Leaves

\* What add_pid's first step changes: the counters of the new slot.
LEMMA AddPidParts ==
  ASSUME Typed, NEW p \in Procs, AddPid(p)
  PROVE  /\ ctr' \in [Slots -> [Cpus -> CtrType]]
         /\ New \in Slots /\ \A s \in Slots : s # New => ctr'[s] = ctr[s]
<1>1. New \in Slots /\ Zeroed \in CtrType
  BY CounterTypes DEF AddPid, Typed, New, Slots
<1>2. ctr' = [ctr EXCEPT ![New] = [c \in Cpus |-> Zeroed]]
  BY DEF AddPid
<1>3. [c \in Cpus |-> Zeroed] \in [Cpus -> CtrType]
  BY <1>1
<1> QED BY <1>1, <1>2, <1>3 DEF Typed

\* Every step keeps Typed and Halfway.
LEMMA TypedInductive == Typed /\ Halfway /\ [Next]_vars => Typed' /\ Halfway'
<1> SUFFICES ASSUME Typed, Halfway, [Next]_vars PROVE Typed' /\ Halfway'
  OBVIOUS
<1>1. CASE Open
  BY <1>1, TypedOpen, HalfwayOpen
<1>2. ASSUME NEW p \in Procs, AddPid(p) PROVE Typed' /\ Halfway'
  <2>1. Typed'
    BY <1>2, AddPidParts, HostType DEF AddPid, Typed, Opening, Fds, Cpus, CtrType, FdType
  <2>2. Halfway'
    BY <1>2 DEF AddPid, Halfway
  <2> QED BY <2>1, <2>2
<1>3. ASSUME NEW p \in Procs, ExitProc(p) PROVE Typed' /\ Halfway'
  <2>1. Typed'
    BY <1>3 DEF ExitProc, Typed, Opening, Fds, Cpus, CtrType, FdType
  <2>2. Current' = Current /\ Fds' = Fds /\ (MayOpen' => MayOpen)
    BY <1>3 DEF ExitProc, Current, New, MayOpen, FreeFds, Fds
  <2>3. Halfway'
    BY <1>3, <2>2 DEF ExitProc, Halfway, IsEvent
  <2> QED BY <2>1, <2>3
<1>4. ASSUME NEW s \in Slots, Leaves(s) PROVE Typed' /\ Halfway'
  <2>1. fds' \in [Fds -> FdType]
    BY <1>4, CloseType DEF Leaves, RemoveSlot
  <2>2. n' = n - 1 /\ n \in Slots /\ ctr' \in [Slots -> [Cpus -> CtrType]]
        /\ pid' \in [Slots -> Procs \cup {NoProc}]
    BY <1>4, RemoveSlotParts DEF Leaves
  <2>3. n' \in 0 .. MaxPids /\ n' < MaxPids
    BY <2>2 DEF Slots
  <2>4. Typed'
    BY <1>4, <2>1, <2>2, <2>3 DEF Leaves, RemoveSlot, Typed, Opening, Fds, Cpus, CtrType, FdType
  <2>5. Halfway'
    BY <1>4 DEF Leaves, RemoveSlot, Halfway
  <2> QED BY <2>4, <2>5
<1>5. CASE Cleanup
  <2>1. fds' \in [Fds -> FdType]
    BY <1>5, CloseType DEF Cleanup
  <2>2. Typed'
    BY <1>5, <2>1, CleanupParts DEF Cleanup, Typed, Opening, Fds, Cpus, CtrType, FdType
  <2>3. Halfway'
    BY <1>5 DEF Cleanup, Halfway
  <2> QED BY <2>2, <2>3
<1>6. CASE UNCHANGED vars
  <2>1. Typed'
    BY <1>6 DEF vars, Typed, Opening, Fds, Cpus, CtrType, FdType
  <2>2. Current' = Current /\ Fds' = Fds /\ MayOpen' = MayOpen
    BY <1>6 DEF vars, Current, New, MayOpen, FreeFds, Fds
  <2>3. Halfway'
    BY <1>6, <2>2 DEF vars, Halfway, IsEvent
  <2> QED BY <2>1, <2>3
<1> QED BY <1>1, <1>2, <1>3, <1>4, <1>5, <1>6, NextCases

\* They hold at the start.
LEMMA TypedInit == Init => Typed /\ Halfway
<1> SUFFICES ASSUME Init PROVE Typed /\ Halfway
  OBVIOUS
<1>1. host.cores \in Nat /\ host.maxFd \in Nat
  BY DEF Init
<1>2. fds \in [Fds -> FdType]
  BY DEF Init, FdType
<1>3. Zeroed \in CtrType
  BY <1>1 DEF Zeroed, CtrType
<1>4. ctr \in [Slots -> [Cpus -> CtrType]]
  BY <1>3 DEF Init
<1>5. -1 \in Cpus
  BY <1>1 DEF Cpus
<1> QED BY <1>2, <1>4, <1>5 DEF Init, Typed, Halfway, Opening

\* The variables keep their types: no index leaves the arrays, no descriptor
\* that is used is beyond the table.
THEOREM TypeCorrect == Spec => []TypeOK
<1>1. Typed => TypeOK
  <2> SUFFICES ASSUME Typed PROVE TypeOK
    OBVIOUS
  <2>1. \A f \in Fds : fds[f].what \in {"free", "stdin", "event"}
    BY KindsFree DEF Typed, FdType
  <2> QED BY <2>1 DEF Typed, TypeOK, CtrType
<1> QED BY <1>1, TypedInit, TypedInductive, PTL DEF Spec

-----------------------------------------------------------------------------
(* Whose a descriptor is *)

\* Per-core counters are asked for on machines with a PMU only.  Without it,
\* those of the cores are never opened, and their zeroes are taken for
\* descriptors when they are closed.
PmuForCores == \A h \in Hosts : h.pmu \/ h.cores = 0

\* The process a slot's counters are of, the next one's included.
Task(s) == IF s = New THEN target ELSE pid[s]

IsOf(e, p, c, k) == e.what = "event" /\ e.task = p /\ e.on = c /\ e.kind = k
SameEvent(d, e)  == d.what = e.what /\ d.task = e.task /\ d.on = e.on /\ d.kind = e.kind

\* Every descriptor is an event of its counter, every event has a counter, and
\* no two slots are of one process: so that no two counters share an event.
Owning ==
  \A s \in Slots, c \in Cpus, k \in Kinds :
    InUse(s, c) /\ ctr[s][c].fd[k] # -1 => IsOf(fds[ctr[s][c].fd[k]], Task(s), c, k)
Owned ==
  \A f \in Fds : IsEvent(f) =>
    \E s \in Slots, c \in Cpus, k \in Kinds : InUse(s, c) /\ ctr[s][c].fd[k] = f
OneEach ==
  /\ \A s, t \in Used : pid[s] = pid[t] => s = t
  /\ Opening => \A s \in Used : pid[s] # target
Ended == pc = "done" => \A f \in Fds : ~IsEvent(f)

Inv == Owning /\ Owned /\ OneEach /\ Ended /\ StdinKept

\* A descriptor of a counter is in the table.
LEMMA DescriptorType ==
  ASSUME Typed, NEW s \in Slots, NEW c \in Cpus, NEW k \in Kinds, ctr[s][c].fd[k] # -1
  PROVE  ctr[s][c].fd[k] \in Fds
<1>1. ctr[s][c] \in CtrType
  BY DEF Typed
<1>2. ctr[s][c].fd[k] \in -1 .. host.maxFd
  BY <1>1 DEF CtrType
<1> QED BY <1>2, HostType DEF Fds

\* An event has one counter.
LEMMA OneOwner ==
  ASSUME Typed, Owning, OneEach,
         NEW s \in Slots, NEW c \in Cpus, NEW k \in Kinds, InUse(s, c), ctr[s][c].fd[k] # -1,
         NEW t \in Slots, NEW d \in Cpus, NEW j \in Kinds, InUse(t, d),
         ctr[t][d].fd[j] = ctr[s][c].fd[k]
  PROVE  s = t /\ c = d /\ k = j
<1>1. Task(s) = Task(t) /\ c = d /\ k = j
  BY DEF Owning, IsOf
<1>2. \A u \in Slots : InUse(u, c) => u \in Used \/ (u = New /\ Opening)
  BY DEF InUse, Opening
<1>3. New \notin Used
  BY DEF Typed, Used, New
<1>4. s \in Used \/ (s = New /\ Opening)
  BY <1>2
<1>5. t \in Used \/ (t = New /\ Opening)
  BY <1>1, <1>2
<1>6. s = t
  BY <1>1, <1>3, <1>4, <1>5 DEF Task, OneEach
<1> QED BY <1>1, <1>6

\* A step that opens or closes descriptors of one counter, and of it alone,
\* leaves every descriptor an owner and every owner its descriptors.
LEMMA Transfer ==
  ASSUME Typed, Typed', Owning, Owned, host' = host,
         NEW s0 \in Slots, NEW c0 \in Cpus,
         \A s \in Slots, c \in Cpus : s # s0 \/ c # c0 =>
            /\ InUse(s, c)' <=> InUse(s, c)
            /\ ctr'[s][c] = ctr[s][c]
            /\ InUse(s, c) => Task(s)' = Task(s),
         \A s \in Slots, c \in Cpus, k \in Kinds :
            (s # s0 \/ c # c0) /\ InUse(s, c) /\ ctr[s][c].fd[k] # -1 =>
               SameEvent(fds'[ctr[s][c].fd[k]], fds[ctr[s][c].fd[k]]),
         \A f \in Fds : fds'[f].what = "event" =>
            \/ IsEvent(f) /\ (InUse(s0, c0) => \A k \in Kinds : ctr[s0][c0].fd[k] # f)
            \/ InUse(s0, c0)' /\ \E k \in Kinds : ctr'[s0][c0].fd[k] = f,
         \A k \in Kinds : InUse(s0, c0)' /\ ctr'[s0][c0].fd[k] # -1 =>
            IsOf(fds'[ctr'[s0][c0].fd[k]], Task(s0)', c0, k)
  PROVE  Owning' /\ Owned'
<1>0. Cpus' = Cpus /\ Fds' = Fds
  BY DEF Cpus, Fds
<1>1. ASSUME NEW s \in Slots, NEW c \in Cpus, NEW k \in Kinds,
             InUse(s, c)', ctr'[s][c].fd[k] # -1
      PROVE  IsOf(fds'[ctr'[s][c].fd[k]], Task(s)', c, k)
  <2>1. CASE s = s0 /\ c = c0
    BY <1>1, <2>1
  <2>2. CASE s # s0 \/ c # c0
    <3>1. InUse(s, c) /\ ctr'[s][c] = ctr[s][c] /\ Task(s)' = Task(s)
      BY <1>1, <2>2
    <3>2. IsOf(fds[ctr[s][c].fd[k]], Task(s), c, k)
      BY <1>1, <3>1 DEF Owning
    <3>3. SameEvent(fds'[ctr[s][c].fd[k]], fds[ctr[s][c].fd[k]])
      BY <1>1, <2>2, <3>1
    <3> QED BY <3>1, <3>2, <3>3 DEF IsOf, SameEvent
  <2> QED BY <2>1, <2>2
<1>2. Owning'
  BY <1>0, <1>1 DEF Owning
<1>3. ASSUME NEW f \in Fds, fds'[f].what = "event"
      PROVE  \E s \in Slots, c \in Cpus, k \in Kinds : InUse(s, c)' /\ ctr'[s][c].fd[k] = f
  <2>1. CASE InUse(s0, c0)' /\ \E k \in Kinds : ctr'[s0][c0].fd[k] = f
    BY <2>1
  <2>2. CASE IsEvent(f) /\ (InUse(s0, c0) => \A k \in Kinds : ctr[s0][c0].fd[k] # f)
    <3>1. PICK s \in Slots, c \in Cpus, k \in Kinds : InUse(s, c) /\ ctr[s][c].fd[k] = f
      BY <2>2 DEF Owned
    <3>2. s # s0 \/ c # c0
      BY <2>2, <3>1
    <3>3. InUse(s, c)' /\ ctr'[s][c] = ctr[s][c]
      BY <3>1, <3>2
    <3> QED BY <3>1, <3>3
  <2> QED BY <1>3, <2>1, <2>2
<1>4. Owned'
  BY <1>0, <1>3 DEF Owned, IsEvent
<1> QED BY <1>2, <1>4

\* Which counters are in use once one is done: the same.
LEMMA AfterCounterUse ==
  ASSUME Typed, Opening, pc # "leader", NEW x, AfterCounter(x), host' = host, target' = target,
         cpu = -1 /\ ~x.hw => host.cores = 0
  PROVE  /\ \A s \in Slots, c \in Cpus :
              (InUse(s, c)' <=> InUse(s, c)) /\ (InUse(s, c) => Task(s)' = Task(s))
         /\ OneEach => OneEach'
         /\ pc' # "done"
<1>0. n \in Nat /\ cpu \in -1 .. host.cores - 1 /\ host.cores \in Nat /\ New = n + 1 /\ New \in Slots
  BY HostType DEF Typed, Cpus, New, Slots, Opening
<1>1. CASE cpu < host.cores - 1 /\ (cpu >= 0 \/ x.hw)
  <2>1. cpu' = cpu + 1 /\ pc' = "leader" /\ n' = n /\ pid' = pid
    BY <1>1 DEF AfterCounter
  <2>2. New' = New /\ Used' = Used /\ Opening'
    BY <2>1 DEF New, Used, Opening
  <2>3. ASSUME NEW s \in Slots, NEW c \in Cpus PROVE InUse(s, c)' <=> InUse(s, c)
    <3>1. c \in Int
      BY DEF Cpus
    <3>2. c < cpu' <=> c < cpu \/ c = cpu
      BY <1>0, <2>1, <3>1
    <3> QED BY <2>1, <2>2, <3>2 DEF InUse, Opening
  <2>4. \A s \in Slots : Task(s)' = Task(s)
    BY <2>1, <2>2 DEF Task
  <2> QED BY <2>1, <2>2, <2>3, <2>4 DEF OneEach
<1>2. CASE ~(cpu < host.cores - 1 /\ (cpu >= 0 \/ x.hw))
  <2>1. n' = New /\ pid' = [pid EXCEPT ![New] = target] /\ pc' = "idle"
    BY <1>2 DEF AfterCounter
  <2>2. cpu = host.cores - 1
    BY <1>0, <1>2
  <2>3. New' = n + 2 /\ Used' = Used \cup {New} /\ New \notin Used
    BY <1>0, <2>1 DEF New, Used
  <2>4. ASSUME NEW s \in Slots, NEW c \in Cpus PROVE InUse(s, c)' <=> InUse(s, c)
    <3>1. c < cpu \/ c = cpu
      BY <1>0, <2>2 DEF Cpus
    <3> QED BY <2>1, <2>3, <3>1 DEF InUse, Opening
  <2>5. /\ pid'[New] = target
        /\ \A s \in Used : pid'[s] = pid[s]
    BY <1>0, <2>1, <2>3 DEF Typed, Used, Slots
  <2>6. ASSUME NEW s \in Slots, NEW c \in Cpus, InUse(s, c) PROVE Task(s)' = Task(s)
    <3>1. s \in Used \/ s = New
      BY <2>6 DEF InUse
    <3>2. s # New'
      BY <1>0, <2>3, <3>1 DEF Used
    <3> QED BY <2>3, <2>5, <3>1, <3>2 DEF Task
  <2>7. OneEach => OneEach'
    BY <2>1, <2>3, <2>5 DEF OneEach, Opening
  <2> QED BY <2>1, <2>4, <2>6, <2>7
<1> QED BY <1>1, <1>2

\* A descriptor that is opened was free; the others stay what they are.
LEMMA FreshFd ==
  ASSUME Typed, Owning, StdinKept, MayOpen
  PROVE  /\ Min(FreeFds) \in Fds /\ ~IsEvent(Min(FreeFds)) /\ Min(FreeFds) # 0
         /\ \A s \in Slots, c \in Cpus, k \in Kinds :
              InUse(s, c) /\ ctr[s][c].fd[k] # -1 => ctr[s][c].fd[k] \in Fds \ {Min(FreeFds)}
<1>1. Min(FreeFds) \in Fds /\ fds[Min(FreeFds)] = Free
  BY LowestFree
<1>2. ~IsEvent(Min(FreeFds)) /\ Min(FreeFds) # 0
  BY <1>1, KindsFree DEF IsEvent, StdinKept
<1>3. ASSUME NEW s \in Slots, NEW c \in Cpus, NEW k \in Kinds, InUse(s, c), ctr[s][c].fd[k] # -1
      PROVE  ctr[s][c].fd[k] \in Fds \ {Min(FreeFds)}
  <2>1. IsEvent(ctr[s][c].fd[k])
    BY <1>3 DEF Owning, IsOf, IsEvent
  <2> QED BY <1>2, <1>3, <2>1, DescriptorType
<1> QED BY <1>1, <1>2, <1>3

\* The leader is opened: one event more, and it is the current counter's.
LEMMA LeaderOpensInv ==
  ASSUME Typed, Typed', Inv, LeaderOpens PROVE Inv'
<1> DEFINE f == Min(FreeFds)
           x == [Unopened EXCEPT !.fd["cycles"] = f]
<1>0. Opening /\ New \in Slots /\ cpu \in Cpus /\ Cpus' = Cpus /\ Fds' = Fds /\ DOMAIN fds = Fds
  BY DEF LeaderOpens, Typed, Opening, New, Slots, Cpus, Fds
<1>1. /\ f \in Fds /\ ~IsEvent(f) /\ f # 0
      /\ \A s \in Slots, c \in Cpus, k \in Kinds :
           InUse(s, c) /\ ctr[s][c].fd[k] # -1 => ctr[s][c].fd[k] \in Fds \ {f}
  BY FreshFd DEF LeaderOpens, Inv
<1>2. x \in CtrType /\ \A k \in Kinds : x.fd[k] = IF k = "cycles" THEN f ELSE -1
  BY <1>1, CounterTypes DEF Unopened, Kinds
<1>3. /\ ctr'[New][cpu] = x
      /\ \A s \in Slots, c \in Cpus : s # New \/ c # cpu => ctr'[s][c] = ctr[s][c]
  BY <1>0, <1>2, SetCtrParts DEF LeaderOpens
<1> HIDE DEF x
<1>4. /\ fds'[f] = Event(target, cpu, "cycles", 3)
      /\ \A g \in Fds \ {f} : fds'[g] = fds[g]
  BY <1>0, <1>1 DEF LeaderOpens
<1>5. /\ pc = "leader" /\ pc' = "instr"
      /\ UNCHANGED <<host, alive, n, pid, cpu, target>>
  BY DEF LeaderOpens
<1>6. \A s \in Slots, c \in Cpus : s # New \/ c # cpu =>
         /\ InUse(s, c)' <=> InUse(s, c)
         /\ InUse(s, c) => Task(s)' = Task(s)
  BY <1>5 DEF InUse, Used, New, Task
<1>8. Owning' /\ Owned'
  <2>1. PICK s0 \in Slots, c0 \in Cpus : s0 = New /\ c0 = cpu
    BY <1>0
  <2>2. InUse(s0, c0)' /\ ~InUse(s0, c0) /\ Task(s0)' = target
    BY <1>5, <2>1 DEF InUse, Used, New, Task, Typed, Cpus
  <2>3. \A s \in Slots, c \in Cpus, k \in Kinds :
           (s # s0 \/ c # c0) /\ InUse(s, c) /\ ctr[s][c].fd[k] # -1 =>
              SameEvent(fds'[ctr[s][c].fd[k]], fds[ctr[s][c].fd[k]])
    BY <1>1, <1>4 DEF SameEvent
  <2>4. \A g \in Fds : fds'[g].what = "event" =>
           \/ IsEvent(g) /\ (InUse(s0, c0) => \A k \in Kinds : ctr[s0][c0].fd[k] # g)
           \/ InUse(s0, c0)' /\ \E k \in Kinds : ctr'[s0][c0].fd[k] = g
    BY <1>2, <1>3, <1>4, <2>1, <2>2 DEF IsEvent, Kinds
  <2>5. \A k \in Kinds : InUse(s0, c0)' /\ ctr'[s0][c0].fd[k] # -1 =>
           IsOf(fds'[ctr'[s0][c0].fd[k]], Task(s0)', c0, k)
    BY <1>2, <1>3, <1>4, <2>1, <2>2 DEF IsOf, Event, Kinds
  <2> QED BY <1>3, <1>5, <1>6, <2>1, <2>3, <2>4, <2>5, Transfer DEF Inv
<1>9. OneEach' /\ Ended' /\ StdinKept'
  BY <1>0, <1>1, <1>4, <1>5, HostType DEF Inv, OneEach, Ended, StdinKept, Opening, Used
<1> QED BY <1>8, <1>9 DEF Inv

\* The leader is not opened: nothing has changed but the counter's shape.
LEMMA LeaderFailsInv ==
  ASSUME Typed, Typed', Inv, LeaderFails PROVE Inv'
<1> DEFINE x == [Unopened EXCEPT !.hw = FALSE]
<1>0. Opening /\ New \in Slots /\ cpu \in Cpus
  BY DEF LeaderFails, Typed, Opening, New, Slots
<1>1. x \in CtrType /\ \A k \in Kinds : x.fd[k] = -1
  BY CounterTypes DEF Unopened
<1>2. /\ ctr'[New][cpu] = x
      /\ \A s \in Slots, c \in Cpus : s # New \/ c # cpu => ctr'[s][c] = ctr[s][c]
  BY <1>0, <1>1, SetCtrParts DEF LeaderFails
<1> HIDE DEF x
<1>3. /\ pc = "leader" /\ pc' = "software" /\ fds' = fds
      /\ UNCHANGED <<host, alive, n, pid, cpu, target>>
  BY DEF LeaderFails
<1>4. \A s \in Slots, c \in Cpus : s # New \/ c # cpu =>
         /\ InUse(s, c)' <=> InUse(s, c)
         /\ InUse(s, c) => Task(s)' = Task(s)
  BY <1>3 DEF InUse, Used, New, Task
<1>5. Owning' /\ Owned'
  <2>1. PICK s0 \in Slots, c0 \in Cpus : s0 = New /\ c0 = cpu
    BY <1>0
  <2>2. ~InUse(s0, c0)
    BY <1>3, <2>1 DEF InUse, Used, New, Typed, Cpus
  <2>3. \A k \in Kinds : ctr'[s0][c0].fd[k] = -1
    BY <1>1, <1>2, <2>1
  <2>4. \A g \in Fds : fds'[g].what = "event" => IsEvent(g)
    BY <1>3 DEF IsEvent
  <2>5. \A s \in Slots, c \in Cpus, k \in Kinds :
           SameEvent(fds'[ctr[s][c].fd[k]], fds[ctr[s][c].fd[k]])
    BY <1>3 DEF SameEvent
  <2> QED BY <1>2, <1>3, <1>4, <2>1, <2>2, <2>3, <2>4, <2>5, Transfer DEF Inv
<1>6. OneEach' /\ Ended' /\ StdinKept'
  BY <1>3 DEF Inv, OneEach, Ended, StdinKept, Opening, Used
<1> QED BY <1>5, <1>6 DEF Inv

\* The fallback is opened where there is no PMU, and then for no core.
LEMMA SoftwareOpensInv ==
  ASSUME PmuForCores, Typed, Halfway, Typed', Inv, SoftwareOpens PROVE Inv'
<1> DEFINE f == Min(FreeFds)
           x == [Current EXCEPT !.fd["cycles"] = f]
<1>0. Opening /\ New \in Slots /\ cpu \in Cpus /\ DOMAIN fds = Fds /\ Current \in CtrType
  BY DEF SoftwareOpens, Typed, Opening, New, Slots, Current
<1>1. /\ f \in Fds /\ ~IsEvent(f) /\ f # 0
      /\ \A s \in Slots, c \in Cpus, k \in Kinds :
           InUse(s, c) /\ ctr[s][c].fd[k] # -1 => ctr[s][c].fd[k] \in Fds \ {f}
  BY FreshFd DEF SoftwareOpens, Inv
<1>2. x \in CtrType /\ \A k \in Kinds : x.fd[k] = IF k = "cycles" THEN f ELSE -1
  <2>1. x \in CtrType /\ "cycles" \in Kinds
    BY <1>0, <1>1, CounterTypes DEF Kinds
  <2>2. \A k \in Kinds : Current.fd[k] = -1
    BY DEF Halfway, SoftwareOpens
  <2> QED BY <1>0, <2>1, <2>2 DEF CtrType
<1>3. /\ ctr'[New][cpu] = x
      /\ \A s \in Slots, c \in Cpus : s # New \/ c # cpu => ctr'[s][c] = ctr[s][c]
  BY <1>0, <1>2, SetCtrParts DEF SoftwareOpens
<1>4. /\ fds'[f] = Event(target, cpu, "cycles", 3)
      /\ \A g \in Fds \ {f} : fds'[g] = fds[g]
  BY <1>0, <1>1 DEF SoftwareOpens
<1>5. pc = "software" /\ AfterCounter(x) /\ UNCHANGED <<host, alive, target>>
  BY DEF SoftwareOpens
<1> HIDE DEF x
<1>6. host.cores = 0
  BY DEF Halfway, SoftwareOpens, PmuForCores, Typed
<1>7. /\ \A s \in Slots, c \in Cpus :
            (InUse(s, c)' <=> InUse(s, c)) /\ (InUse(s, c) => Task(s)' = Task(s))
      /\ OneEach' /\ pc' # "done"
  BY <1>0, <1>5, <1>6, AfterCounterUse DEF Inv
<1>8. Owning' /\ Owned'
  <2>1. PICK s0 \in Slots, c0 \in Cpus : s0 = New /\ c0 = cpu
    BY <1>0
  <2>2. InUse(s0, c0) /\ Task(s0) = target /\ ctr[s0][c0] = Current
    BY <1>5, <2>1 DEF InUse, Task, Current
  <2>3. InUse(s0, c0)' /\ Task(s0)' = target
    BY <1>7, <2>2
  <2>4. \A s \in Slots, c \in Cpus, k \in Kinds :
           (s # s0 \/ c # c0) /\ InUse(s, c) /\ ctr[s][c].fd[k] # -1 =>
              SameEvent(fds'[ctr[s][c].fd[k]], fds[ctr[s][c].fd[k]])
    BY <1>1, <1>4 DEF SameEvent
  <2>5. \A k \in Kinds : ctr[s0][c0].fd[k] = -1
    BY <1>5, <2>2 DEF Halfway
  <2>6. \A g \in Fds : fds'[g].what = "event" =>
           \/ IsEvent(g) /\ (InUse(s0, c0) => \A k \in Kinds : ctr[s0][c0].fd[k] # g)
           \/ InUse(s0, c0)' /\ \E k \in Kinds : ctr'[s0][c0].fd[k] = g
    <3> SUFFICES ASSUME NEW g \in Fds, fds'[g].what = "event", g # f
                 PROVE  IsEvent(g) /\ \A k \in Kinds : ctr[s0][c0].fd[k] # g
      BY <1>2, <1>3, <2>1, <2>3 DEF Kinds
    <3>1. g # -1
      BY DEF Fds
    <3> QED BY <1>4, <2>5, <3>1 DEF IsEvent
  <2>7. \A k \in Kinds : InUse(s0, c0)' /\ ctr'[s0][c0].fd[k] # -1 =>
           IsOf(fds'[ctr'[s0][c0].fd[k]], Task(s0)', c0, k)
    BY <1>2, <1>3, <1>4, <2>1, <2>3 DEF IsOf, Event, Kinds
  <2> QED BY <1>3, <1>5, <1>7, <2>1, <2>4, <2>6, <2>7, Transfer DEF Inv
<1>9. Ended' /\ StdinKept'
  BY <1>1, <1>4, <1>7, HostType DEF Inv, Ended, StdinKept
<1> QED BY <1>7, <1>8, <1>9 DEF Inv

\* A member is opened: an event more, and the leader remains the same event.
LEMMA MemberJoinsInv ==
  ASSUME Typed, Halfway, Typed', Inv, NEW j \in {"instr", "llc"}, MemberJoins(j) PROVE Inv'
<1> DEFINE f == Min(FreeFds)
           g == Current.fd["cycles"]
           x == [Current EXCEPT !.fd[j] = f]
<1>0. /\ Opening /\ New \in Slots /\ cpu \in Cpus /\ Current \in CtrType
      /\ j \in Kinds /\ "cycles" \in Kinds /\ j # "cycles"
  BY DEF MemberJoins, Typed, Opening, New, Slots, Current, Kinds
<1>1. /\ f \in Fds /\ ~IsEvent(f) /\ f # 0
      /\ \A s \in Slots, c \in Cpus, k \in Kinds :
           InUse(s, c) /\ ctr[s][c].fd[k] # -1 => ctr[s][c].fd[k] \in Fds \ {f}
  BY FreshFd DEF MemberJoins, Inv
<1>2. /\ g \in Fds /\ IsEvent(g) /\ Current.hw /\ Current.fd[j] = -1
      /\ pc = j
  BY DEF Halfway, MemberJoins
<1>3. x \in CtrType /\ x.hw /\ \A k \in Kinds : x.fd[k] = IF k = j THEN f ELSE Current.fd[k]
  <2>1. x \in CtrType
    BY <1>0, <1>1, CounterTypes
  <2> QED BY <1>0, <1>2, <2>1 DEF CtrType
<1>4. /\ ctr'[New][cpu] = x
      /\ \A s \in Slots, c \in Cpus : s # New \/ c # cpu => ctr'[s][c] = ctr[s][c]
  BY <1>0, <1>3, SetCtrParts DEF MemberJoins
<1>5. /\ fds'[f] = Event(target, cpu, j, 1)
      /\ fds'[g] = [fds[g] EXCEPT !.size = @ + 2]
      /\ \A h \in Fds \ {f, g} : fds'[h] = fds[h]
  BY <1>0, <1>1, <1>2, JoinedParts DEF MemberJoins
<1>6. SameEvent(fds'[g], fds[g])
  <2>1. fds[g] \in FdType \ {Free, Stdin}
    BY <1>2, KindsFree DEF IsEvent, Typed
  <2> QED BY <1>5, <2>1 DEF SameEvent, FdType
<1>7. /\ UNCHANGED <<host, alive, target>>
      /\ j = "llc" => AfterCounter(x)
      /\ j = "instr" => pc' = "llc" /\ UNCHANGED <<n, pid, cpu>>
  BY DEF MemberJoins
<1> HIDE DEF x
<1>8. /\ \A s \in Slots, c \in Cpus :
            (InUse(s, c)' <=> InUse(s, c)) /\ (InUse(s, c) => Task(s)' = Task(s))
      /\ OneEach' /\ pc' # "done"
  <2>1. CASE j = "llc"
    BY <1>0, <1>2, <1>3, <1>7, <2>1, AfterCounterUse DEF Inv
  <2>2. CASE j = "instr"
    BY <1>2, <1>7, <2>2 DEF Inv, OneEach, Opening, InUse, Used, New, Task
  <2> QED BY <2>1, <2>2
<1>9. Owning' /\ Owned'
  <2>1. PICK s0 \in Slots, c0 \in Cpus : s0 = New /\ c0 = cpu
    BY <1>0
  <2>2. InUse(s0, c0) /\ Task(s0) = target /\ ctr[s0][c0] = Current
    BY <1>2, <2>1 DEF InUse, Task, Current
  <2>3. InUse(s0, c0)' /\ Task(s0)' = target
    BY <1>8, <2>2
  <2>4. \A s \in Slots, c \in Cpus, k \in Kinds : InUse(s, c) /\ ctr[s][c].fd[k] # -1 =>
           SameEvent(fds'[ctr[s][c].fd[k]], fds[ctr[s][c].fd[k]])
    <3>1. \A h \in Fds \ {f, g} : SameEvent(fds'[h], fds[h])
      BY <1>5 DEF SameEvent
    <3>2. \A h \in Fds \ {f} : SameEvent(fds'[h], fds[h])
      BY <1>6, <3>1
    <3> QED BY <1>1, <3>2
  <2>5. \A h \in Fds : fds'[h].what = "event" => h = f \/ IsEvent(h)
    BY <1>2, <1>5 DEF IsEvent
  <2>6. \A h \in Fds : fds'[h].what = "event" =>
           \/ IsEvent(h) /\ (InUse(s0, c0) => \A k \in Kinds : ctr[s0][c0].fd[k] # h)
           \/ InUse(s0, c0)' /\ \E k \in Kinds : ctr'[s0][c0].fd[k] = h
    <3> SUFFICES ASSUME NEW h \in Fds, IsEvent(h), NEW k \in Kinds, Current.fd[k] = h
                 PROVE  ctr'[s0][c0].fd[k] = h
      BY <1>0, <1>3, <1>4, <2>1, <2>2, <2>3, <2>5
    <3>1. k # j
      BY <1>2 DEF Fds
    <3> QED BY <1>3, <1>4, <2>1, <3>1
  <2>7. \A k \in Kinds : InUse(s0, c0)' /\ ctr'[s0][c0].fd[k] # -1 =>
           IsOf(fds'[ctr'[s0][c0].fd[k]], Task(s0)', c0, k)
    <3> SUFFICES ASSUME NEW k \in Kinds, x.fd[k] # -1 PROVE IsOf(fds'[x.fd[k]], target, c0, k)
      BY <1>4, <2>1, <2>3
    <3>1. CASE k = j
      BY <1>3, <1>5, <2>1, <3>1 DEF IsOf, Event
    <3>2. CASE k # j
      <4>1. x.fd[k] = Current.fd[k] /\ Current.fd[k] # -1
        BY <1>3, <3>2
      <4>2. IsOf(fds[Current.fd[k]], target, c0, k)
        BY <2>2, <4>1 DEF Inv, Owning
      <4> QED BY <2>2, <2>4, <4>1, <4>2 DEF IsOf, SameEvent
    <3> QED BY <3>1, <3>2
  <2> QED BY <1>4, <1>7, <1>8, <2>1, <2>4, <2>6, <2>7, Transfer DEF Inv
<1>10. 0 # g /\ 0 \in Fds
  BY <1>2, KindsFree, HostType DEF Inv, StdinKept, IsEvent
<1>11. Ended' /\ StdinKept'
  BY <1>1, <1>5, <1>8, <1>10 DEF Inv, Ended, StdinKept
<1> QED BY <1>8, <1>9, <1>11 DEF Inv

\* What perf_counter_close closes, of the counter that is opened, is its own.
LEMMA GivesUpInv ==
  ASSUME PmuForCores, Typed, Halfway, Typed', Inv, GivesUp PROVE Inv'
<1>0. Opening /\ New \in Slots /\ cpu \in Cpus /\ Current \in CtrType /\ pc # "leader"
  BY DEF GivesUp, Typed, Opening, New, Slots, Current
<1>1. Closed \in CtrType /\ ~Closed.hw /\ \A k \in Kinds : Closed.fd[k] = -1
  BY CounterTypes DEF Closed
<1>2. /\ ctr'[New][cpu] = Closed
      /\ \A s \in Slots, c \in Cpus : s # New \/ c # cpu => ctr'[s][c] = ctr[s][c]
  BY <1>0, <1>1, SetCtrParts DEF GivesUp
<1>3. AfterFailure /\ UNCHANGED <<host, alive, target>>
  BY DEF GivesUp
<1>4. PICK s0 \in Slots, c0 \in Cpus : s0 = New /\ c0 = cpu
  BY <1>0
<1>5. InUse(s0, c0) /\ Task(s0) = target /\ ctr[s0][c0] = Current
  BY <1>0, <1>4 DEF InUse, Task, Current, Opening
<1>6. \A h \in Fds : fds'[h] = IF \E k \in Kinds : Current.fd[k] = h THEN Free ELSE fds[h]
  <2>1. CASE pc = "software"
    <3>1. \A k \in Kinds : Current.fd[k] = -1
      BY <2>1 DEF Halfway
    <3>2. -1 \notin Fds /\ fds' = fds
      BY <2>1 DEF GivesUp, Fds
    <3> QED BY <3>1, <3>2
  <2>2. CASE pc # "software"
    BY <2>2 DEF GivesUp, FdsAfterClose
  <2> QED BY <2>1, <2>2
<1>7. /\ \A s \in Slots, c \in Cpus : s # s0 \/ c # c0 =>
            (InUse(s, c)' <=> InUse(s, c)) /\ (InUse(s, c) => Task(s)' = Task(s))
      /\ OneEach' /\ pc' # "done"
  <2>1. CASE cpu = -1
    <3>1. pc' = "idle" /\ UNCHANGED <<n, pid, cpu>>
      BY <1>3, <2>1 DEF AfterFailure
    <3>2. \A c \in Cpus : c < cpu => FALSE
      BY <2>1 DEF Cpus
    <3> QED BY <1>3, <1>4, <3>1, <3>2 DEF InUse, Used, New, Task, Inv, OneEach, Opening
  <2>2. CASE cpu # -1
    <3>1. AfterCounter(Closed)
      BY <1>3, <2>2 DEF AfterFailure
    <3> QED BY <1>0, <1>3, <2>2, <3>1, AfterCounterUse DEF Inv
  <2> QED BY <2>1, <2>2
<1>8. Owning' /\ Owned'
  <2>1. ASSUME NEW s \in Slots, NEW c \in Cpus, NEW k \in Kinds,
               s # s0 \/ c # c0, InUse(s, c), ctr[s][c].fd[k] # -1
        PROVE  SameEvent(fds'[ctr[s][c].fd[k]], fds[ctr[s][c].fd[k]])
    <3>1. \A j \in Kinds : Current.fd[j] # ctr[s][c].fd[k]
      BY <1>5, <2>1, OneOwner DEF Inv
    <3>2. ctr[s][c].fd[k] \in Fds
      BY <2>1, DescriptorType
    <3> QED BY <1>6, <3>1, <3>2 DEF SameEvent
  <2>2. \A h \in Fds : fds'[h].what = "event" =>
           IsEvent(h) /\ \A k \in Kinds : ctr[s0][c0].fd[k] # h
    BY <1>5, <1>6, KindsFree DEF IsEvent
  <2>3. \A k \in Kinds : ctr'[s0][c0].fd[k] = -1
    BY <1>1, <1>2, <1>4
  <2> QED BY <1>2, <1>3, <1>4, <1>7, <2>1, <2>2, <2>3, Transfer DEF Inv
<1>9. 0 \in Fds /\ \A k \in Kinds : Current.fd[k] # 0
  <2>1. ASSUME NEW k \in Kinds, Current.fd[k] = 0 PROVE FALSE
    <3>1. IsOf(fds[0], target, cpu, k)
      BY <1>4, <1>5, <2>1 DEF Inv, Owning
    <3> QED BY <3>1, KindsFree DEF IsOf, Inv, StdinKept
  <2> QED BY <2>1, HostType
<1>10. Ended' /\ StdinKept'
  BY <1>6, <1>7, <1>9 DEF Inv, Ended, StdinKept
<1> QED BY <1>7, <1>8, <1>10 DEF Inv

\* Outside add_pid the counters in use are those of the slots in use.
LEMMA IdleUse ==
  ASSUME Typed, ~Opening
  PROVE  /\ Used \subseteq Slots
         /\ \A s \in Slots, c \in Cpus : InUse(s, c) <=> s \in Used
         /\ \A s \in Used : Task(s) = pid[s]
BY DEF InUse, Opening, Typed, Used, Slots, Task, New

\* remove_slot closes its slot's descriptors and no other's, and the last slot,
\* moved to its place, takes its own along.
LEMMA LeavesInv ==
  ASSUME Typed, Typed', Inv, NEW s \in Slots, Leaves(s) PROVE Inv'
<1>0. /\ ~Opening /\ ~Opening' /\ pc' # "done" /\ s \in Used /\ s # New
      /\ Cpus' = Cpus /\ Fds' = Fds /\ n \in Nat
  BY DEF Leaves, RemoveSlot, Opening, Typed, Used, Cpus, Fds, New
<1>1. /\ n \in Slots /\ n' = n - 1
      /\ s # n => ctr'[s] = ctr[n] /\ pid'[s] = pid[n]
      /\ \A t \in Slots \ {s} : ctr'[t] = ctr[t] /\ pid'[t] = pid[t]
  BY RemoveSlotParts DEF Leaves
<1>2. Used = Used' \cup {n} /\ n \notin Used'
  BY <1>0, <1>1 DEF Used, Slots
<1>3. /\ Used \subseteq Slots
      /\ \A t \in Slots, c \in Cpus : InUse(t, c) <=> t \in Used
      /\ \A t \in Used : Task(t) = pid[t]
  BY <1>0, IdleUse
<1>4. /\ \A t \in Slots, c \in Cpus : InUse(t, c)' <=> t \in Used'
      /\ \A t \in Used' : Task(t)' = pid'[t]
  BY <1>0, <1>1 DEF InUse, Opening, Used, Task, New, Slots
<1>5. ASSUME NEW t \in Used'
      PROVE  \E u \in Used \ {s} : ctr'[t] = ctr[u] /\ pid'[t] = pid[u]
  BY <1>0, <1>1, <1>2, <1>3, <1>5
<1>6. \A u \in Used \ {s} : \E t \in Used' : ctr'[t] = ctr[u] /\ pid'[t] = pid[u]
  BY <1>0, <1>1, <1>2, <1>3
<1>7. \A h \in Fds :
        fds'[h] = IF \E c \in Cpus, k \in Kinds : ctr[s][c].fd[k] = h THEN Free ELSE fds[h]
  BY DEF Leaves, RemoveSlot, FdsAfterCloseAll
<1>8. ASSUME NEW u \in Used \ {s}, NEW c \in Cpus, NEW k \in Kinds, ctr[u][c].fd[k] # -1
      PROVE  fds'[ctr[u][c].fd[k]] = fds[ctr[u][c].fd[k]]
  <2>1. ctr[u][c].fd[k] \in Fds
    BY <1>3, <1>8, DescriptorType
  <2>2. \A d \in Cpus, j \in Kinds : ctr[s][d].fd[j] # ctr[u][c].fd[k]
    BY <1>0, <1>3, <1>8, OneOwner DEF Inv
  <2> QED BY <1>7, <2>1, <2>2
<1>9. Owning'
  <2> SUFFICES ASSUME NEW t \in Slots, NEW c \in Cpus, NEW k \in Kinds,
                      t \in Used', ctr'[t][c].fd[k] # -1
               PROVE  IsOf(fds'[ctr'[t][c].fd[k]], pid'[t], c, k)
    BY <1>0, <1>4 DEF Owning
  <2>1. PICK u \in Used \ {s} : ctr'[t] = ctr[u] /\ pid'[t] = pid[u]
    BY <1>5
  <2>2. IsOf(fds[ctr[u][c].fd[k]], pid[u], c, k)
    BY <1>3, <2>1 DEF Inv, Owning
  <2> QED BY <1>8, <2>1, <2>2
<1>10. Owned'
  <2> SUFFICES ASSUME NEW h \in Fds, fds'[h].what = "event"
               PROVE  \E t \in Slots, c \in Cpus, k \in Kinds : t \in Used' /\ ctr'[t][c].fd[k] = h
    BY <1>0, <1>4 DEF Owned, IsEvent
  <2>1. IsEvent(h) /\ \A c \in Cpus, k \in Kinds : ctr[s][c].fd[k] # h
    BY <1>7, KindsFree DEF IsEvent
  <2>2. PICK u \in Used, c \in Cpus, k \in Kinds : ctr[u][c].fd[k] = h
    BY <1>3, <2>1 DEF Inv, Owned
  <2>3. PICK t \in Used' : ctr'[t] = ctr[u]
    BY <1>6, <2>1, <2>2
  <2> QED BY <1>2, <1>3, <2>2, <2>3
<1>11. OneEach'
  <2> SUFFICES ASSUME NEW t \in Used', NEW u \in Used', pid'[t] = pid'[u] PROVE t = u
    BY <1>0 DEF OneEach
  <2> DEFINE from(v) == IF v = s THEN n ELSE v
  <2>1. \A v \in Used' : from(v) \in Used /\ pid'[v] = pid[from(v)]
    BY <1>0, <1>1, <1>2, <1>3
  <2>2. from(t) = from(u)
    BY <2>1 DEF Inv, OneEach
  <2> QED BY <1>2, <2>2
<1>12. Ended' /\ StdinKept'
  <2>1. ASSUME NEW c \in Cpus, NEW k \in Kinds, ctr[s][c].fd[k] = 0 PROVE FALSE
    <3>1. IsOf(fds[0], Task(s), c, k)
      BY <1>0, <1>3, <2>1 DEF Inv, Owning
    <3> QED BY <3>1, KindsFree DEF IsOf, Inv, StdinKept
  <2>2. fds'[0] = fds[0]
    BY <1>7, <2>1, HostType
  <2> QED BY <1>0, <2>2 DEF Inv, Ended, StdinKept
<1> QED BY <1>9, <1>10, <1>11, <1>12 DEF Inv

\* cleanup closes what is open.
LEMMA CleanupInv ==
  ASSUME Typed, Typed', Inv, Cleanup PROVE Inv'
<1>0. /\ ~Opening /\ ~Opening' /\ Cpus' = Cpus /\ Fds' = Fds
      /\ UNCHANGED <<n, pid, target>>
  BY DEF Cleanup, Opening, Cpus, Fds
<1>1. /\ Used \subseteq Slots
      /\ \A t \in Slots, c \in Cpus : InUse(t, c) <=> t \in Used
  BY <1>0, IdleUse
<1>2. \A t \in Slots, c \in Cpus : InUse(t, c)' <=> t \in Used
  BY <1>0 DEF InUse, Opening, Used
<1>3. \A t \in Used, c \in Cpus, k \in Kinds : ctr'[t][c].fd[k] = -1
  BY CleanupParts DEF Closed
<1>4. \A h \in Fds : fds'[h] =
        IF \E t \in Used, c \in Cpus, k \in Kinds : ctr[t][c].fd[k] = h THEN Free ELSE fds[h]
  <2>1. fds' = FdsAfterCloseAll({ctr[t][c] : t \in Used, c \in Cpus})
    BY DEF Cleanup
  <2> QED BY <2>1 DEF FdsAfterCloseAll
<1>5. ASSUME NEW h \in Fds, fds'[h].what = "event" PROVE FALSE
  <2>1. IsEvent(h) /\ ~\E t \in Used, c \in Cpus, k \in Kinds : ctr[t][c].fd[k] = h
    BY <1>4, <1>5, KindsFree DEF IsEvent
  <2> QED BY <1>1, <2>1 DEF Inv, Owned
<1>6. Owning' /\ Owned' /\ Ended'
  BY <1>0, <1>1, <1>2, <1>3, <1>5 DEF Owning, Owned, Ended, IsEvent
<1>7. OneEach'
  BY <1>0 DEF Inv, OneEach, Used
<1>8. StdinKept'
  <2>1. ASSUME NEW t \in Used, NEW c \in Cpus, NEW k \in Kinds, ctr[t][c].fd[k] = 0 PROVE FALSE
    <3>1. IsOf(fds[0], Task(t), c, k)
      BY <1>1, <2>1 DEF Inv, Owning
    <3> QED BY <3>1, KindsFree DEF IsOf, Inv, StdinKept
  <2>2. fds'[0] = fds[0]
    BY <1>4, <2>1, HostType
  <2> QED BY <2>2 DEF Inv, StdinKept
<1> QED BY <1>6, <1>7, <1>8 DEF Inv

\* add_pid starts on a slot that no counter in use is of, for a process that
\* has none.
LEMMA AddPidInv ==
  ASSUME Typed, Inv, NEW p \in Procs, AddPid(p) PROVE Inv'
<1>0. /\ ~Opening /\ Opening' /\ Cpus' = Cpus /\ Fds' = Fds /\ Used' = Used /\ New' = New
      /\ pc' # "done" /\ cpu' = -1 /\ pc' = "leader" /\ target' = p
      /\ UNCHANGED <<fds, pid>>
  BY DEF AddPid, Opening, Cpus, Fds, Used, New
<1>1. /\ Used \subseteq Slots /\ New \notin Used
      /\ \A s \in Slots, c \in Cpus : InUse(s, c) <=> s \in Used
      /\ \A s \in Used : Task(s) = pid[s]
  BY <1>0, IdleUse DEF Typed, Used, New
<1>2. \A s \in Slots : s # New => ctr'[s] = ctr[s]
  BY AddPidParts
<1>3. \A s \in Slots, c \in Cpus : InUse(s, c)' <=> s \in Used
  <2>1. \A c \in Cpus : ~(c < cpu')
    BY <1>0 DEF Cpus
  <2> QED BY <1>0, <2>1 DEF InUse
<1>4. \A s \in Used : Task(s)' = pid[s]
  BY <1>0, <1>1 DEF Task
<1>5. Owning'
  BY <1>0, <1>1, <1>2, <1>3, <1>4 DEF Inv, Owning
<1>6. Owned'
  BY <1>0, <1>1, <1>2, <1>3 DEF Inv, Owned, IsEvent
<1>7. OneEach'
  <2>1. \A s \in Used : pid[s] # p
    BY DEF AddPid
  <2> QED BY <1>0, <2>1 DEF Inv, OneEach
<1>8. Ended' /\ StdinKept'
  BY <1>0 DEF Inv, Ended, StdinKept
<1> QED BY <1>5, <1>6, <1>7, <1>8 DEF Inv

\* A process that exits leaves its events behind.
LEMMA SameInv ==
  ASSUME Inv, UNCHANGED <<host, fds, n, pid, ctr, pc, cpu, target>> PROVE Inv'
<1>1. Cpus' = Cpus /\ Fds' = Fds /\ Used' = Used /\ New' = New /\ Opening' = Opening
  BY DEF Cpus, Fds, Used, New, Opening
<1>2. \A s \in Slots, c \in Cpus : InUse(s, c)' <=> InUse(s, c)
  BY <1>1 DEF InUse
<1>3. \A s \in Slots : Task(s)' = Task(s)
  BY <1>1 DEF Task
<1>4. Owning' /\ Owned'
  BY <1>1, <1>2, <1>3 DEF Inv, Owning, Owned, IsEvent
<1>5. OneEach' /\ Ended' /\ StdinKept'
  BY <1>1 DEF Inv, OneEach, Ended, StdinKept, IsEvent
<1> QED BY <1>4, <1>5 DEF Inv

\* No slot is in use at the start, and no event open.
LEMMA InvInit == Init => Inv
<1> SUFFICES ASSUME Init PROVE Inv
  OBVIOUS
<1>1. Typed
  BY TypedInit
<1>2. Used = {} /\ ~Opening /\ pc = "idle"
  BY DEF Init, Used, Opening
<1>3. \A s \in Slots, c \in Cpus : ~InUse(s, c)
  BY <1>1, <1>2, IdleUse
<1>4. \A f \in Fds : ~IsEvent(f)
  BY KindsFree DEF Init, IsEvent
<1>5. StdinKept
  BY <1>1, HostType DEF Init, StdinKept
<1> QED BY <1>2, <1>3, <1>4, <1>5 DEF Inv, Owning, Owned, OneEach, Ended

\* Every step keeps Inv.
LEMMA InvInductive ==
  ASSUME PmuForCores PROVE Typed /\ Halfway /\ Typed' /\ Inv /\ [Next]_vars => Inv'
<1> SUFFICES ASSUME Typed, Halfway, Typed', Inv, [Next]_vars PROVE Inv'
  OBVIOUS
<1>1. CASE Open
  BY <1>1, OpenOutcomes, LeaderOpensInv, LeaderFailsInv, SoftwareOpensInv, GivesUpInv,
     MemberJoinsInv
<1>2. ASSUME NEW p \in Procs, AddPid(p) PROVE Inv'
  BY <1>2, AddPidInv
<1>3. ASSUME NEW p \in Procs, ExitProc(p) PROVE Inv'
  BY <1>3, SameInv DEF ExitProc
<1>4. ASSUME NEW s \in Slots, Leaves(s) PROVE Inv'
  BY <1>4, LeavesInv
<1>5. CASE Cleanup
  BY <1>5, CleanupInv
<1>6. CASE UNCHANGED vars
  BY <1>6, SameInv DEF vars
<1> QED BY <1>1, <1>2, <1>3, <1>4, <1>5, <1>6, NextCases

\* The invariant the theorems below are drawn from.
LEMMA InvHolds == ASSUME PmuForCores PROVE Spec => [](Typed /\ Inv)
<1>1. Init => Typed /\ Halfway /\ Inv
  BY TypedInit, InvInit
<1>2. Typed /\ Halfway /\ Inv /\ [Next]_vars => Typed' /\ Halfway' /\ Inv'
  BY TypedInductive, InvInductive
<1> QED BY <1>1, <1>2, PTL DEF Spec

\* A counter's descriptors are events of its own process, cpu and kind, however
\* slots are moved and descriptor numbers used again.
THEOREM CountersOwn == ASSUME PmuForCores PROVE Spec => []OwnEvents
<1>1. Typed /\ Inv => OwnEvents
  <2> SUFFICES ASSUME Typed, Inv, NEW r \in Live, FdOf(r) >= 0
               PROVE  IsOf(fds[FdOf(r)], TaskOf(r), r[2], r[3])
    BY DEF OwnEvents, IsOf
  <2>1. r[1] \in Slots /\ r[2] \in Cpus /\ r[3] \in Kinds /\ InUse(r[1], r[2])
    BY DEF Live
  <2>2. ctr[r[1]][r[2]].fd[r[3]] # -1
    BY DEF FdOf
  <2> QED BY <2>1, <2>2 DEF Inv, Owning, FdOf, TaskOf, Task
<1> QED BY <1>1, InvHolds, PTL

\* Every open event is referred to by one counter, in use or being opened, and
\* after cleanup none is open: no failed open, no slot moved over another and no
\* end of the daemon leaks a descriptor.
THEOREM NoneLeaked == ASSUME PmuForCores PROVE Spec => []NoFdLeak
<1>1. Typed /\ Inv => NoFdLeak
  <2> SUFFICES ASSUME Typed, Inv, NEW f \in Fds, IsEvent(f)
               PROVE  Cardinality({r \in Live : FdOf(r) = f}) = 1 /\ pc # "done"
    BY DEF NoFdLeak
  <2>1. pc # "done"
    BY DEF Inv, Ended
  <2>2. PICK s \in Slots, c \in Cpus, k \in Kinds : InUse(s, c) /\ ctr[s][c].fd[k] = f
    BY DEF Inv, Owned
  <2>3. <<s, c, k>> \in Live /\ FdOf(<<s, c, k>>) = f
    BY <2>2 DEF Live, FdOf
  <2>4. ASSUME NEW r \in Live, FdOf(r) = f PROVE r = <<s, c, k>>
    <3>1. r[1] \in Slots /\ r[2] \in Cpus /\ r[3] \in Kinds /\ InUse(r[1], r[2])
          /\ r = <<r[1], r[2], r[3]>>
      BY DEF Live
    <3>2. f # -1 /\ ctr[r[1]][r[2]].fd[r[3]] = f
      BY <2>4 DEF FdOf, Fds
    <3>3. s = r[1] /\ c = r[2] /\ k = r[3]
      BY <2>2, <3>1, <3>2, OneOwner DEF Inv
    <3> QED BY <3>1, <3>3
  <2>5. {r \in Live : FdOf(r) = f} = {<<s, c, k>>}
    BY <2>3, <2>4
  <2> QED BY <2>1, <2>5, FS_Singleton
<1> QED BY <1>1, InvHolds, PTL

-----------------------------------------------------------------------------
(* Reading a counter *)

\* No event needs a larger read than a group of three, and a hardware counter
\* has its leader.
Sized  == \A f \in Fds : IsEvent(f) => fds[f].size <= 7
Backed == \A s \in Slots, c \in Cpus : ctr[s][c].hw => ctr[s][c].fd["cycles"] # -1

\* The machine does not change.
LEMMA HostStays == [Next]_vars => host' = host
<1>1. Open => host' = host
  BY DEF Open, OpenLeader, OpenSoftware, OpenMember
<1>2. ASSUME NEW p \in Procs PROVE AddPid(p) \/ ExitProc(p) => host' = host
  BY DEF AddPid, ExitProc
<1>3. ASSUME NEW s \in Slots PROVE Leaves(s) => host' = host
  BY DEF Leaves, RemoveSlot
<1> QED BY <1>1, <1>2, <1>3, NextCases DEF Cleanup, vars

\* Every step keeps Sized.
LEMMA SizedInductive ==
  ASSUME Typed, Halfway, Sized, [Next]_vars PROVE Sized'
<1> USE DEF Kinds
<1>0. Fds' = Fds
  BY HostStays DEF Fds
<1>1. ASSUME \A f \in Fds : fds'[f] \in {fds[f], Free} PROVE Sized'
  BY <1>0, <1>1, KindsFree DEF Sized, IsEvent
<1>2. ASSUME MayOpen, fds' = [fds EXCEPT ![Min(FreeFds)] = Event(target, cpu, "cycles", 3)]
      PROVE  Sized'
  <2>1. \A f \in Fds : fds'[f] = fds[f] \/ fds'[f] = Event(target, cpu, "cycles", 3)
    BY <1>2, LowestFree DEF Typed
  <2> QED BY <1>0, <2>1 DEF Sized, IsEvent, Event
<1>3. ASSUME NEW k \in {"instr", "llc"}, MemberJoins(k) PROVE Sized'
  <2> DEFINE f == Min(FreeFds)
             g == Current.fd["cycles"]
  <2>1. f \in Fds /\ fds[f] = Free
    BY <1>3, LowestFree DEF MemberJoins
  <2>2. /\ g \in Fds /\ IsEvent(g) /\ fds[g].size <= 5
        /\ fds[g] \in FdType \ {Free, Stdin}
    <3>1. g \in Fds /\ IsEvent(g) /\ (fds[g].size <= 3 \/ fds[g].size <= 5)
      BY <1>3 DEF Halfway, MemberJoins
    <3>2. fds[g] \in FdType \ {Free, Stdin}
      BY <3>1, KindsFree DEF Typed, IsEvent
    <3>3. fds[g].size \in Nat
      BY <3>2 DEF FdType
    <3> QED BY <3>1, <3>2, <3>3
  <2>3. f # g
    BY <2>1, <2>2, KindsFree DEF IsEvent
  <2>4. /\ fds'[f] = Event(target, cpu, k, 1)
        /\ fds'[g] = [fds[g] EXCEPT !.size = @ + 2]
        /\ \A x \in Fds \ {f, g} : fds'[x] = fds[x]
    BY <1>3, <2>1, <2>2, <2>3, JoinedParts DEF MemberJoins
  <2>5. fds'[g].size <= 7
    BY <2>2, <2>4 DEF FdType
  <2>6. fds'[f].size <= 7
    BY <2>4 DEF Event
  <2> QED BY <1>0, <2>4, <2>5, <2>6 DEF Sized, IsEvent
<1>4. CASE LeaderOpens
  BY <1>2, <1>4 DEF LeaderOpens
<1>5. CASE SoftwareOpens
  BY <1>2, <1>5 DEF SoftwareOpens
<1>6. CASE LeaderFails
  BY <1>1, <1>6 DEF LeaderFails
<1>7. CASE GivesUp
  BY <1>1, <1>7 DEF GivesUp, FdsAfterClose
<1>8. ASSUME NEW p \in Procs, AddPid(p) \/ ExitProc(p) PROVE Sized'
  BY <1>1, <1>8 DEF AddPid, ExitProc
<1>9. ASSUME NEW s \in Slots, Leaves(s) PROVE Sized'
  BY <1>1, <1>9 DEF Leaves, RemoveSlot, FdsAfterCloseAll
<1>10. CASE Cleanup
  BY <1>1, <1>10 DEF Cleanup, FdsAfterCloseAll
<1>11. CASE UNCHANGED vars
  BY <1>1, <1>11 DEF vars
<1> QED BY <1>3, <1>4, <1>5, <1>6, <1>7, <1>8, <1>9, <1>10, <1>11, NextCases, OpenOutcomes

\* Every step leaves a counter as it was, or as some other, or has it without
\* hardware or with a leader.
LEMMA BackedInductive ==
  ASSUME Typed, Halfway, Backed, [Next]_vars PROVE Backed'
<1> USE DEF Kinds
<1> DEFINE Good(c) == c.hw => c.fd["cycles"] # -1
<1>0. Cpus' = Cpus
  BY HostStays DEF Cpus
<1>1. ASSUME NEW x \in CtrType, Good(x), SetCtr(x), Opening PROVE Backed'
  BY <1>0, <1>1, SetCtrParts DEF Backed
<1>2. CASE LeaderOpens
  <2> DEFINE x == [Unopened EXCEPT !.fd["cycles"] = Min(FreeFds)]
  <2>1. Opening /\ Min(FreeFds) \in Fds /\ x \in CtrType
    BY <1>2, LowestFree, CounterTypes DEF LeaderOpens, Opening
  <2>2. x.fd["cycles"] = Min(FreeFds) /\ -1 \notin Fds
    BY DEF Unopened, Fds
  <2>3. Good(x) /\ SetCtr(x)
    BY <1>2, <2>1, <2>2 DEF LeaderOpens
  <2> HIDE DEF x
  <2> QED BY <1>1, <2>1, <2>3
<1>3. CASE LeaderFails
  <2> DEFINE x == [Unopened EXCEPT !.hw = FALSE]
  <2>1. Opening /\ x \in CtrType /\ SetCtr(x)
    BY <1>3, CounterTypes DEF LeaderFails, Opening
  <2>2. ~x.hw
    BY DEF Unopened
  <2> HIDE DEF x
  <2> QED BY <1>1, <2>1, <2>2
<1>4. CASE SoftwareOpens
  <2> DEFINE x == [Current EXCEPT !.fd["cycles"] = Min(FreeFds)]
  <2>1. Opening /\ Min(FreeFds) \in Fds /\ -1 \notin Fds
    BY <1>4, LowestFree DEF SoftwareOpens, Opening, Fds
  <2>2. Current \in CtrType
    BY <2>1 DEF Typed, Current, New, Slots
  <2>3. x \in CtrType /\ SetCtr(x)
    BY <1>4, <2>1, <2>2, CounterTypes DEF SoftwareOpens
  <2>4. x.fd["cycles"] = Min(FreeFds)
    BY <2>2 DEF CtrType
  <2> HIDE DEF x
  <2> QED BY <1>1, <2>1, <2>3, <2>4
<1>5. ASSUME NEW k \in {"instr", "llc"}, MemberJoins(k) PROVE Backed'
  <2> DEFINE x == [Current EXCEPT !.fd[k] = Min(FreeFds)]
  <2>1. Opening /\ Min(FreeFds) \in Fds /\ -1 \notin Fds /\ Current.fd["cycles"] \in Fds
    BY <1>5, LowestFree DEF MemberJoins, Opening, Fds, Halfway
  <2>2. Current \in CtrType
    BY <2>1 DEF Typed, Current, New, Slots
  <2>3. x \in CtrType /\ SetCtr(x)
    BY <1>5, <2>1, <2>2, CounterTypes DEF MemberJoins
  <2>4. x.fd["cycles"] = Current.fd["cycles"]
    BY <2>2 DEF CtrType
  <2> HIDE DEF x
  <2> QED BY <1>1, <2>1, <2>3, <2>4
<1>6. CASE GivesUp
  <2>1. Closed \in CtrType /\ ~Closed.hw /\ SetCtr(Closed) /\ Opening
    BY <1>6, CounterTypes DEF GivesUp, Closed, Opening
  <2> QED BY <1>1, <2>1
<1>7. ASSUME NEW p \in Procs, AddPid(p) PROVE Backed'
  <2>1. \A c \in Cpus : ctr'[New][c] = Zeroed
    BY <1>7, AddPidParts DEF AddPid, Typed
  <2> QED BY <1>0, <1>7, <2>1, AddPidParts DEF Backed, Zeroed
<1>8. ASSUME NEW s \in Slots, Leaves(s) PROVE Backed'
  <2>1. s \in Used /\ RemoveSlot(s)
    BY <1>8 DEF Leaves
  <2>2. /\ n \in Slots
        /\ s # n => ctr'[s] = ctr[n]
        /\ \A t \in Slots \ {s} : ctr'[t] = ctr[t]
    BY <2>1, RemoveSlotParts
  <2>3. CASE s # n
    BY <1>0, <2>2, <2>3 DEF Backed
  <2>4. CASE s = n
    <3>1. \A c \in Cpus : ctr'[s][c] = Closed
      BY <2>1, <2>2, <2>4 DEF RemoveSlot, Moved, Typed
    <3> QED BY <1>0, <2>2, <3>1 DEF Backed, Closed
  <2> QED BY <2>3, <2>4
<1>9. CASE Cleanup
  BY <1>0, <1>9 DEF Cleanup, Backed, Closed
<1>10. CASE UNCHANGED ctr
  BY <1>0, <1>10 DEF Backed
<1> QED BY <1>2, <1>3, <1>4, <1>5, <1>6, <1>7, <1>8, <1>9, <1>10, NextCases, OpenOutcomes
        DEF ExitProc, vars

\* While its process runs, every counter in use with hardware can be read: the
\* slow path takes a slot for one whose process has exited only when it has.
THEOREM ReadUntilExit == ASSUME PmuForCores PROVE Spec => CountedUntilExit
<1>1. Init => Typed /\ Halfway /\ Inv /\ Sized /\ Backed
  <2> SUFFICES ASSUME Init PROVE Typed /\ Halfway /\ Inv /\ Sized /\ Backed
    OBVIOUS
  <2>1. Sized
    BY KindsFree DEF Init, Sized, IsEvent
  <2>2. Backed
    BY DEF Init, Backed, Zeroed
  <2> QED BY <2>1, <2>2, TypedInit, InvInit
<1>2. Typed /\ Halfway /\ Inv /\ Sized /\ Backed /\ [Next]_vars
        => Typed' /\ Halfway' /\ Inv' /\ Sized' /\ Backed'
  BY TypedInductive, InvInductive, SizedInductive, BackedInductive
<1>3. Typed /\ Inv /\ Sized /\ Backed /\ [Next]_vars
        => [\A s \in Slots : SampleGone(s) /\ ctr[s][-1].hw => pid[s] \notin alive]_vars
  <2> SUFFICES ASSUME Typed, Inv, Sized, Backed,
                      NEW s \in Slots, SampleGone(s), ctr[s][-1].hw
               PROVE  pid[s] \notin alive
    OBVIOUS
  <2>1. s \in Used /\ ~Opening /\ -1 \in Cpus
    BY HostType DEF SampleGone, Opening
  <2>2. InUse(s, -1) /\ ctr[s][-1].fd["cycles"] # -1 /\ "cycles" \in Kinds
    BY <2>1, IdleUse DEF Backed, Kinds
  <2>3. ctr[s][-1].fd["cycles"] \in Fds
    BY <2>1, <2>2, DescriptorType
  <2>4. IsEvent(ctr[s][-1].fd["cycles"])
    BY <2>1, <2>2 DEF Inv, Owning, IsOf, IsEvent
  <2>5. Readable(ctr[s][-1])
    BY <2>3, <2>4 DEF Readable, ReadBuffer, Sized
  <2> QED BY <2>5 DEF SampleGone
<1> QED BY <1>1, <1>2, <1>3, PTL DEF Spec, CountedUntilExit
=============================================================================
