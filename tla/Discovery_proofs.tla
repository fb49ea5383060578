-------------------------- MODULE Discovery_proofs --------------------------
(***************************************************************************)
(* The scanner's promises for any set of PIDs, size of its table, period   *)
(* of the walks of /proc and bounds of the model.                          *)
(***************************************************************************)
EXTENDS Discovery, FiniteSetTheorems, TLAPS

USE DiscoveryAssumption

-----------------------------------------------------------------------------
(* The table of entries *)

\* What find_or_alloc leaves of the table.
LEMMA WithParts ==
  ASSUME NEW p, NEW e
  PROVE  /\ DOMAIN With(p, e) = DOMAIN entries \cup {p}
         /\ With(p, e)[p] = e
         /\ \A q \in DOMAIN entries \ {p} : With(p, e)[q] = entries[q]
BY DEF With

\* What the compaction leaves of it.
LEMMA CompactedParts ==
  /\ DOMAIN Restrict(entries, Active) = Active
  /\ \A p \in Active : Restrict(entries, Active)[p] = entries[p]
BY DEF Restrict

\* The entries are of PIDs, no more than the array has places for.
EntriesType ==
  /\ DOMAIN entries \subseteq Pids /\ \A p \in DOMAIN entries : entries[p] \in Entry
  /\ IsFiniteSet(DOMAIN entries) /\ Cardinality(DOMAIN entries) <= MaxTracked

\* Deactivating keeps every entry and its total.
LEMMA DeactivatedParts ==
  ASSUME EntriesType
  PROVE  /\ DOMAIN Deactivated = DOMAIN entries
         /\ \A p \in DOMAIN entries : /\ Deactivated[p] \in Entry
                                      /\ Deactivated[p].total = entries[p].total
                                      /\ ~Deactivated[p].active
<1> SUFFICES ASSUME NEW p \in DOMAIN entries
             PROVE  /\ Deactivated[p] \in Entry
                    /\ Deactivated[p].total = entries[p].total
                    /\ ~Deactivated[p].active
  BY DEF Deactivated
<1>1. Deactivated[p] = [entries[p] EXCEPT !.active = FALSE] /\ entries[p] \in Entry
  BY DEF Deactivated, EntriesType
<1> QED BY <1>1 DEF Entry

\* An entry that has room keeps the table within its capacity.
LEMMA WithType ==
  ASSUME EntriesType, NEW p \in Pids, HasRoom(p), NEW e \in Entry,
         entries' = With(p, e)
  PROVE  EntriesType'
<1>0. /\ DOMAIN entries' = DOMAIN entries \cup {p} /\ entries'[p] = e
      /\ \A q \in DOMAIN entries \ {p} : entries'[q] = entries[q]
  BY DEF With
<1>1. /\ DOMAIN entries' \subseteq Pids
      /\ \A q \in DOMAIN entries' : entries'[q] \in Entry
  BY <1>0 DEF EntriesType
<1>2. /\ IsFiniteSet(DOMAIN entries \cup {p})
      /\ Cardinality(DOMAIN entries \cup {p}) =
           IF p \in DOMAIN entries THEN Cardinality(DOMAIN entries)
                                   ELSE Cardinality(DOMAIN entries) + 1
  BY FS_AddElement DEF EntriesType
<1>3. Cardinality(DOMAIN entries) \in Nat /\ MaxTracked \in Nat
  BY FS_CardinalityType DEF EntriesType
<1>4. IsFiniteSet(DOMAIN entries') /\ Cardinality(DOMAIN entries') <= MaxTracked
  <2>1. CASE p \in DOMAIN entries
    BY <1>0, <1>2, <2>1 DEF EntriesType
  <2>2. CASE p \notin DOMAIN entries
    BY <1>0, <1>2, <1>3, <2>2 DEF HasRoom
  <2> QED BY <2>1, <2>2
<1> QED BY <1>1, <1>4 DEF EntriesType

-----------------------------------------------------------------------------
(* Type correctness *)

Typed == TypeOK /\ IsFiniteSet(DOMAIN entries)

\* An entry read from /proc is one the struct can hold.
LEMMA FreshEntry ==
  ASSUME Typed, NEW p \in Pids
  PROVE  Fresh(p) \in Entry
<1>1. cpu[p] \in Ticks /\ MaxCpu \in Nat
  BY DEF Typed, TypeOK
<1>2. p \in DOMAIN entries => entries[p].total \in Ticks
  BY DEF Typed, TypeOK, Entry
<1>3. Delta(p) \in Ticks
  BY <1>1, <1>2 DEF Delta, Ticks
<1> QED BY <1>1, <1>3 DEF Fresh, Entry

\* Only active entries of other users than root are ranked.
LEMMA TopEligible ==
  ASSUME EndScan \/ SyncFullFails
  PROVE  top' \subseteq Active' /\ top' \cap RootPids = {} /\ Active' \subseteq DOMAIN entries'
<1>1. top' \in Tops'
  BY DEF EndScan, SyncFullFails
<1> QED BY <1>1 DEF Tops, Eligible, Active

\* What each step does to the entries.
LEMMA EntriesTypeInductive == Typed /\ [Next]_vars => EntriesType'
<1> SUFFICES ASSUME Typed, [Next]_vars PROVE EntriesType'
  OBVIOUS
<1>0. EntriesType /\ TypeOK
  BY DEF Typed, TypeOK, EntriesType
<1>1. ASSUME entries' = entries PROVE EntriesType'
  BY <1>0, <1>1 DEF EntriesType
<1>2. CASE Processes \/ Adopt \/ \E p \in Pids : NoEntry(p) \/ NotListed(p) \/ Drop(p)
  BY <1>1, <1>2 DEF Processes, Runs, Starts, Exits, Adopt, NoEntry, NotListed, Drop, daemon
<1>3. CASE SyncFull \/ SyncFullFails \/ SyncTargeted
  <2>1. entries' = Deactivated
    BY <1>3 DEF SyncFull, SyncFullFails, SyncTargeted, BeginScan
  <2> QED BY <1>0, <2>1, DeactivatedParts DEF EntriesType
<1>4. ASSUME NEW p \in Pids, Visit(p) PROVE EntriesType'
  <2>1. Fresh(p) \in Entry /\ Cleared \in Entry
    BY FreshEntry DEF Cleared, Entry, Ticks
  <2> QED BY <1>0, <1>1, <1>4, <2>1, WithType DEF Visit
<1>5. CASE EndScan
  <2>1. entries' = Restrict(entries, Active)
    BY <1>5 DEF EndScan
  <2>2. Active \subseteq DOMAIN entries
    BY DEF Active
  <2>3. DOMAIN entries' = Active /\ \A p \in Active : entries'[p] = entries[p]
    BY <2>1, CompactedParts
  <2>4. /\ IsFiniteSet(Active) /\ Cardinality(Active) <= Cardinality(DOMAIN entries)
    BY <1>0, <2>2, FS_Subset DEF EntriesType
  <2>5. Cardinality(Active) \in Nat /\ Cardinality(DOMAIN entries) \in Nat /\ MaxTracked \in Nat
    BY <1>0, <2>4, FS_CardinalityType DEF EntriesType
  <2> QED BY <1>0, <2>2, <2>3, <2>4, <2>5 DEF EntriesType
<1>6. CASE UNCHANGED vars
  BY <1>1, <1>6 DEF vars, daemon
<1> QED BY <1>2, <1>3, <1>4, <1>5, <1>6 DEF Next, Sync

\* Every step keeps the types.
LEMMA TypedInductive == Typed /\ [Next]_vars => Typed'
<1> SUFFICES ASSUME Typed, [Next]_vars PROVE Typed'
  OBVIOUS
<1> USE DEF Typed, TypeOK, world, daemon, observed
<1>0. /\ DOMAIN entries' \subseteq Pids /\ \A p \in DOMAIN entries' : entries'[p] \in Entry
      /\ IsFiniteSet(DOMAIN entries') /\ Cardinality(DOMAIN entries') <= MaxTracked
  BY EntriesTypeInductive DEF EntriesType
<1>1. ASSUME NEW p \in Pids, Runs(p) PROVE Typed'
  BY <1>0, <1>1 DEF Runs, Ticks
<1>2. ASSUME NEW p \in Pids, Starts(p) PROVE Typed'
  BY <1>0, <1>2 DEF Starts, Ticks
<1>3. ASSUME NEW p \in Pids, Exits(p) PROVE Typed'
  BY <1>0, <1>3 DEF Exits, Ticks
<1>4. CASE SyncFull
  BY <1>0, <1>4 DEF SyncFull, BeginScan
<1>5. CASE SyncFullFails
  BY <1>0, <1>5, TopEligible DEF SyncFullFails
<1>6. CASE SyncTargeted
  BY <1>0, <1>6 DEF SyncTargeted, BeginScan
<1>7. ASSUME NEW p \in Pids, Visit(p) PROVE Typed'
  <2>1. reading' \in [Pids -> Reading \cup {NotRead}]
    BY <1>7 DEF Visit, Reading
  <2> QED BY <1>0, <1>7, <2>1 DEF Visit
<1>8. ASSUME NEW p \in Pids, NoEntry(p) \/ NotListed(p) PROVE Typed'
  BY <1>0, <1>8 DEF NoEntry, NotListed
<1>9. CASE EndScan
  BY <1>0, <1>9, TopEligible DEF EndScan
<1>10. CASE Adopt
  <2>1. tracked' \subseteq Pids
    BY <1>10 DEF Adopt
  <2>2. sinceFull' \in 0 .. FullEvery
    BY <1>10 DEF Adopt
  <2> QED BY <1>0, <1>10, <2>1, <2>2 DEF Adopt
<1>11. ASSUME NEW p \in Pids, Drop(p) PROVE Typed'
  BY <1>0, <1>11 DEF Drop
<1>12. CASE UNCHANGED vars
  BY <1>12 DEF vars
<1> QED
  BY <1>1, <1>2, <1>3, <1>4, <1>5, <1>6, <1>7, <1>8, <1>9, <1>10, <1>11, <1>12
  DEF Next, Processes, Sync

\* They hold at the start.
LEMMA TypedInit == Init => Typed
<1> SUFFICES ASSUME Init PROVE Typed
  OBVIOUS
<1>1. DOMAIN entries = {}
  BY DEF Init
<1>2. IsFiniteSet(DOMAIN entries) /\ Cardinality(DOMAIN entries) <= MaxTracked
  BY <1>1, FS_EmptySet
<1>3. reading \in [Pids -> Reading \cup {NotRead}] /\ before = reading
  BY DEF Init
<1>4. /\ alive \in [Pids -> BOOLEAN] /\ cpu \in [Pids -> Ticks]
      /\ gen \in [Pids -> 0 .. MaxBorn] /\ missed \in [Pids -> Nat]
  BY DEF Init, Ticks
<1>5. /\ born = 0 /\ pc = "idle" /\ kind = "none" /\ sinceFull = FullEvery
      /\ todo = {} /\ tracked = {} /\ top = {} /\ present = {} /\ known = {}
      /\ through = {} /\ sighted = {}
  BY DEF Init
<1>6. /\ born \in 0 .. MaxBorn /\ sinceFull \in 0 .. FullEvery /\ todo \subseteq Pids
      /\ pc \in {"idle", "scan", "ranked"} /\ kind \in {"none", "full", "targeted", "failed"}
  BY <1>5
<1>10. crowded \in BOOLEAN
  BY DEF Init
<1>7. {tracked, top, present, known, through, sighted} \subseteq SUBSET Pids
  BY <1>5
<1>8. {reading, before} \subseteq [Pids -> Reading \cup {NotRead}]
  BY <1>3
<1>9. DOMAIN entries \subseteq Pids /\ \A p \in DOMAIN entries : entries[p] \in Entry
  BY <1>1
<1> QED BY <1>2, <1>4, <1>6, <1>7, <1>8, <1>9, <1>10 DEF Typed, TypeOK

\* The variables keep their types; the scanner's array is never overrun, and
\* no tick count or difference of two leaves its range.
THEOREM TypeCorrect == Spec => []TypeOK
<1>1. Typed => TypeOK
  BY DEF Typed
<1> QED BY <1>1, TypedInit, TypedInductive, PTL DEF Spec

-----------------------------------------------------------------------------
(* Between the scans, and during one *)

\* What was observed of one scan is forgotten before the next.
Phases ==
  /\ pc = "idle" => /\ known = {} /\ through = {} /\ sighted = {} /\ top = {}
                    /\ before = reading
  /\ pc = "scan" => /\ kind \in {"full", "targeted"} /\ top = {}
                    /\ known \subseteq DOMAIN entries
                    /\ Active \cap todo = {}
  /\ pc = "ranked" => kind \in {"full", "targeted", "failed"} /\ top \subseteq Active
  /\ pc = "ranked" /\ kind = "failed" => known = {} /\ through = {}
  /\ pc # "idle" => Active \subseteq sighted

\* At the start of a scan nothing is active.
LEMMA NoneActive ==
  ASSUME Typed, entries' = Deactivated
  PROVE  Active' = {} /\ DOMAIN entries' = DOMAIN entries
BY DeactivatedParts DEF Typed, TypeOK, EntriesType, Active

\* The compaction drops what is not active, and nothing else.
LEMMA CompactedActive ==
  ASSUME EndScan
  PROVE  /\ DOMAIN entries' = Active /\ Active' = Active
         /\ \A p \in Active : entries'[p] = entries[p]
BY CompactedParts DEF EndScan, Active

\* What reading /proc/p/stat does to the entries.
LEMMA VisitParts ==
  ASSUME NEW p \in Pids, Visit(p)
  PROVE  /\ DOMAIN entries \subseteq DOMAIN entries'
         /\ DOMAIN entries' \subseteq DOMAIN entries \cup {p}
         /\ \A q \in DOMAIN entries \ {p} : entries'[q] = entries[q]
         /\ alive[p] => entries'[p] = Fresh(p) /\ Active' = Active \cup {p}
         /\ ~alive[p] => Active' = Active /\ \A q \in DOMAIN entries : entries'[q] = entries[q]
<1>1. CASE alive[p]
  <2>1. entries' = With(p, Fresh(p))
    BY <1>1 DEF Visit
  <2>2. /\ DOMAIN entries' = DOMAIN entries \cup {p} /\ entries'[p] = Fresh(p)
        /\ \A q \in DOMAIN entries \ {p} : entries'[q] = entries[q]
    BY <2>1 DEF With
  <2> QED BY <1>1, <2>2 DEF Active, Fresh
<1>2. CASE ~alive[p] /\ p \in DOMAIN entries
  BY <1>2 DEF Visit, Active
<1>3. CASE ~alive[p] /\ p \notin DOMAIN entries
  <2>1. entries' = With(p, Cleared)
    BY <1>3 DEF Visit
  <2>2. /\ DOMAIN entries' = DOMAIN entries \cup {p} /\ entries'[p] = Cleared
        /\ \A q \in DOMAIN entries \ {p} : entries'[q] = entries[q]
    BY <2>1 DEF With
  <2> QED BY <1>3, <2>2 DEF Active, Cleared
<1> QED BY <1>1, <1>2, <1>3

\* Every step keeps Phases.
LEMMA PhasesInductive == Typed /\ Phases /\ [Next]_vars => Phases'
<1> SUFFICES ASSUME Typed, Phases, [Next]_vars PROVE Phases'
  OBVIOUS
<1> USE DEF Phases, observed, daemon
<1>1. ASSUME NEW p \in Pids, Runs(p) PROVE Phases'
  BY <1>1 DEF Runs, Active
<1>2. ASSUME NEW p \in Pids, Starts(p) PROVE Phases'
  BY <1>2 DEF Starts, Active
<1>3. ASSUME NEW p \in Pids, Exits(p) PROVE Phases'
  BY <1>3 DEF Exits, Active
<1>4. CASE SyncFull \/ SyncTargeted
  BY <1>4, NoneActive DEF SyncFull, SyncTargeted, BeginScan
<1>5. CASE SyncFullFails
  BY <1>5, NoneActive, TopEligible DEF SyncFullFails
<1>6. ASSUME NEW p \in Pids, Visit(p) PROVE Phases'
  <2>1. pc = "scan" /\ UNCHANGED <<pc, kind, known, top>> /\ todo' = todo \ {p}
    BY <1>6 DEF Visit
  <2>2. known \subseteq DOMAIN entries'
    BY <1>6, <2>1, VisitParts
  <2>3. Active' \cap todo' = {} /\ Active' \subseteq sighted'
    BY <1>6, <2>1, VisitParts DEF Visit
  <2> QED BY <2>1, <2>2, <2>3
<1>7. ASSUME NEW p \in Pids, NoEntry(p) \/ NotListed(p) PROVE Phases'
  BY <1>7 DEF NoEntry, NotListed, Active
<1>8. CASE EndScan
  BY <1>8, CompactedActive, TopEligible DEF EndScan
<1>9. CASE Adopt
  BY <1>9 DEF Adopt
<1>10. ASSUME NEW p \in Pids, Drop(p) PROVE Phases'
  BY <1>10 DEF Drop
<1>11. CASE UNCHANGED vars
  BY <1>11 DEF vars, Active
<1> QED
  BY <1>1, <1>2, <1>3, <1>4, <1>5, <1>6, <1>7, <1>8, <1>9, <1>10, <1>11
  DEF Next, Processes, Sync

\* It holds at the start.
LEMMA PhasesInit == Init => Phases
BY DEF Init, Phases

\* Whatever earlier scans left behind, only processes seen running in this
\* scan are ranked.
THEOREM OnlySeenRanked == Spec => []RankedSeen
<1>1. Typed /\ Phases => RankedSeen
  BY DEF Typed, TypeOK, Phases, RankedSeen
<1> QED BY <1>1, TypedInit, TypedInductive, PhasesInit, PhasesInductive, PTL DEF Spec

-----------------------------------------------------------------------------
(* What a scan finds *)

\* A process that lives through the scan has still to be visited, or was found,
\* unless a walk found no place for it; a tracked one has a place.
Pending(p) == p \in todo \cup Active
Finding ==
  /\ \A p \in through : alive[p]
  /\ pc = "scan" => \A p \in through :
       /\ p \in tracked \cap known => Pending(p)
       /\ kind = "full" => Pending(p) \/ crowded
  /\ MonitoredKept
  /\ FullScanFinds

\* Every step keeps Finding.
LEMMA FindingInductive == Typed /\ Phases /\ Finding /\ [Next]_vars => Finding'
<1> SUFFICES ASSUME Typed, Phases, Finding, [Next]_vars PROVE Finding'
  OBVIOUS
<1> USE DEF Finding, Pending, MonitoredKept, FullScanFinds, observed, daemon, world
<1>0. alive \in [Pids -> BOOLEAN] /\ through \subseteq Pids
  BY DEF Typed, TypeOK
<1>1. ASSUME NEW p \in Pids, Runs(p) PROVE Finding'
  BY <1>1 DEF Runs, Active
<1>2. ASSUME NEW p \in Pids, Starts(p) PROVE Finding'
  BY <1>0, <1>2 DEF Starts, Active
<1>3. ASSUME NEW p \in Pids, Exits(p) PROVE Finding'
  BY <1>0, <1>3 DEF Exits, Active
<1>4. CASE SyncFull \/ SyncTargeted
  <2>1. pc' = "scan" /\ through' = {p \in Pids : alive[p]} /\ alive' = alive /\ tracked' = tracked
    BY <1>4 DEF SyncFull, SyncTargeted, BeginScan
  <2>2. /\ SyncFull => kind' = "full" /\ todo' = Pids
        /\ SyncTargeted => kind' = "targeted" /\ tracked \subseteq todo'
    BY DEF SyncFull, SyncTargeted, BeginScan
  <2> QED BY <1>4, <2>1, <2>2
<1>5. CASE SyncFullFails
  BY <1>5 DEF SyncFullFails, Phases
<1>6. ASSUME NEW p \in Pids, Visit(p) PROVE Finding'
  <2>1. /\ pc = "scan" /\ todo' = todo \ {p}
        /\ UNCHANGED <<alive, pc, kind, known, through, tracked, crowded>>
    BY <1>6 DEF Visit
  <2>2. Active \subseteq Active' /\ (alive[p] => p \in Active')
    BY <1>6, VisitParts
  <2> QED BY <2>1, <2>2
<1>7. ASSUME NEW p \in Pids, NoEntry(p) PROVE Finding'
  <2>1. /\ pc = "scan" /\ todo' = todo \ {p} /\ crowded' = TRUE
        /\ UNCHANGED <<alive, pc, entries, kind, known, through, tracked>>
    BY <1>7 DEF NoEntry
  <2>2. p \notin known
    BY <1>7, <2>1 DEF NoEntry, HasRoom, Phases
  <2> QED BY <2>1, <2>2 DEF Active
<1>8. ASSUME NEW p \in Pids, NotListed(p) PROVE Finding'
  BY <1>8 DEF NotListed, Active
<1>9. CASE EndScan
  BY <1>9, CompactedActive DEF EndScan
<1>10. CASE Adopt
  BY <1>10 DEF Adopt
<1>11. ASSUME NEW p \in Pids, Drop(p) PROVE Finding'
  BY <1>11 DEF Drop
<1>12. CASE UNCHANGED vars
  BY <1>12 DEF vars, Active
<1> QED
  BY <1>1, <1>2, <1>3, <1>4, <1>5, <1>6, <1>7, <1>8, <1>9, <1>10, <1>11, <1>12
  DEF Next, Processes, Sync

\* It holds at the start.
LEMMA FindingInit == Init => Finding
BY DEF Init, Finding, MonitoredKept, FullScanFinds

\* A tracked process that lives through a scan of either kind keeps its entry,
\* however full the table is.
THEOREM TrackedKept == Spec => []MonitoredKept
<1>1. Finding => MonitoredKept
  BY DEF Finding
<1> QED
  BY <1>1, TypedInit, TypedInductive, PhasesInit, PhasesInductive, FindingInit,
     FindingInductive, PTL DEF Spec

\* A walk of /proc that never found the table full found every process that
\* lived through it.
THEOREM WalkFindsAll == Spec => []FullScanFinds
<1>1. Finding => FullScanFinds
  BY DEF Finding
<1> QED
  BY <1>1, TypedInit, TypedInductive, PhasesInit, PhasesInductive, FindingInit,
     FindingInductive, PTL DEF Spec

-----------------------------------------------------------------------------
(* How long a process can be missed *)

\* One scan in a row per second since the last walk at the most.
MissedFew ==
  /\ pc = "idle" => \A p \in Pids : missed[p] < sinceFull
  /\ pc = "scan" /\ kind = "targeted" =>
       sinceFull < FullEvery /\ \A p \in Pids : missed[p] < sinceFull
  /\ pc = "scan" /\ kind = "full" => \A p \in Pids : missed[p] < FullEvery
  /\ pc = "ranked" /\ kind = "targeted" =>
       sinceFull < FullEvery /\ \A p \in Pids : missed[p] <= sinceFull
  /\ pc = "ranked" /\ kind # "targeted" => \A p \in Pids : missed[p] = 0

\* Every step keeps MissedFew.
LEMMA MissedInductive == Typed /\ Phases /\ Finding /\ MissedFew /\ [Next]_vars => MissedFew'
<1> SUFFICES ASSUME Typed, Phases, Finding, MissedFew, [Next]_vars PROVE MissedFew'
  OBVIOUS
<1> USE DEF MissedFew, observed, daemon, world
<1>0. /\ missed \in [Pids -> Nat] /\ sinceFull \in 0 .. FullEvery
      /\ pc \in {"idle", "scan", "ranked"}
  BY DEF Typed, TypeOK
<1>1. ASSUME NEW p \in Pids, Runs(p) \/ Starts(p) PROVE MissedFew'
  BY <1>1 DEF Runs, Starts
<1>2. ASSUME NEW p \in Pids, Exits(p) PROVE MissedFew'
  BY <1>0, <1>2 DEF Exits
<1>3. CASE SyncFull
  BY <1>0, <1>3 DEF SyncFull, BeginScan
<1>4. CASE SyncFullFails
  BY <1>4 DEF SyncFullFails
<1>5. CASE SyncTargeted
  BY <1>0, <1>5 DEF SyncTargeted, BeginScan, FullDue
<1>6. ASSUME NEW p \in Pids, Visit(p) \/ NoEntry(p) \/ NotListed(p) \/ Drop(p) PROVE MissedFew'
  BY <1>6 DEF Visit, NoEntry, NotListed, Drop
<1>7. CASE EndScan
  <2>1. /\ pc = "scan" /\ todo = {} /\ pc' = "ranked" /\ kind' = kind /\ sinceFull' = sinceFull
        /\ missed' = [p \in Pids |-> IF p \in through \ Active /\ ~crowded THEN missed[p] + 1 ELSE 0]
    BY <1>7 DEF EndScan
  <2>2. kind = "full" /\ ~crowded => through \subseteq Active
    BY <2>1 DEF Finding, Pending
  <2>3. kind \in {"full", "targeted"}
    BY <2>1 DEF Phases
  <2>4. CASE kind = "full"
    BY <2>1, <2>2, <2>4
  <2>5. CASE kind = "targeted"
    BY <1>0, <2>1, <2>5
  <2> QED BY <2>3, <2>4, <2>5
<1>8. CASE Adopt
  <2>1. pc = "ranked" /\ pc' = "idle" /\ missed' = missed /\ sinceFull' \in sinceFull + 1 .. FullEvery
    BY <1>8 DEF Adopt
  <2> QED BY <1>0, <2>1
<1>9. CASE UNCHANGED vars
  BY <1>9 DEF vars
<1> QED
  BY <1>1, <1>2, <1>3, <1>4, <1>5, <1>6, <1>7, <1>8, <1>9 DEF Next, Processes, Sync

\* It holds at the start.
LEMMA MissedInit == Init => MissedFew
BY DEF Init, MissedFew

\* A process that lives on is found by one of FullEvery scans in a row, however
\* late each of them comes, unless /proc cannot be read or the table is full.
THEOREM FoundWithinPeriod == Spec => []FoundInTime
<1>1. Typed /\ Phases /\ MissedFew => FoundInTime
  BY DEF Typed, TypeOK, Phases, MissedFew, FoundInTime
<1> QED
  BY <1>1, TypedInit, TypedInductive, PhasesInit, PhasesInductive, FindingInit,
     FindingInductive, MissedInit, MissedInductive, PTL DEF Spec

-----------------------------------------------------------------------------
(* What a process is ranked by *)

\* The reading of a process that still runs is of this process or an earlier one
\* of its PID, and then of no more ticks than it has.
ReadingsOld ==
  \A p \in Pids : /\ reading[p].of <= born /\ gen[p] <= born
                  /\ alive[p] /\ reading[p].of = gen[p] => reading[p].total <= cpu[p]

Exact(p) == IF ReadAgain(p) THEN entries[p].delta = Used(p)
                            ELSE entries[p].delta <= reading[p].total

\* An entry holds the last reading.  One that is not of this scan, of a process
\* known before, is the reading the difference is taken to.
TotalsRead ==
  /\ pc # "scan" => \A p \in DOMAIN entries : entries[p].total = reading[p].total
  /\ pc = "scan" => /\ \A p \in Active \cup known : entries[p].total = reading[p].total
                    /\ \A p \in known \ Active : before[p] = reading[p]
  /\ \A p \in Active \cap known : pc # "idle" => Exact(p)

Exactly == ReadingsOld /\ TotalsRead

\* Every step keeps ReadingsOld.
LEMMA ReadingsInductive == Typed /\ ReadingsOld /\ [Next]_vars => ReadingsOld'
<1> SUFFICES ASSUME Typed, ReadingsOld, [Next]_vars, NEW q \in Pids
             PROVE  /\ reading'[q].of <= born' /\ gen'[q] <= born'
                    /\ alive'[q] /\ reading'[q].of = gen'[q] => reading'[q].total <= cpu'[q]
  BY DEF ReadingsOld
<1>0. /\ alive \in [Pids -> BOOLEAN] /\ cpu \in [Pids -> Nat] /\ gen \in [Pids -> Nat] /\ born \in Nat
      /\ reading \in [Pids -> Reading \cup {NotRead}]
  BY DEF Typed, TypeOK, Ticks
<1>1. reading[q].of \in Int /\ reading[q].total \in Nat
  BY <1>0 DEF Reading, NotRead, Ticks
<1>2. /\ reading[q].of <= born /\ gen[q] <= born
      /\ alive[q] /\ reading[q].of = gen[q] => reading[q].total <= cpu[q]
  BY DEF ReadingsOld
<1>3. ASSUME NEW p \in Pids, Runs(p) \/ Starts(p) \/ Exits(p) PROVE reading' = reading
  BY <1>3 DEF Runs, Starts, Exits, observed
<1>4. ASSUME NEW p \in Pids, Runs(p)
      PROVE  alive' = alive /\ gen' = gen /\ born' = born /\ cpu'[q] \in Nat /\ cpu'[q] >= cpu[q]
  BY <1>0, <1>4 DEF Runs
<1>5. ASSUME NEW p \in Pids, Exits(p)
      PROVE  gen' = gen /\ born' = born /\ (q # p => cpu'[q] = cpu[q] /\ alive'[q] = alive[q])
             /\ (q = p => ~alive'[q])
  BY <1>0, <1>5 DEF Exits
<1>6. ASSUME NEW p \in Pids, Starts(p)
      PROVE  /\ born' = born + 1 /\ (q = p => gen'[q] = born + 1)
             /\ q # p => cpu'[q] = cpu[q] /\ alive'[q] = alive[q] /\ gen'[q] = gen[q]
  BY <1>0, <1>6 DEF Starts
<1>7. CASE Processes
  BY <1>0, <1>1, <1>2, <1>3, <1>4, <1>5, <1>6, <1>7 DEF Processes
<1>8. ASSUME NEW p \in Pids, Visit(p)
      PROVE  UNCHANGED world /\ (reading'[q] = reading[q] \/ (reading'[q].of = gen[q] /\ reading'[q].total = cpu[q]))
  BY <1>0, <1>8 DEF Visit
<1>9. CASE \E p \in Pids : Visit(p)
  BY <1>0, <1>1, <1>2, <1>8, <1>9 DEF world
<1>10. CASE UNCHANGED vars \/ SyncFull \/ SyncFullFails \/ SyncTargeted \/ EndScan \/ Adopt
            \/ \E p \in Pids : NoEntry(p) \/ NotListed(p) \/ Drop(p)
  <2>1. UNCHANGED <<world, reading>>
    BY <1>10 DEF vars, observed, SyncFull, SyncFullFails, SyncTargeted, BeginScan, EndScan, Adopt,
                 NoEntry, NotListed, Drop
  <2> QED BY <1>2, <2>1 DEF world
<1> QED BY <1>7, <1>9, <1>10 DEF Next, Sync

\* Every step keeps TotalsRead.
LEMMA TotalsInductive ==
  Typed /\ Phases /\ ReadingsOld /\ TotalsRead /\ [Next]_vars => TotalsRead'
<1> SUFFICES ASSUME Typed, Phases, ReadingsOld, TotalsRead, [Next]_vars PROVE TotalsRead'
  OBVIOUS
<1> USE DEF TotalsRead, Exact, ReadAgain, Used
<1>1. ASSUME UNCHANGED <<pc, entries, known, reading, before>> PROVE TotalsRead'
  BY <1>1 DEF Active
<1>2. CASE Processes \/ UNCHANGED vars \/ \E p \in Pids : NoEntry(p) \/ NotListed(p) \/ Drop(p)
  BY <1>1, <1>2 DEF Processes, Runs, Starts, Exits, NoEntry, NotListed, Drop, vars, daemon, observed
<1>3. CASE SyncFull \/ SyncTargeted
  <2>1. /\ pc = "idle" /\ pc' = "scan" /\ known' = DOMAIN entries /\ entries' = Deactivated
        /\ UNCHANGED <<reading, before>>
    BY <1>3 DEF SyncFull, SyncTargeted, BeginScan
  <2>2. Active' = {} /\ \A p \in DOMAIN entries : entries'[p].total = entries[p].total
    BY <2>1, NoneActive, DeactivatedParts DEF Typed, TypeOK, EntriesType
  <2>3. before = reading
    BY <2>1 DEF Phases
  <2> QED BY <2>1, <2>2, <2>3
<1>4. CASE SyncFullFails
  <2>1. /\ pc = "idle" /\ pc' = "ranked" /\ entries' = Deactivated /\ UNCHANGED <<known, reading, before>>
    BY <1>4 DEF SyncFullFails
  <2>2. /\ Active' = {} /\ DOMAIN entries' = DOMAIN entries
        /\ \A p \in DOMAIN entries : entries'[p].total = entries[p].total
    BY <2>1, NoneActive, DeactivatedParts DEF Typed, TypeOK, EntriesType
  <2> QED BY <2>1, <2>2
<1>5. ASSUME NEW p \in Pids, Visit(p) PROVE TotalsRead'
  <2>1. /\ pc = "scan" /\ pc' = "scan" /\ UNCHANGED <<known, before>> /\ p \in todo /\ p \notin Active
    BY <1>5 DEF Visit, Phases
  <2>2. CASE ~alive[p]
    <3>1. reading' = reading
      BY <1>5, <2>2 DEF Visit
    <3>2. known \subseteq DOMAIN entries /\ Active \subseteq DOMAIN entries
      BY <2>1 DEF Phases, Active
    <3>3. Active' = Active /\ \A q \in DOMAIN entries : entries'[q] = entries[q]
      BY <1>5, <2>2, VisitParts
    <3> QED BY <2>1, <3>1, <3>2, <3>3
  <2>3. CASE alive[p]
    <3>1. /\ Active' = Active \cup {p} /\ entries'[p] = Fresh(p)
          /\ \A q \in DOMAIN entries \ {p} : entries'[q] = entries[q]
      BY <1>5, <2>3, VisitParts
    <3>2. /\ reading'[p] = [of |-> gen[p], total |-> cpu[p]]
          /\ \A q \in Pids \ {p} : reading'[q] = reading[q]
      BY <1>5, <2>3 DEF Visit, Typed, TypeOK
    <3>3. DOMAIN entries \subseteq Pids /\ known \subseteq DOMAIN entries /\ Active \subseteq DOMAIN entries
      BY <2>1 DEF Typed, TypeOK, Phases, Active
    <3>4. entries'[p].total = reading'[p].total
      BY <3>1, <3>2 DEF Fresh
    <3>5. ASSUME p \in known PROVE IF before[p].of = reading'[p].of
                                     THEN entries'[p].delta = reading'[p].total - before[p].total
                                     ELSE entries'[p].delta <= reading'[p].total
      <4>1. before[p] = reading[p] /\ entries[p].total = reading[p].total /\ p \in DOMAIN entries
        BY <2>1, <3>3, <3>5
      <4>2. entries'[p].delta = IF cpu[p] > entries[p].total THEN cpu[p] - entries[p].total ELSE 0
        BY <3>1, <4>1 DEF Fresh, Delta
      <4>3. cpu[p] \in Nat /\ entries[p].total \in Nat
        BY <4>1 DEF Typed, TypeOK, Entry, Ticks
      <4>4. reading[p].of = gen[p] => reading[p].total <= cpu[p]
        BY <2>3 DEF ReadingsOld
      <4> QED BY <3>2, <4>1, <4>2, <4>3, <4>4
    <3> QED BY <2>1, <3>1, <3>2, <3>3, <3>4, <3>5
  <2> QED BY <2>2, <2>3
<1>6. CASE EndScan
  <2>1. pc = "scan" /\ pc' = "ranked" /\ UNCHANGED <<known, reading, before>>
    BY <1>6 DEF EndScan
  <2> QED BY <1>6, <2>1, CompactedActive
<1>7. CASE Adopt
  BY <1>7 DEF Adopt, Active
<1> QED BY <1>2, <1>3, <1>4, <1>5, <1>6, <1>7 DEF Next, Sync

\* Both hold at the start.
LEMMA ExactlyInit == Init => Exactly
<1> SUFFICES ASSUME Init PROVE Exactly
  OBVIOUS
<1>1. ReadingsOld
  BY DEF Init, ReadingsOld, NotRead
<1>2. TotalsRead
  BY DEF Init, TotalsRead, Active
<1> QED BY <1>1, <1>2 DEF Exactly

\* A process that kept its entry since the last scan that read it is ranked by
\* what it used between the two readings, and one whose PID was reused in
\* between by no more than it used itself.  A process whose entry a targeted
\* scan dropped is not among these: it is ranked by 0 (DeltaIsUse is false).
THEOREM RankedByUse == Spec => []DeltaExact
<1>1. Typed /\ Phases /\ Exactly => DeltaExact
  BY DEF Exactly, TotalsRead, Exact, DeltaExact
<1>2. Typed /\ Phases /\ Exactly /\ [Next]_vars => Exactly'
  BY ReadingsInductive, TotalsInductive DEF Exactly
<1> QED
  BY <1>1, <1>2, TypedInit, TypedInductive, PhasesInit, PhasesInductive, ExactlyInit, PTL DEF Spec
=============================================================================
