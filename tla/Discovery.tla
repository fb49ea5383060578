----------------------------- MODULE Discovery -----------------------------
(***************************************************************************)
(* How the daemon finds the processes it monitors: proc_scanner.c, and the *)
(* first half of sync_pids, which decides every second whether to walk     *)
(* /proc or to read the processes it knows of only.  A scan reads one      *)
(* process after the other, while processes run, exit and start.           *)
(*                                                                         *)
(* What comes of the ranking, slots and counters, is SlotTable's subject;  *)
(* here it is the set of PIDs that are tracked until the next sync.  The   *)
(* table of entries is a function from PIDs: their order in the array only *)
(* breaks ties of the ranking, in which qsort promises nothing.            *)
(***************************************************************************)
EXTENDS Integers, FiniteSets, Functions

CONSTANTS
  Pids,        \* process ids above 1
  RootPids,    \* those of root's processes, whose uid is below min_uid
  MaxBorn,     \* bound on the processes that start
  MaxCpu,      \* bound on the clock ticks of CPU time of one process
  MaxTracked,  \* PROC_MAX_TRACKED
  TopN,        \* g_cfg.top_n
  FullEvery    \* seconds from one walk of /proc to the next (5 in the code)

ASSUME DiscoveryAssumption ==
  /\ RootPids \subseteq Pids
  /\ {MaxBorn, MaxCpu} \subseteq Nat
  /\ {MaxTracked, TopN, FullEvery} \subseteq Nat \ {0}

VARIABLES
  alive, cpu, gen, born,  \* the processes: CPU ticks used, and a number for each
  entries,                \* g_scanner.entries
  pc, kind,               \* where sync_pids is, and which scan this one is
  todo, present,          \* PIDs the scan has not come to; those /proc held during it
  sinceFull,              \* seconds since the last walk of /proc
  tracked,                \* the PIDs in g_states
  top,                    \* what proc_scanner_top_n returned
  \* The rest observes: PIDs with an entry before this scan, those whose process
  \* lived all through it, those the scan read, whether it ever found the table
  \* full; of each PID, which process was read last and how many ticks it had, up
  \* to now and up to the scan before, and how many scans in a row missed it.
  known, through, sighted, crowded, reading, before, missed

world    == <<alive, cpu, gen, born>>
daemon   == <<entries, pc, kind, todo, present, sinceFull, tracked, top>>
observed == <<known, through, sighted, crowded, reading, before, missed>>
vars     == <<world, daemon, observed>>

Ticks   == 0 .. MaxCpu
Entry   == [total : Ticks, delta : Ticks, active : BOOLEAN]
Cleared == [total |-> 0, delta |-> 0, active |-> FALSE]   \* memset
Reading == [of : 0 .. MaxBorn, total : Ticks]
NotRead == [of |-> -1, total |-> 0]

Init ==
  /\ alive \in [Pids -> BOOLEAN] /\ cpu = [p \in Pids |-> 0]
  /\ gen = [p \in Pids |-> 0] /\ born = 0
  /\ entries = <<>>
  /\ pc = "idle" /\ kind = "none" /\ todo = {} /\ present = {} /\ sinceFull = FullEvery
  /\ tracked = {} /\ top = {}
  /\ known = {} /\ through = {} /\ sighted = {} /\ crowded = FALSE
  /\ reading = [p \in Pids |-> NotRead] /\ before = reading
  /\ missed = [p \in Pids |-> 0]

-----------------------------------------------------------------------------
(* Processes *)

Runs(p) ==
  /\ alive[p] /\ cpu[p] < MaxCpu
  /\ cpu' = [cpu EXCEPT ![p] = @ + 1]
  /\ UNCHANGED <<alive, gen, born, daemon, observed>>

Starts(p) ==
  /\ ~alive[p] /\ born < MaxBorn
  /\ alive' = [alive EXCEPT ![p] = TRUE]
  /\ cpu' = [cpu EXCEPT ![p] = 0]
  /\ gen' = [gen EXCEPT ![p] = born + 1] /\ born' = born + 1
  /\ present' = IF pc = "scan" THEN present \cup {p} ELSE {}
  /\ UNCHANGED <<entries, pc, kind, todo, sinceFull, tracked, top, observed>>

Exits(p) ==
  /\ alive[p]
  /\ alive' = [alive EXCEPT ![p] = FALSE]
  /\ cpu' = [cpu EXCEPT ![p] = 0]
  /\ through' = through \ {p} /\ missed' = [missed EXCEPT ![p] = 0]
  /\ UNCHANGED <<gen, born, daemon, known, sighted, crowded, reading, before>>

Processes == \E p \in Pids : Runs(p) \/ Starts(p) \/ Exits(p)

-----------------------------------------------------------------------------
(* The ranking *)

\* Fault: the entries of processes that are gone stay active.
ActiveForever == DOMAIN entries

Active == {p \in DOMAIN entries : entries[p].active}

\* proc_scanner_top_n, with a min_uid above 0.
Eligible == Active \ RootPids

Tops ==
  {s \in SUBSET Eligible :
     /\ Cardinality(s) <= TopN
     /\ s = Eligible \/ Cardinality(s) = TopN
     /\ \A p \in s, q \in Eligible \ s : entries[p].delta >= entries[q].delta}

-----------------------------------------------------------------------------
(* sync_pids, up to the choice of the scan *)

Deactivated == [p \in DOMAIN entries |-> [entries[p] EXCEPT !.active = FALSE]]

BeginScan(k, pids) ==
  /\ pc = "idle"
  /\ pc' = "scan" /\ kind' = k /\ todo' = pids
  /\ entries' = Deactivated
  /\ present' = {p \in Pids : alive[p]}
  /\ known' = DOMAIN entries /\ through' = present'
  /\ UNCHANGED <<world, tracked, top, sighted, crowded, reading, before, missed>>

FullDue == sinceFull >= FullEvery

\* proc_scanner_scan, in the order of the PIDs.
SyncFull ==
  /\ FullDue
  /\ BeginScan("full", Pids)
  /\ sinceFull' = 0

\* It cannot open /proc: nothing is active, nothing is forgotten, and the ranking
\* is taken of what there is.
SyncFullFails ==
  /\ FullDue
  /\ pc = "idle"
  /\ pc' = "ranked" /\ kind' = "failed"
  /\ entries' = Deactivated /\ top' \in Tops'
  /\ sinceFull' = 0
  /\ missed' = [p \in Pids |-> 0]
  /\ UNCHANGED <<world, todo, present, tracked, known, through, sighted, crowded, reading, before>>

\* Fault: every sync counts as a walk.
SyncTargetedRestarts ==
  /\ ~FullDue
  /\ \E recent \in SUBSET Pids : BeginScan("targeted", tracked \cup recent)
  /\ sinceFull' = 0

\* proc_scanner_scan_pids, of the tracked PIDs and those eBPF returned: some
\* that forked or execed since it was attached, dead ones among them, or none.
SyncTargeted ==
  /\ ~FullDue
  /\ \E recent \in SUBSET Pids : BeginScan("targeted", tracked \cup recent)
  /\ UNCHANGED sinceFull

-----------------------------------------------------------------------------
(* The scanner *)

\* Fault: one entry more than the array has.
HasRoomOffByOne(p) == p \in DOMAIN entries \/ Cardinality(DOMAIN entries) <= MaxTracked

\* Fault: a full table is not searched.
HasRoomFirst(p) == Cardinality(DOMAIN entries) < MaxTracked

\* find_or_alloc returns an entry.
HasRoom(p) == p \in DOMAIN entries \/ Cardinality(DOMAIN entries) < MaxTracked

With(p, e) == [q \in DOMAIN entries \cup {p} |-> IF q = p THEN e ELSE entries[q]]

\* Fault: the difference is taken without asking for its sign, and wraps to a
\* large one after a reuse of the PID.
DeltaUnsigned(p) ==
  IF p \notin DOMAIN entries THEN 0
  ELSE IF cpu[p] >= entries[p].total THEN cpu[p] - entries[p].total ELSE MaxCpu

\* Ticks since the previous reading: none for a new entry, and none if there
\* are fewer than before, since that is another process.
Delta(p) ==
  IF p \in DOMAIN entries /\ cpu[p] > entries[p].total THEN cpu[p] - entries[p].total ELSE 0

\* Fault: a new entry counts as seen from the next scan on.
FreshOnlyKnown(p) == [total |-> cpu[p], delta |-> Delta(p), active |-> p \in DOMAIN entries]

\* The entry after /proc/p/stat was read.
Fresh(p) == [total |-> cpu[p], delta |-> Delta(p), active |-> TRUE]

\* A PID of the list, or one that readdir returned; its process may be gone.
Visit(p) ==
  /\ pc = "scan" /\ p \in todo /\ HasRoom(p)
  /\ kind = "full" => p \in present
  /\ IF alive[p]
       THEN /\ entries' = With(p, Fresh(p))
            /\ sighted' = sighted \cup {p}
            /\ reading' = [reading EXCEPT ![p] = [of |-> gen[p], total |-> cpu[p]]]
       ELSE /\ entries' = IF p \in DOMAIN entries THEN entries ELSE With(p, Cleared)
            /\ UNCHANGED <<sighted, reading>>
  /\ todo' = todo \ {p}
  /\ UNCHANGED <<world, pc, kind, present, sinceFull, tracked, top, known, through, crowded, before, missed>>

\* The table is full, and the process has no entry in it.
NoEntry(p) ==
  /\ pc = "scan" /\ p \in todo /\ ~HasRoom(p)
  /\ kind = "full" => p \in present
  /\ crowded' = TRUE
  /\ todo' = todo \ {p}
  /\ UNCHANGED <<world, entries, pc, kind, present, sinceFull, tracked, top, known, through, sighted,
                 reading, before, missed>>

\* readdir need not return a process that exits, or starts, while it is read.
NotListed(p) ==
  /\ pc = "scan" /\ p \in todo
  /\ kind = "full" /\ p \notin through
  /\ todo' = todo \ {p}
  /\ UNCHANGED <<world, entries, pc, kind, present, sinceFull, tracked, top, observed>>

\* The compaction at the end of either scan, and the ranking.
EndScan ==
  /\ pc = "scan" /\ todo = {}
  /\ entries' = Restrict(entries, Active) /\ top' \in Tops'
  /\ pc' = "ranked" /\ present' = {}
  /\ missed' = [p \in Pids |-> IF p \in through \ Active /\ ~crowded THEN missed[p] + 1 ELSE 0]
  /\ UNCHANGED <<world, kind, todo, sinceFull, tracked, known, through, sighted, crowded,
                 reading, before>>

\* Tracked processes outside the ranking are dropped, those in it added, unless
\* that fails.  The next sync comes after one second, or later.
Adopt ==
  /\ pc = "ranked"
  /\ \E failed \in SUBSET (top \ tracked) : tracked' = top \ failed
  /\ \E late \in sinceFull + 1 .. FullEvery : sinceFull' = late
  /\ pc' = "idle" /\ kind' = "none" /\ top' = {}
  /\ known' = {} /\ through' = {} /\ sighted' = {} /\ crowded' = FALSE /\ before' = reading
  /\ UNCHANGED <<world, entries, todo, present, reading, missed>>

\* The slow path drops a slot whose counters cannot be read any more.
Drop(p) ==
  /\ pc = "idle" /\ p \in tracked /\ ~alive[p]
  /\ tracked' = tracked \ {p}
  /\ UNCHANGED <<world, entries, pc, kind, todo, present, sinceFull, top, observed>>

Sync == \/ SyncFull \/ SyncFullFails \/ SyncTargeted
        \/ \E p \in Pids : Visit(p) \/ NoEntry(p) \/ NotListed(p)
        \/ EndScan \/ Adopt

Next == Processes \/ Sync \/ \E p \in Pids : Drop(p)

Spec == Init /\ [][Next]_vars

-----------------------------------------------------------------------------
(* Properties *)

TypeOK ==
  /\ alive \in [Pids -> BOOLEAN] /\ cpu \in [Pids -> Ticks]
  /\ gen \in [Pids -> 0 .. MaxBorn] /\ born \in 0 .. MaxBorn
  /\ DOMAIN entries \subseteq Pids /\ \A p \in DOMAIN entries : entries[p] \in Entry
  /\ Cardinality(DOMAIN entries) <= MaxTracked
  /\ pc \in {"idle", "scan", "ranked"}
  /\ kind \in {"none", "full", "targeted", "failed"}
  /\ todo \subseteq Pids /\ sinceFull \in 0 .. FullEvery
  /\ {tracked, top, present, known, through, sighted} \subseteq SUBSET Pids
  /\ crowded \in BOOLEAN
  /\ {reading, before} \subseteq [Pids -> Reading \cup {NotRead}]
  /\ missed \in [Pids -> Nat]

\* The CPU time p used between its last two readings, if they are of one process.
ReadAgain(p) == before[p].of = reading[p].of
Used(p) == reading[p].total - before[p].total

\* Only processes that ran while this scan did are ranked, whatever entries
\* earlier scans left behind: what SlotTable takes a ranking to be.
RankedSeen == top \subseteq sighted

\* Monitoring goes on: a tracked process that lives through a scan keeps its
\* entry, of a targeted scan as of a full one, with the table full and new
\* processes crowding in.
MonitoredKept ==
  pc = "ranked" => tracked \cap known \cap through \subseteq Active

\* A walk of /proc finds every process that lives through it, "the ONLY
\* reliable way to discover pre-existing long-running processes", unless the
\* table of entries was full.
FullScanFinds ==
  pc = "ranked" /\ kind = "full" /\ ~crowded => through \subseteq Active

\* The CPU time a process is ranked by is what it used since the last scan that
\* read it, if it kept its entry since; and where its PID was reused in
\* between, no more than what the new process used (the counts are unsigned).
DeltaExact ==
  pc = "ranked" =>
    \A p \in Active \cap known :
      IF ReadAgain(p) THEN entries[p].delta = Used(p)
                      ELSE entries[p].delta <= reading[p].total

\* "Discovered within one scan window": a process that lives on is found by one
\* of FullEvery scans in a row, whether its fork was seen or not, unless /proc
\* cannot be read or the table of entries is full.
FoundInTime == \A p \in Pids : missed[p] < FullEvery

\* "Ticks consumed this interval": a process that an earlier scan has read is
\* ranked by the CPU time it used since.
DeltaIsUse ==
  pc = "ranked" => \A p \in Eligible : ReadAgain(p) => entries[p].delta = Used(p)
=============================================================================
