----------------------------- MODULE SlotTable -----------------------------
(***************************************************************************)
(* The daemon's table of monitored processes (monitor_final.c): g_n_active *)
(* slots, each spread over parallel arrays indexed by slot, filled by      *)
(* sync_pids / add_pid, emptied by remove_slot (which moves the last slot  *)
(* into the hole), written by the slow path and read by the fast path that *)
(* feeds the classifier.  Processes exit, and their PIDs are given to new  *)
(* processes, between any two steps of the daemon.                         *)
(*                                                                         *)
(* Measurements are abstracted to whose they are: a counter, a baseline, a *)
(* name or a window carries the incarnations <<pid, generation>> its       *)
(* contents were taken from, a window those of every sample pushed since   *)
(* sw_init.  The counters stay with the process they were opened for; the  *)
(* eBPF maps and /proc are asked by number and answer for the process that *)
(* bears it then (what the maps hold of its predecessors: Sampler).  Slots *)
(* are numbered from 1.  Timestamps are kept as ages, counted in ticks of  *)
(* the loop and capped where the code stops telling them apart.            *)
(***************************************************************************)
EXTENDS Integers, Sequences, FiniteSets, SequencesExt

CONSTANTS
  Pids,         \* process ids that may be monitored
  MaxGen,       \* bound on how often one PID is reused
  MaxPids,      \* MAX_PIDS
  DefaultTopN,  \* DEFAULT_TOP_N
  Cores,        \* 0 .. g_ncores - 1
  MaxCores,     \* MAX_CORES
  CommandLines, \* the command lines tried, each a sequence of options
  Stale,     \* STALE_THRESHOLD_NS, in ticks
  SlowEvery, \* fast ticks per slow one (4 in the code)
  SyncEvery, \* the throttle of sync_pids, in ticks
  MaxSleep   \* bound on how late the loop wakes up, in ticks

ASSUME SlotAssumption ==
  /\ {MaxPids, DefaultTopN, MaxCores} \subseteq Nat \ {0}
  /\ DefaultTopN <= MaxPids
  /\ Cores \subseteq 0 .. MaxCores - 1
  /\ {Stale, MaxGen} \subseteq Nat
  /\ {SlowEvery, SyncEvery, MaxSleep} \subseteq Nat \ {0}

VARIABLES
  g_cfg,                           \* what the command line asked for
  alive, gen,                      \* which processes exist, and which incarnation
  n,                               \* g_n_active
  st,                              \* g_states
  perf, comm,                      \* whom g_perf counts, if it can be read; whom g_comm names, if any
  win, sm, valid, age,             \* g_win_*, g_last_sm, _valid, _timestamp
  pcPerf, pcWin, pcSm, pcAge,      \* the per-core arrays
  corePrev,                        \* g_core_prev: whose reading the baseline is
  pc, i, todo, limit, toOpen,      \* where the loop is
  phase, sinceSync, running,
  batch,                           \* entries pushed to the classifier this tick
  seen,                            \* pids this tick's slow path examined
  ranAge                           \* time since a pid was last seen running, per cpu

procs    == <<alive, gen>>
slow     == <<perf, comm, win, pcPerf, pcWin, corePrev>>
cached   == <<sm, valid, age, pcSm, pcAge>>
table    == <<n, st, slow, cached>>
loop     == <<phase, sinceSync, running>>
observed == <<batch, seen, ranAge>>
vars     == <<g_cfg, procs, table, pc, i, todo, limit, toOpen, loop, observed>>

Slots == 1 .. MaxPids
Used  == 1 .. n
Owner == Pids \X (0 .. MaxGen)
NoPid == 0
Closed == <<>>   \* of nobody: events that cannot be read, a zero baseline, no name
Never  == Stale + 1   \* the age of a timestamp of 0, and of any older than Stale

-----------------------------------------------------------------------------
(* parse_args *)

Lesser(a, b) == IF a < b THEN a ELSE b

NoOptions == [pids |-> <<>>, topN |-> 0, perCore |-> FALSE, mask |-> {}]

\* One option of the command line, in the order they were given: a value out of
\* range falls back to the default or is dropped.
ParseOption(c, o) ==
  CASE o.opt = "--pids"  ->
         [c EXCEPT !.pids = SubSeq(@ \o o.arg, 1, Lesser(MaxPids, Len(@ \o o.arg)))]
    [] o.opt = "--top"   ->
         [c EXCEPT !.topN = IF o.arg \in 1 .. MaxPids THEN o.arg ELSE DefaultTopN]
    [] o.opt = "--all"   -> [c EXCEPT !.topN = MaxPids]
    [] o.opt = "--per-core" -> [c EXCEPT !.perCore = TRUE]
    [] o.opt = "--cores" ->
         [c EXCEPT !.perCore = TRUE, !.mask = @ \cup (o.arg \cap (0 .. MaxCores - 1))]

ParseArgs(line) ==
  LET c == FoldLeft(ParseOption, NoOptions, line)
  IN IF c.pids = <<>> /\ c.topN = 0 THEN [c EXCEPT !.topN = DefaultTopN] ELSE c

\* g_cfg.
Config == [pids : Seq(Pids), topN : 0 .. MaxPids, perCore : BOOLEAN,
           mask : SUBSET (0 .. MaxCores - 1)]

\* An option and its argument, of which nothing is assumed but its type.
Option == [opt : {"--pids"}, arg : Seq(Pids)] \cup [opt : {"--top"}, arg : Int]
            \cup [opt : {"--cores"}, arg : SUBSET Int] \cup [opt : {"--all", "--per-core"}]

ASSUME LinesAssumption == CommandLines \subseteq Seq(Option)

Explicitly == g_cfg.pids # <<>>

\* The cores whose counters are opened, and those --cores selects of them.
OpenCores == IF g_cfg.perCore THEN Cores ELSE {}
Selected  == {c \in OpenCores : g_cfg.mask = {} \/ c \in g_cfg.mask}

\* Faults the code could have are defined next to the definition each of them
\* would replace; no definition of the specification uses them.  This one is a
\* find_slot that stops short of the last slot.
TrackedButLast == {st[k].pid : k \in 1 .. n - 1}

Tracked    == {st[k].pid : k \in Used}
Current(p) == <<p, gen[p]>>
Exists(o)  == alive[o[1]] /\ gen[o[1]] = o[2]

\* The windows of a slot, and those among them fed from the perf counters.
Windows  == {"ipc", "llc", "ctx", "io"}
Counters == {"ipc", "llc"}

Empty == [w \in Windows |-> {}]
Blank == [pid |-> NoPid, of |-> Empty]
Cpus  == Cores \cup {-1}   \* cpu_id: a core, or -1 for the aggregate

Init ==
  /\ g_cfg \in {ParseArgs(line) : line \in CommandLines}
  /\ alive \in [Pids -> BOOLEAN]
  /\ gen = [p \in Pids |-> 0]
  /\ n = 0
  /\ st = [k \in Slots |-> [pid |-> NoPid, active |-> FALSE, final |-> FALSE]]
  /\ perf = [k \in Slots |-> Closed]
  /\ comm = [k \in Slots |-> Closed]
  /\ win = [k \in Slots |-> Empty]
  /\ sm = [k \in Slots |-> Blank]
  /\ valid = [k \in Slots |-> FALSE]
  /\ age = [k \in Slots |-> Never]
  /\ pcPerf = [k \in Slots |-> [c \in Cores |-> Closed]]
  /\ pcWin = [k \in Slots |-> [c \in Cores |-> {}]]
  /\ pcSm = [k \in Slots |-> [c \in Cores |-> Blank]]
  /\ pcAge = [k \in Slots |-> [c \in Cores |-> Never]]
  /\ corePrev = [k \in Slots |-> [c \in Cores |-> Closed]]
  /\ pc = "top" /\ i = 1 /\ todo = <<>> /\ limit = 0 /\ toOpen = {}
  /\ phase = 0 /\ sinceSync = SyncEvery /\ running = TRUE
  /\ batch = {} /\ seen = {} /\ ranAge = [p \in Pids |-> [c \in Cpus |-> Never]]

-----------------------------------------------------------------------------
(* Processes come and go whatever the daemon is doing. *)

ExitProc(p) ==
  /\ alive[p]
  /\ alive' = [alive EXCEPT ![p] = FALSE]
  /\ UNCHANGED <<g_cfg, gen, table, pc, i, todo, limit, toOpen, loop, observed>>

\* A new process; a later one of the same PID is another incarnation.
SpawnProc(p) ==
  /\ ~alive[p]
  /\ gen[p] < MaxGen
  /\ alive' = [alive EXCEPT ![p] = TRUE]
  /\ gen' = [gen EXCEPT ![p] = @ + 1]
  /\ UNCHANGED <<g_cfg, table, pc, i, todo, limit, toOpen, loop, observed>>

\* SIGTERM or SIGINT: handle_signal.
Signal ==
  /\ running
  /\ running' = FALSE
  /\ UNCHANGED <<g_cfg, procs, table, pc, i, todo, limit, toOpen, phase, sinceSync, observed>>

-----------------------------------------------------------------------------
(* add_pid, which fills slot n + 1 one system call after another while       *)
(* processes exit and start between them, and remove_slot.                 *)

Wanted == Head(todo)

AddRefused ==
  /\ n = MaxPids
  /\ todo' = Tail(todo)
  /\ UNCHANGED <<table, pc, toOpen>>

ClearCounters(k) ==
  pcPerf' = [pcPerf EXCEPT ![k] = [c \in Cores |-> Closed]]

\* perf_event_open fails for a process that is gone, and may fail for others.
AddFails ==
  /\ n < MaxPids
  /\ perf' = [perf EXCEPT ![n + 1] = Closed]
  /\ ClearCounters(n + 1)
  /\ todo' = Tail(todo)
  /\ UNCHANGED <<n, st, comm, win, pcWin, corePrev, cached, pc, toOpen>>

\* Fault: one slot too many.
AddOpensOffByOne ==
  /\ n <= MaxPids /\ alive[Wanted]
  /\ perf' = [perf EXCEPT ![n + 1] = Current(Wanted)]
  /\ toOpen' = OpenCores
  /\ ClearCounters(n + 1)
  /\ pc' = "open"
  /\ UNCHANGED <<n, st, comm, win, pcWin, corePrev, cached, todo>>

\* The aggregate counter opens, on hardware events or on the software clock,
\* which perf_counter_read cannot read and beside which no core is opened.
AddOpens ==
  /\ n < MaxPids /\ alive[Wanted]
  /\ \E o \in {Current(Wanted), Closed} :
       /\ perf' = [perf EXCEPT ![n + 1] = o]
       /\ toOpen' = IF o = Closed THEN {} ELSE OpenCores
  /\ ClearCounters(n + 1)
  /\ pc' = "open"
  /\ UNCHANGED <<n, st, comm, win, pcWin, corePrev, cached, todo>>

\* The counter of the next core: opened, opened on the software clock, or not,
\* and then the windows of that core are left as they were.
OpenCore ==
  /\ pc = "open"
  /\ \E c \in toOpen :
       /\ \A d \in toOpen : c <= d
       /\ toOpen' = toOpen \ {c}
       /\ \/ /\ alive[Wanted]
             /\ pcPerf' = [pcPerf EXCEPT ![n + 1][c] = Current(Wanted)]
             /\ pcWin' = [pcWin EXCEPT ![n + 1][c] = {}]
          \/ alive[Wanted] /\ pcWin' = [pcWin EXCEPT ![n + 1][c] = {}] /\ UNCHANGED pcPerf
          \/ UNCHANGED <<pcPerf, pcWin>>
  /\ UNCHANGED <<g_cfg, procs, n, st, perf, comm, win, corePrev, cached, pc, i, todo, limit,
                 loop, observed>>

\* Fault: one sw_init is missing.
FillSlotKeepsWindow ==
  /\ pc = "open" /\ toOpen = {}
  /\ n' = n + 1
  /\ st' = [st EXCEPT ![n + 1] = [pid |-> Wanted, active |-> TRUE, final |-> FALSE]]
  /\ comm' = [comm EXCEPT ![n + 1] = Current(Wanted)]
  /\ win' = [win EXCEPT ![n + 1] = [Empty EXCEPT !["io"] = win[n + 1]["io"]]]
  /\ valid' = [valid EXCEPT ![n + 1] = FALSE]
  /\ pcSm' = [pcSm EXCEPT ![n + 1] = [c \in Cores |-> Blank]]
  /\ corePrev' = [corePrev EXCEPT ![n + 1] = [c \in Cores |-> Closed]]
  /\ todo' = Tail(todo)
  /\ pc' = "add"
  /\ UNCHANGED <<g_cfg, procs, perf, pcPerf, pcWin, sm, age, pcAge, i, limit, toOpen, loop,
                 observed>>

FillSlot ==
  /\ pc = "open" /\ toOpen = {}
  /\ n' = n + 1
  /\ st' = [st EXCEPT ![n + 1] = [pid |-> Wanted, active |-> TRUE, final |-> FALSE]]
  /\ comm' = [comm EXCEPT ![n + 1] = Current(Wanted)]
  /\ win' = [win EXCEPT ![n + 1] = Empty]
  /\ sm' = [sm EXCEPT ![n + 1] = Blank]
  /\ valid' = [valid EXCEPT ![n + 1] = FALSE]
  /\ age' = [age EXCEPT ![n + 1] = Never]
  /\ pcSm' = [pcSm EXCEPT ![n + 1] = [c \in Cores |-> Blank]]
  /\ pcAge' = [pcAge EXCEPT ![n + 1] = [c \in Cores |-> Never]]
  /\ corePrev' = [corePrev EXCEPT ![n + 1] = [c \in Cores |-> Closed]]
  /\ todo' = Tail(todo)
  /\ pc' = "add"
  /\ UNCHANGED <<g_cfg, procs, perf, pcPerf, pcWin, i, limit, toOpen, loop, observed>>

\* The array once remove_slot has copied the last slot into slot k.
Moved(array, k) == [array EXCEPT ![k] = array[n]]

\* Fault: the entries of the cores are not moved.
RemoveSlotKeepsCoreEntries(k) ==
  /\ n' = n - 1
  /\ st' = Moved(st, k) /\ comm' = Moved(comm, k)
  /\ win' = Moved(win, k) /\ pcWin' = Moved(pcWin, k) /\ corePrev' = Moved(corePrev, k)
  /\ sm' = Moved(sm, k) /\ valid' = Moved(valid, k) /\ age' = Moved(age, k)
  /\ perf' = Moved([perf EXCEPT ![k] = Closed], k)
  /\ pcPerf' = Moved([pcPerf EXCEPT ![k] = [c \in Cores |-> Closed]], k)
  /\ UNCHANGED <<pcSm, pcAge>>

\* The copies leave the old values in slot n, which is no longer used; the
\* valid flag and timestamp there are cleared, the per-core ones swapped.
RemoveSlot(k) ==
  /\ n' = n - 1
  /\ st' = Moved(st, k)
  /\ comm' = Moved(comm, k)
  /\ win' = Moved(win, k)
  /\ sm' = Moved(sm, k)
  /\ pcWin' = Moved(pcWin, k)
  /\ pcSm' = Moved(pcSm, k)
  /\ corePrev' = Moved(corePrev, k)
  /\ perf' = Moved([perf EXCEPT ![k] = Closed], k)
  /\ pcPerf' = Moved([pcPerf EXCEPT ![k] = [c \in Cores |-> Closed]], k)
  /\ pcAge' = [Moved(pcAge, k) EXCEPT ![n] = pcAge[k]]
  /\ valid' = IF k = n THEN valid ELSE [Moved(valid, k) EXCEPT ![n] = FALSE]
  /\ age' = IF k = n THEN age ELSE [Moved(age, k) EXCEPT ![n] = Never]

-----------------------------------------------------------------------------
(* The loop: run_sampling_loop and the sync_pids it calls *)

LeaveLoop ==
  /\ pc = "top" /\ ~running
  /\ pc' = "cleanup"
  /\ UNCHANGED <<g_cfg, procs, table, i, todo, limit, toOpen, loop, observed>>

FastTick ==
  /\ pc = "top" /\ running /\ phase # 0
  /\ pc' = "fast"
  /\ i' = 1
  /\ UNCHANGED <<g_cfg, procs, table, todo, limit, toOpen, loop, observed>>

SyncDue == phase = 0 /\ sinceSync >= SyncEvery

DisplayLimit == IF g_cfg.topN > 0 THEN g_cfg.topN ELSE n

\* sync_pids returns at once: it last ran less than a second ago.
SlowTick ==
  /\ pc = "top" /\ running /\ phase = 0 /\ ~SyncDue
  /\ pc' = "sample"
  /\ i' = 1
  /\ limit' = DisplayLimit
  /\ UNCHANGED <<g_cfg, procs, table, todo, toOpen, loop, observed>>

\* What proc_scanner_top_n may return: some processes that existed during the
\* scan, ranked in any order, top_n of them at the most.  A scan that cannot
\* read /proc returns none.
Rankings ==
  LET Found == {p \in Pids : alive[p]}
  IN {s \in SeqOf(Found, Lesser(g_cfg.topN, MaxPids)) : IsInjective(s)}

SyncScan ==
  /\ pc = "top" /\ running /\ SyncDue
  /\ sinceSync' = 0
  /\ IF Explicitly
       THEN todo' = g_cfg.pids /\ UNCHANGED st
       ELSE /\ todo' \in Rankings
            /\ st' = [k \in Slots |-> IF k \in Used THEN [st[k] EXCEPT !.active = FALSE]
                                                    ELSE st[k]]
  /\ pc' = "add"
  /\ UNCHANGED <<g_cfg, procs, n, slow, cached, i, limit, toOpen, phase, running, observed>>

\* The slot of the next desired process: found, or added if that can be done.
SyncKeep ==
  /\ pc = "add" /\ todo # <<>>
  /\ Wanted \in Tracked
  /\ st' = IF Explicitly THEN st
           ELSE [k \in Slots |-> IF k \in Used /\ st[k].pid = Wanted
                                   THEN [st[k] EXCEPT !.active = TRUE] ELSE st[k]]
  /\ todo' = Tail(todo)
  /\ UNCHANGED <<g_cfg, procs, n, slow, cached, pc, i, limit, toOpen, loop, observed>>

SyncAdd ==
  /\ pc = "add" /\ todo # <<>>
  /\ Wanted \notin Tracked
  /\ AddRefused \/ AddFails \/ AddOpens
  /\ UNCHANGED <<g_cfg, procs, i, limit, loop, observed>>

SyncAdded ==
  /\ pc = "add" /\ todo = <<>>
  /\ pc' = "evict"
  /\ i' = 1
  /\ UNCHANGED <<g_cfg, procs, table, todo, limit, toOpen, loop, observed>>

\* Fault: kill(pid, 0) is not asked.
UnwantedUnasked(k) == ~st[k].active

\* Explicit mode asks kill(pid, 0) whether the process still exists, top-N
\* mode whether it was in the ranking.
Unwanted(k) == IF Explicitly THEN ~alive[st[k].pid] ELSE ~st[k].active

\* Fault: the loop, which has no i++ of its own, does not step over a kept slot.
EvictStays ==
  /\ pc = "evict" /\ i \in Used
  /\ IF Unwanted(i) THEN RemoveSlot(i) ELSE UNCHANGED table
  /\ UNCHANGED <<g_cfg, procs, pc, i, todo, limit, toOpen, loop, observed>>

Evict ==
  /\ pc = "evict" /\ i \in Used
  /\ IF Unwanted(i) THEN RemoveSlot(i) /\ i' = i
                    ELSE i' = i + 1 /\ UNCHANGED table
  /\ UNCHANGED <<g_cfg, procs, pc, todo, limit, toOpen, loop, observed>>

\* Fault: the display limit is computed before sync_pids.
EvictedOldLimit ==
  /\ pc = "evict" /\ i \notin Used
  /\ pc' = "sample"
  /\ i' = 1
  /\ UNCHANGED <<g_cfg, procs, table, todo, limit, toOpen, loop, observed>>

Evicted ==
  /\ pc = "evict" /\ i \notin Used
  /\ pc' = "sample"
  /\ i' = 1
  /\ limit' = DisplayLimit
  /\ UNCHANGED <<g_cfg, procs, table, todo, toOpen, loop, observed>>

-----------------------------------------------------------------------------
(* The slow path.  displayed is i - 1: it counts the slots kept so far. *)

Sampling == pc = "sample" /\ i \in Used /\ i - 1 < limit

\* perf_counter_read fails: it may once the process is gone, and does on the
\* software clock, whose group format is longer than what is read.
Unreadable(o) == o # Closed => ~Exists(o)

\* Fault: the loop moves on after a removal.
SampleGoneSkips ==
  /\ Sampling
  /\ Unreadable(perf[i])
  /\ RemoveSlot(i)
  /\ i' = i + 1
  /\ UNCHANGED <<g_cfg, procs, pc, todo, limit, toOpen, loop, observed>>

\* A slot whose counters cannot be read is removed, and the one moved into its
\* place examined next.
SampleGone ==
  /\ Sampling
  /\ Unreadable(perf[i])
  /\ RemoveSlot(i)
  /\ UNCHANGED <<g_cfg, procs, pc, i, todo, limit, toOpen, loop, observed>>

\* No cycles since the last sample.
SampleIdle ==
  /\ Sampling
  /\ perf[i] # Closed
  /\ seen' = seen \cup {st[i].pid}
  /\ st' = [st EXCEPT ![i].final = ~Exists(perf[i])]
  /\ i' = i + 1
  /\ UNCHANGED <<g_cfg, procs, n, slow, cached, pc, todo, limit, toOpen, loop, batch, ranAge>>

\* What a sample of slot k adds to one of its windows: the counters tell of the
\* process they were opened for, the maps of the one that has its PID now.
SampleOf(k, w) == IF w \in Counters THEN perf[k] ELSE Current(st[k].pid)

\* The entry of a core: its own counter windows, the map windows of the slot.
CoreEntry(p, own, slot) ==
  [pid |-> p, of |-> [w \in Windows |-> IF w \in Counters THEN own ELSE slot[w]]]

\* The process ran, on the cores in ran, whose entries go to the classifier at
\* once; the counters of the cores in failed could not be read.  The counters
\* of a process that is gone stay readable but move no more: one last sample
\* can have cycles.
SampleRan ==
  /\ Sampling
  /\ perf[i] # Closed
  /\ ~st[i].final
  /\ seen' = seen \cup {st[i].pid}
  /\ st' = [st EXCEPT ![i].final = ~Exists(perf[i])]
  /\ comm' = [comm EXCEPT ![i] = Current(st[i].pid)]
  /\ win' = [win EXCEPT ![i] = [w \in Windows |-> @[w] \cup {SampleOf(i, w)}]]
  /\ sm' = [sm EXCEPT ![i] = [pid |-> st[i].pid, of |-> win'[i]]]
  /\ valid' = [valid EXCEPT ![i] = TRUE]
  /\ age' = [age EXCEPT ![i] = 0]
  /\ \E failed \in SUBSET {c \in Selected : Unreadable(pcPerf[i][c])} :
     \E ran \in SUBSET {c \in Selected \ failed : pcPerf[i][c] # Closed} :
       /\ corePrev' = [corePrev EXCEPT ![i] =
            [c \in Cores |-> IF c \in failed THEN Closed
                             ELSE IF c \in Selected THEN pcPerf[i][c] ELSE @[c]]]
       /\ pcWin' = [pcWin EXCEPT ![i] =
            [c \in Cores |-> IF c \in ran THEN @[c] \cup {pcPerf[i][c]} ELSE @[c]]]
       /\ pcSm' = [pcSm EXCEPT ![i] =
            [c \in Cores |-> IF c \in ran THEN CoreEntry(st[i].pid, pcWin'[i][c], win'[i])
                                          ELSE @[c]]]
       /\ pcAge' = [pcAge EXCEPT ![i] = [c \in Cores |-> IF c \in ran THEN 0 ELSE @[c]]]
       /\ ranAge' = [ranAge EXCEPT ![st[i].pid] =
            [c \in Cpus |-> IF c \in ran \cup {-1} THEN 0 ELSE @[c]]]
       /\ batch' = batch \cup {[cpu |-> c, data |-> pcSm'[i][c]] : c \in ran}
  /\ i' = i + 1
  /\ UNCHANGED <<g_cfg, procs, n, perf, pcPerf, pc, todo, limit, toOpen, loop>>

Sampled ==
  /\ pc = "sample" /\ ~Sampling
  /\ pc' = "fast"
  /\ i' = 1
  /\ limit' = 0
  /\ UNCHANGED <<g_cfg, procs, table, todo, toOpen, loop, observed>>

-----------------------------------------------------------------------------
(* The fast path, and the sleep to the next tick *)

\* Fault: the staleness test of the cores is missing.
EntriesStaleCores(k) ==
  IF ~valid[k] \/ age[k] > Stale THEN {}
  ELSE {[cpu |-> -1, data |-> sm[k]]} \cup
       {[cpu |-> c, data |-> pcSm[k][c]] : c \in {c \in Selected : pcSm[k][c].pid # NoPid}}

\* What slot k sends to the classifier: nothing while its aggregate entry is
\* unset or stale, else that entry and those of the cores that are not.
Entries(k) ==
  IF ~valid[k] \/ age[k] > Stale THEN {}
  ELSE {[cpu |-> -1, data |-> sm[k]]} \cup
       {[cpu |-> c, data |-> pcSm[k][c]] :
          c \in {c \in Selected : pcSm[k][c].pid # NoPid /\ pcAge[k][c] <= Stale}}

FastPush ==
  /\ pc = "fast" /\ i \in Used
  /\ batch' = batch \cup Entries(i)
  /\ i' = i + 1
  /\ UNCHANGED <<g_cfg, procs, table, pc, todo, limit, toOpen, loop, seen, ranAge>>

\* clock_nanosleep; the daemon may be woken late.
Sleep ==
  /\ pc = "fast" /\ i \notin Used
  /\ \E d \in 1 .. MaxSleep :
       LET Older(a) == Lesser(a + d, Never)
       IN /\ age' = [k \in Slots |-> Older(age[k])]
          /\ pcAge' = [k \in Slots |-> [c \in Cores |-> Older(pcAge[k][c])]]
          /\ ranAge' = [p \in Pids |-> [c \in Cpus |-> Older(ranAge[p][c])]]
          /\ sinceSync' = Lesser(sinceSync + d, SyncEvery)
  /\ phase' = (phase + 1) % SlowEvery
  /\ batch' = {} /\ seen' = {}
  /\ pc' = "top"
  /\ UNCHANGED <<g_cfg, procs, n, st, slow, sm, valid, pcSm, i, todo, limit, toOpen, running>>

\* cleanup closes the counters of every slot in use.
Cleanup ==
  /\ pc = "cleanup"
  /\ perf' = [k \in Slots |-> IF k \in Used THEN Closed ELSE perf[k]]
  /\ pcPerf' = [k \in Slots |-> [c \in Cores |->
                  IF k \in Used THEN Closed ELSE pcPerf[k][c]]]
  /\ pc' = "done"
  /\ UNCHANGED <<g_cfg, procs, n, st, comm, win, pcWin, corePrev, cached, i, todo, limit, toOpen,
                 loop, observed>>

Sync   == SyncScan \/ SyncKeep \/ SyncAdd \/ OpenCore \/ FillSlot \/ SyncAdded \/ Evict
            \/ Evicted
Sample == SampleGone \/ SampleIdle \/ SampleRan \/ Sampled
Daemon == LeaveLoop \/ FastTick \/ SlowTick \/ Sync \/ Sample \/ FastPush \/ Sleep \/ Cleanup
Environment == Signal \/ \E p \in Pids : ExitProc(p) \/ SpawnProc(p)

Next == Daemon \/ Environment

Spec == Init /\ [][Next]_vars

\* The daemon's one thread is scheduled; nothing is assumed of the processes.
FairSpec == Spec /\ WF_vars(Daemon)
-----------------------------------------------------------------------------
(* Properties *)

WindowsOf == [Windows -> SUBSET Owner]
EntryType == [pid : Pids \cup {NoPid}, of : WindowsOf]

TypeOK ==
  /\ g_cfg \in Config
  /\ alive \in [Pids -> BOOLEAN] /\ gen \in [Pids -> 0 .. MaxGen]
  /\ n \in 0 .. MaxPids
  /\ st \in [Slots -> [pid : Pids \cup {NoPid}, active : BOOLEAN, final : BOOLEAN]]
  /\ perf \in [Slots -> Owner \cup {Closed}]
  /\ comm \in [Slots -> Owner \cup {Closed}]
  /\ win \in [Slots -> WindowsOf]
  /\ sm \in [Slots -> EntryType]
  /\ valid \in [Slots -> BOOLEAN]
  /\ age \in [Slots -> 0 .. Never]
  /\ pcPerf \in [Slots -> [Cores -> Owner \cup {Closed}]]
  /\ pcWin \in [Slots -> [Cores -> SUBSET Owner]]
  /\ pcSm \in [Slots -> [Cores -> EntryType]]
  /\ pcAge \in [Slots -> [Cores -> 0 .. Never]]
  /\ corePrev \in [Slots -> [Cores -> Owner \cup {Closed}]]
  /\ pc \in {"top", "add", "open", "evict", "sample", "fast", "cleanup", "done"}
  /\ i \in 1 .. MaxPids + 1
  /\ todo \in Seq(Pids)
  /\ limit \in Nat
  /\ toOpen \subseteq Cores
  /\ phase \in 0 .. SlowEvery - 1
  /\ sinceSync \in 0 .. SyncEvery
  /\ running \in BOOLEAN
  /\ batch \subseteq [cpu : Cpus, data : EntryType]
  /\ seen \subseteq Pids
  /\ ranAge \in [Pids -> [Cpus -> 0 .. Never]]

\* A process is monitored in one slot at the most, whatever was added, evicted
\* or moved, and in explicit mode even if its PID was given twice (find_slot
\* before add_pid).  Two slots would report the process twice per tick.
DistinctPids == \A j, k \in Used : st[j].pid = st[k].pid => j = k

Borne(p) == {p} \X (0 .. MaxGen)   \* the processes that bear a PID

\* All the arrays agree on whose slot it is, after any sequence of additions,
\* failed additions and removals, with PIDs reused at any moment (BUG 3 FIX and
\* the resets of add_pid).  The counters of the slot, its map windows and its
\* name are those of processes that bore the slot's PID; a counter window holds
\* the samples of the counters now open and no other's, and so do the entries
\* the fast path would push; no difference is ever taken across two counters.
\* (cleanup closes the counters and nothing is sampled after it.)
SlotCoherent ==
  pc # "done" => \A k \in Used : LET p == st[k].pid IN
    /\ {perf[k], comm[k]} \subseteq Borne(p) \cup {Closed}
    /\ \A w \in Windows : win[k][w] \subseteq IF w \in Counters THEN {perf[k]} ELSE Borne(p)
    /\ valid[k] => sm[k] = [pid |-> p, of |-> win[k]]
    /\ \A c \in Cores :
         /\ pcPerf[k][c] # Closed =>
              pcPerf[k][c] \in Borne(p) /\ pcWin[k][c] \subseteq {pcPerf[k][c]}
         /\ pcSm[k][c].pid # NoPid =>
              /\ pcSm[k][c].pid = p
              /\ \A w \in Windows : IF w \in Counters THEN pcSm[k][c].of[w] = pcWin[k][c]
                                                      ELSE pcSm[k][c].of[w] \subseteq win[k][w]
         /\ corePrev[k][c] \in {Closed, pcPerf[k][c]}

\* The classifier gets an entry only if the slow path saw that process run,
\* on that cpu, within the staleness threshold: "not ... a sleeping process as
\* CPU-bound", and never the zeroes of an unsampled slot (BUG 2 FIX).
FreshPush ==
  \A e \in batch : /\ e.data.pid \in Tracked
                   /\ \A w \in Windows : e.data.of[w] # {}
                   /\ ranAge[e.data.pid][e.cpu] <= Stale

\* In the middle of the slow path exactly the slots before i have been
\* examined: a removal, which moves the last slot under i, makes the loop
\* neither skip that slot nor examine one twice (the i-- pattern).
ExaminedOnce == pc = "sample" => \A k \in Used : st[k].pid \in seen <=> k < i

\* The slow path leaves no slot unexamined: the display limit never binds.
AllExamined == pc = "fast" /\ phase = 0 => Tracked \subseteq seen

\* After SIGTERM the loop ends and cleanup runs, whatever processes do.
Stops == ~running ~> pc = "done"

\* A process that is gone for good is in the end no longer monitored.
DeadForgotten ==
  \A p \in Pids : <>[](~alive[p]) => <>[](p \notin Tracked \/ ~running)

\* "PID-reuse correctness" (BUG 5 NOTE in add_pid): when a PID is given to a
\* new process, that process gets a slot with baselines and windows of its own.
\* A process that lives on and stays monitored is in the end the one its slot's
\* counters count.
ReusedPidMeasured ==
  \A p \in Pids :
    <>[](alive[p] /\ p \in Tracked /\ running) =>
    []<>(\E k \in Used : st[k].pid = p /\ perf[k] = Current(p))
=============================================================================
