# capstone_monitor: specifications, model checking and proofs

This directory specifies `capstone_monitor`, a Linux daemon that samples the
hardware counters of processes and feeds two consumers through shared memory.
It holds TLA+ modules translated from the C and Python sources, the TLC
configurations that check them on small instances, and proofs checked by TLAPS.
Paths are relative to the root of the repository.

1. [The system](#1-the-system) — components, state, interaction, what is hard
2. [The modules](#2-the-modules) — what each one models and how it maps to the code
3. [What is checked](#3-what-is-checked) — runs, bounds, fairness
4. [What is proved](#4-what-is-proved)
5. [Where the code and its documents disagree](#5-where-the-code-and-its-documents-disagree)
6. [What is not modelled](#6-what-is-not-modelled)
7. [Plan](#7-plan)

## 1. The system

The daemon `monitor_final` is one process with one thread. Every 50 ms its loop
(`run_sampling_loop`, `src/final/src/monitor_final.c`) does a *fast path*: it
pushes the latest entry of every monitored process to the classifier's ring.
Every fourth tick a *slow path* runs first: it brings the set of monitored
processes up to date, reads their counters, smooths them, and pushes new entries
to the classifier, the dashboard and a CSV file.

| Component | Source | State | Operations |
|---|---|---|---|
| Ring buffer | `src/ring_buffer.c`, `src/ring_buffer.h`, `src/smoothed_metrics.h` | slots, atomic `head` and `tail` | `rb_push`, `rb_pop`, `rb_is_full`, `rb_is_empty` |
| Shared-memory objects | `src/ring_buffer.c`, `monitor_final.c` (`init_shm`, handlers, `cleanup`) | the names in `/dev/shm`, the regions mapped | create, attach, destroy, signals |
| Slot table | `monitor_final.c` 68–135, 319–588 | `g_n_active`, `g_states`, `g_perf`, windows, cached entries, timestamps: a dozen parallel arrays | `find_slot`, `add_pid`, `remove_slot`, `sync_pids` |
| Sampling loop | `monitor_final.c` 662–1007 | phase, deadline, per-slot baselines | slow path, fast path, sleep |
| Hardware counters | `src/perf_counter.c` | three descriptors per counter, one aggregate counter and one per core | open, read, close |
| Process scanner | `src/proc_scanner.c` | CPU times of all processes, ranking | full and targeted scan, top n |
| eBPF programs | `bpf/ctx_switch.bpf.c` | five hash maps of 10240 entries | tracepoints of switch, exit, fork, exec, block I/O |
| eBPF tracer | `src/ebpf_tracer.c` | map descriptors | read counters, drain `active_pids`, lookup and delete of `exec_comms` |
| Sliding window | `src/sliding_window.c` | ring of samples and a running sum | push, mean |
| Dashboard | `dashboard.py` | its view of the ring, CPU times | drain, classify, draw |
| Calibration | `calibrate.py` | thresholds | stop the service, run daemons of its own, restart it |
| Service unit, installer, Makefile, overhead test | `capstone_monitor.service`, `install.sh`, `Makefile`, `tests/` | — | restart policy, unit name, limits |

How they interact:

- daemon and consumers share two ring buffers, without a lock, as processes that
  start, stop and crash independently;
- the daemon and the processes it monitors race: a process may exit, and its PID
  may be given to another, between any two steps of the loop;
- the eBPF programs run on every CPU at any time and share maps with the daemon;
- signals reach the daemon at any instruction; systemd restarts it after a
  failure; `calibrate.py` starts a second one.

What is hard, and what makes each part correct:

| Part | Hard behaviour | Correct means |
|---|---|---|
| Ring buffer | two struct copies overlap; full and empty differ by one slot; a consumer dies inside `rb_pop` | no slot is written and read at once; entries arrive whole and in order; the drop count is exact; a push never waits |
| Slot table | `remove_slot` moves the last slot into the hole, array by array, in the middle of loops over the slots; PIDs are reused; cached entries outlive their sample | one slot per process; all arrays describe the same process; every slot examined once; nothing stale or foreign is pushed; a dead process loses its slot; SIGTERM ends the loop |
| Hardware counters | group opens fail half way; descriptors run out; descriptor numbers are reused; zeroed structs hold descriptor 0 | a descriptor belongs to one counter and is closed once; a failed read means the process is gone |
| Shared-memory lifecycle | crash, abort or stop between any two system calls; a second daemon | who attaches by name gets the ring that is being written, or no ring |
| Dashboard | a memory layout copied by hand into another language | the ring is drained (not modelled, section 6) |
| BPF maps, deltas | counters that vanish when a process exits while its cycles can still be read; three counters read at three moments; programs on several CPUs | no event of a running process is lost or reported twice; a name survives; nothing is left to the next process of the PID |
| Sliding window | a running sum over a ring, computed anew now and then | the mean is that of the last samples |
| Scanner | a table of entries with a capacity, compacted after scans that read some processes only; processes come and go while it reads | nobody gone is ranked, nobody monitored is lost, a process is found within a bounded number of scans and ranked by what it used |
| Tick | late wake-ups | every entry that is pushed is fresh all the same |

The hazards, each with its line and the properties that cover it, are listed in
`PROJECT.json`.

## 2. The modules

| Module | Models | Size of the model |
|---|---|---|
| `LossyQueue` | the abstract promise of the ring: a bounded FIFO of whole entries that may refuse one only when full | 3 actions |
| `SpscRing` | `rb_push` and `rb_pop`, one memory access a step | 8 actions |
| `SlotTable` | the loop, the options that choose a mode, `sync_pids`, `add_pid`, `remove_slot`, slow and fast path, processes that come and go, SIGTERM | 21 actions |
| `PerfFds` | the descriptors behind the slots, one system call a step | 8 actions |
| `ShmLifecycle` | names and regions from the daemon's start to its end, restarts, signals, a second daemon, consumers that attach and stay | 14 actions |
| `BpfMaps` | the five eBPF programs and their maps, for one PID and the processes that bear it | 11 actions |
| `SlidingWindow` | `sw_init` and `sw_push` | functions |
| `Sampler` | baselines, reads, differences, window and name of one slot, over `BpfMaps` and `SlidingWindow` | 24 actions |
| `Discovery` | `proc_scanner.c` and the choice of the scan in `sync_pids` | 12 actions |
| `SpscRing_proofs`, `SpscRing_refinement`, `SlotTable_proofs`, `PerfFds_proofs`, `ShmLifecycle_proofs`, `SlidingWindow_proofs`, `Sampler_proofs`, `Discovery_proofs` | theorems and proofs about the module each is named after | |
| `MCSpscRing`, `MCSlotTable`, `MCPerfFds`, `MCDiscovery` | values of constants that a `.cfg` cannot write | |

What one module takes for granted another one shows. `SlotTable` lets a ranking
be any set of processes that exist when it is made, and does not look at numbers:
`Discovery` is about which processes those are (`RankedSeen`), `PerfFds` about the
descriptors behind a slot, `Sampler` about the numbers of one slot, `SpscRing`
about what becomes of an entry once it is pushed.

Definitions marked `Fault:` in the modules are not part of any specification.
Each is what the definition that follows it would be if the code had a certain
bug (a dropped guard, an off-by-one, an array that a move forgets); putting it in
that definition's place must make TLC find the property violated that is meant
to catch such a bug. `PROJECT.json` lists these pairs under `mutants`.

### SpscRing, refining LossyQueue

`slots`, `head`, `tail` are the fields of `RingBuffer`; `ppc` and `unwritten`
say where the producer is in `rb_push`, `cpc` and `unread` where the consumer is
in `rb_pop`. A `SmoothedMetrics` is 48 bytes, which no processor copies in one
access: `PushWord` and `PopWord` copy one word, in any order. `PushBegin` and
`PopBegin` are the acquire load of the index the other side owns, `PushEnd` and
`PopEnd` the release store of one's own. `PushDrop` is the full ring together
with its callers' `g_rb_drops++`. `ConsumerRestart` is a consumer that dies
inside `rb_pop` and attaches again.

An interleaving of whole word accesses is a sound reading of the C11 program
only if plain accesses to one slot never overlap; `NoDataRace` says that they do
not, and it is proved first. Entries are numbered by the call of `rb_push` that
made them, all words of an entry carrying its number: enough to see torn, lost,
repeated and reordered entries.

### SlotTable

These arrays are kept, per slot: `perf`/`pcPerf` (counters), `comm` (`g_comm`), `win`
(the four windows `g_win_ipc`, `_llc`, `_ctx`, `_io`) and `pcWin` (those of a core),
`corePrev` (`g_core_prev`), `sm`/`valid`/`age` (`g_last_sm`, its flag and
timestamp), `pcSm`/`pcAge` (their per-core counterparts). The numbers are
abstracted to *whose they are*, an incarnation `<<pid, generation>>`: a counter
carries the one it was opened for, the others the ones their contents were taken
from. An entry holds the PID written in it and the contents of the windows its
means were taken from. This is what tells a correct move of a slot from one that
forgets an array.

The sources of a sample differ in how they are addressed, and the model keeps the
difference (`SampleOf`): a perf counter stays with the process it was opened for,
while the eBPF maps and `/proc` are asked by PID number and answer for the process
that bears it then. After a reuse a slot's windows `ctx` and `io` therefore mix
processes, its windows `ipc` and `llc` do not. The baselines in `g_states` are values
of one slot and are the subject of `Sampler`.

- `ParseArgs` turns a command line into `g_cfg` option by option, as `parse_args`
  does, with its clamps and defaults; a run of the daemon begins with one of
  `CommandLines`. The mode, the list of `--pids`, `top_n` and the selected cores
  come from it.
- `SyncScan`, `SyncKeep`, `SyncAdd`, `SyncAdded`, `Evict`, `Evicted` are
  `sync_pids` in the order of the code (add first, evict afterwards), with its
  one-second throttle (`SyncDue`); `Rankings` is what `proc_scanner_top_n` may
  return: processes that exist when the scan is made, none twice, at most `TopN`, in
  any order; they may be gone by the time they are added.
- `add_pid` is several steps, as processes exit and are replaced between its system
  calls: `AddRefused` (full table), `AddFails` (no counter could be opened),
  `AddOpens` (the aggregate counter), `OpenCore` for each core in turn, which may open
  or fail, and `FillSlot`, which clears the other arrays and reads name and maps.
  Either kind of counter may have fallen back to the software clock: it is open then
  but cannot be read (section 5), which is also `Closed` here, and no core is opened
  beside an aggregate counter that has.
- `RemoveSlot` copies array by array what `remove_slot` copies, and leaves in the freed
  slot what the code leaves there.
- `SampleGone`, `SampleIdle`, `SampleRan` are the three ways through the body of
  the slow path: a failed read and the `i--` pattern, no cycles since the last
  sample, and a new entry that is smoothed, cached and pushed. A read fails, and the
  slot is removed, if the process is gone or the counter is the software clock
  (`Unreadable`), so a live process can lose its slot as well. Counters of a
  process that is gone may also stay readable in the kernel and move no more; they
  may yield one more sample (`final`). The reads of one slot are one step here;
  `Sampler` takes them apart.
- `FastPush` and `Sleep` are the rest of the tick. Timestamps are kept as ages in
  ticks, capped just above `Stale`, beyond which the code makes no distinction.

The pushes to the dashboard, CSV rows and the values themselves are left out:
nothing in the loop depends on them. `batch`, `seen` and `ranAge` only observe
(what was pushed in this tick, who was examined, when a process was last seen
running).

### PerfFds

The kernel's descriptor table is modelled as it is: `open` takes the lowest free
number, `close` frees a number whoever was using it. `OpenLeader`,
`OpenSoftware` and `OpenMember` are the three `perf_event_open` calls of
`perf_counter_open` and its software fallback with their error paths; a read
succeeds only if the buffer is as large as the event needs (`Event.size`,
`ReadBuffer`), which is the kernel's rule for `PERF_FORMAT_GROUP`. `SampleGone`,
`Evict` and `Cleanup` are the callers of `perf_counter_close`. `Hosts` is the set
of machines tried: number of cores, whether there is a PMU, and how many
descriptors the limit allows.

### ShmLifecycle

A name of `/dev/shm` and the region behind it are kept apart (`names`, `mapped`),
since `shm_unlink` affects only the first. Every system call of
`rb_create_named` and `rb_destroy_named` is a step; `exit(1)`, SIGTERM, a fatal
signal with its handler, and SIGKILL may come between any two. `Start` includes
systemd's restarts. `calibrate.py` is a second daemon; `KeptApart` is what
stopping the service first would achieve if the unit's name were the installed
one. `Attach` and `Detach` are a consumer of each ring: it maps whatever region
the name refers to, and keeps it after the name is gone.

### BpfMaps and Sampler

`BpfMaps` follows one PID: `proc` and `life` say which process bears it and where
in its life that process is, `ctx`, `io`, `active`, `exec` are its entries in
`vol_ctx_switches`, `io_counts`, `active_pids` and `exec_comms`. A tracepoint and
what causes it are one step, since a program runs to its end on its CPU.
`handle_block_rq_complete` is the exception: its lookup and its insertion are
two steps (`IoLookup`, `IoInsert`), as completions are handled on several CPUs.
Ends of a process differ in which thread dies last, because `handle_exit` deletes
by the id of the thread it runs in: `Exit` and `LastSwitch` if it is the main
thread (the last switch then inserts the entry again), `MainExits` and
`LastThreadExits` if it is not. `hooks` is what `ebpf_tracer_attach` could attach:
the block and exec tracepoints are optional.

`Sampler` puts one slot of the daemon on top. `AddPid`, `SeedCtx`, `SeedIo` are the
end of `add_pid`; `ReadCycles`, `ReadCtx`, `ReadIo` the three system calls of the
slow path; `IdleInterval` and `Sample` the two branches of the code, with what
each of them does to each baseline; `PopLookup`, `PopDelete`, `ReadProcComm` the
name. Of the cycle counter only `ran` is kept, whether it moved: that is all the
branch asks. Differences are modulo `Modulus`, as those of `uint64_t` are. `owedCtx`
and `owedIo` observe how many events took place that no interval has consumed; the
properties say that the maps and the baselines agree with them. `sw_push` is
called with the differences themselves, so that `recent`, the last of them, can be
compared with the window.

### Discovery

`entries` is the scanner's table, as a function from PIDs. A scan visits processes
one at a time (`Visit`), while they run, exit and start; `NoEntry` is the full
table, `NotListed` a process that `readdir` does not return because it came or went
during the walk. `SyncFull` and `SyncTargeted` are the two scans of `sync_pids`.
A targeted scan reads the tracked PIDs and any others: `active_pids` holds keys of
processes long gone and lacks some that run (it is bounded, and filled by thread),
so nothing here rests on what it returns. `EndScan` compacts the table and ranks;
`Tops` is the set of rankings `proc_scanner_top_n` may return, as where several
processes have the same difference it may choose any (`qsort` is not stable).
`SyncFullFails`, a walk that cannot open `/proc`, ranks by the same operator over the
entries it has just deactivated. `Adopt` is what the rest of `sync_pids` makes of the
ranking, with additions that fail; `Drop` is the slow path.

## 3. What is checked

Run a configuration with `tlc -config <file>.cfg <module>`; the runs and their
properties are listed in `PROJECT.json`.

| Run | Module and configuration | States | What it shows |
|---|---|---|---|
| `ring` | `MCSpscRing` | 12 027 | `NoDataRace`, `DropAccounting`, `InOrder`, `PushReturns`, and that the ring implements `LossyQueue` |
| `slots_top` | `MCSlotTable`, `MCSlotTop.cfg` | 2 377 124 | top-N and per-core mode, more processes than slots: `DistinctPids`, `SlotCoherent`, `FreshPush`, `ExaminedOnce` |
| `slots_modes` | `MCSlotTable`, `MCSlotModes.cfg` | 799 646 | `--pids` with a PID given twice, `--top` out of range, and per-core mode on two cores, PIDs reused at any moment: `DistinctPids`, `AllExamined`, `SlotCoherent`, `Stops`, `DeadForgotten` |
| `slots_reuse` | `MCSlotTable`, `MCSlotReuse.cfg` | violated | `ReusedPidMeasured` |
| `fds` | `MCPerfFds` | 39 536 | with a PMU and per-core counters, and without a PMU and with fewer descriptors than slots: `OwnEvents`, `NoFdLeak`, `CountedUntilExit` |
| `fds_stdin` | `MCPerfFds`, `MCPerfFdsStdin.cfg` | violated | `StdinKept` |
| `shm` | `ShmLifecycle`, `MCShm.cfg` | 44 397 | `ServingVisible`, `NoStaleNames`, `DrainedNotReset`, `TerminateEnds` |
| `shm_calibrate` | `ShmLifecycle`, `MCShmCalibrate.cfg` | violated | `CalibrationCollidesNot` |
| `sampler` | `Sampler`, `MCSampler.cfg` | 1 285 072 | `ExitForgets`, `SwitchesAccounted`, `IoAccounted`, `IdleDropsOnlyRaces`, `WindowIsRecent`, `NameCatchesUp` |
| `sampler_exit` | `Sampler`, `MCSamplerExit.cfg` | violated | `NoPhantomSwitches` |
| `scan` | `MCDiscovery` | 4 464 750 | `RankedSeen`, `MonitoredKept`, `FullScanFinds`, `DeltaExact`, `FoundInTime` |
| `scan_forgets` | `MCDiscovery`, `MCDiscoveryForgets.cfg` | violated | `DeltaIsUse` |

One run of each module with passing runs also checks its type invariant.

### Bounds, and why they are enough

- **Ring**: few slots and two words, with enough pushes for both indices to go
  round more than twice: every relative position of the two sides, full, empty
  and wrapped, occurs. The safety results do not rest on the bounds: they are
  proved for every capacity.
- **Slots**: two slots are the least for which a removal moves another slot, and
  three processes for two slots (`slots_top`) the least for a full table with a
  newcomer.
  `SlowEvery`, `SyncEvery` and `Stale` keep the order of the periods in the code:
  fast ticks between slow ones, slow ticks with and without a sync, entries that
  survive a slow tick and entries that do not. `MaxSleep` bounds how late a tick
  is (`slots_top`). One core is enough there to tell the aggregate from a core.
  `MaxGen = 1` (`slots_modes`, `slots_reuse`) lets each PID be reused once, which
  gives the properties two incarnations to confuse. The per-core command line of
  `slots_modes` has one slot and two cores, so that a reuse can fall between the opens
  of its cores; freshness plays no part in that run (`Stale = 0`, no late ticks). The
  constraint `MCRunning` of `slots_top` cuts off what follows SIGTERM, which
  `slots_modes` has.
- **Descriptors**: three slots and processes. `Metal` has a PMU, one core and eight
  descriptors: group opens fail at each member, for the aggregate and for the core,
  and the descriptors are used up in the middle of the second slot. `Virtual` has no
  PMU, and two descriptors for three slots. `fds_stdin` has the one combination these
  leave out, per-core mode without a PMU.
- **Shared memory**: four starts of the service, so that a run can meet the
  remains of three earlier ones, each ended in another way; two daemons with one
  start each for the calibration.
- **Maps and samples**: a PID borne by two processes, the second of which meets what
  the first left; two events, enough for one on each side of every read, for two
  completions whose insertions overlap on two CPUs, and for an exec between lookup
  and delete of the name; a window of two samples, which fills, wraps and is
  computed anew after four pushes. `Modulus = 16` is above every count, so that
  only a difference below zero wraps.
- **Scanner**: three PIDs, one of them root's, and a table of two entries: it fills in
  the middle of a scan, and a targeted scan can leave out each of the others. A
  process that starts during a scan (`MaxBorn = 1`) can get a new PID or reuse one.
  One slot in the ranking makes processes compete; `FullEvery = 2` gives targeted
  scans between the walks; one tick of CPU time tells a process that ran from one
  that did not.

`CHECK_DEADLOCK FALSE` is set in every configuration because each of these systems
may stop: the daemon ends after SIGTERM, and bounded counters run out.

### Fairness

- `SpscRing`: weak fairness of the producer's steps only. The daemon's thread is
  scheduled by the kernel; a consumer may stall or die, so nothing is assumed of
  it, and `PushReturns` holds all the same.
- `SlotTable`: weak fairness of the daemon's next step (`Daemon`), the one thread
  there is. No process is assumed ever to exit or to start, and a signal need not
  come.
- `ShmLifecycle`: weak fairness of each daemon's `Step`: a daemon that is told to
  stop is given CPU time. Crashes and starts are not fair.
- `Sampler`: weak fairness of the daemon's steps. Of the monitored process nothing is
  assumed: `NameCatchesUp` is about one that goes on running of its own accord.
- `Discovery`: none. `FoundInTime` counts scans instead of waiting for one, which is
  both stronger and a safety property.

## 4. What is proved

TLAPS checks the theorems below for every value of the constants that satisfies
the named assumptions of the modules; what a theorem assumes beyond them is in its
statement. Every safety property that a passing run checks is the subject of a
theorem. The strengthened invariants were first checked by TLC on the bounds of
section 3.

| Module | Theorem | Statement | Inductive invariant |
|---|---|---|---|
| `SpscRing_proofs` | `TypeCorrect`, `RaceFree`, `DropsExact` | `Spec => []TypeOK`, `[]NoDataRace`, `[]DropAccounting` | `Inv` |
| | `ReceivedInOrder` | `Spec => InOrder` | `Inv`, `Ordered` |
| `SpscRing_refinement` | `RingRefinesQueue` | `Spec => ImplementsLossyQueue` | `Inv` |
| `SlotTable_proofs` | `TypeCorrect` | `Spec => []TypeOK` | `Typed` |
| | `OneSlotEach` | `Spec => []DistinctPids` | itself, `Typed` |
| | `ArraysAgree` | `Spec => []SlotCoherent` | itself, `Typed` |
| | `LoopExaminesOnce` | `Spec => []ExaminedOnce` | `Examined` |
| | `PushesAreFresh` | `Spec => []FreshPush` | `SlotCoherent`, `EntriesKnown`, `BatchFresh` |
| | `LimitNeverBinds` | `OneMode` implies `Spec => []AllExamined` | `Examined`, `WithinTopN`, `WithinLimit` |
| | `ParsedInRange` | `ParseArgs(line) \in Config` for any line of options | |
| `PerfFds_proofs` | `TypeCorrect` | `Spec => []TypeOK` | `Typed`, `Halfway` |
| | `CountersOwn`, `NoneLeaked` | `PmuForCores` implies `Spec => []OwnEvents`, `[]NoFdLeak` | `Inv` |
| | `ReadUntilExit` | `PmuForCores` implies `Spec => CountedUntilExit` | `Inv`, `Sized`, `Backed` |
| `ShmLifecycle_proofs` | `TypeCorrect` | `Spec => []TypeOK` | `Typed` |
| | `CleanEnd` | `Spec => []NoStaleNames` | `NamesOwned` |
| | `SamplingIsVisible`, `DrainsUndisturbed` | `Spec /\ []Alone => []ServingVisible`, `DrainedNotReset` | `Undisturbed` |
| | `StoppingWouldServe` | `Spec /\ StartedAlone => []ServingVisible /\ DrainedNotReset` | `Alone`, `Undisturbed` |
| | `OneDaemon` | `Daemons = {service}` implies `Spec => []ServingVisible /\ DrainedNotReset` | |
| `Sampler_proofs` | `Forgets` | `Spec => []ExitForgets` | `MapsInv` |
| | `TypeCorrect` | `Spec => []TypeOK` | `SamplerInv` |
| | `EverySwitchOnce`, `IdleLosesNoSettled` | `NoWrap` implies `Spec => []SwitchesAccounted`, `[]IdleDropsOnlyRaces` | `Switches` |
| | `PhantomsComeOfExits` | `NoWrap` implies `Spec /\ []SamplesOfLiving => []NoPhantomSwitches` | `Switches` |
| | `EveryCompletionOnce` | `NoWrap` implies `Spec => []IoAccounted` | `Completions` |
| | `MeanOfTheLast` | `Spec => []WindowIsRecent` | `Windowed` |
| `Discovery_proofs` | `TypeCorrect` | `Spec => []TypeOK` | `Typed` |
| | `OnlySeenRanked` | `Spec => []RankedSeen` | `Phases` |
| | `TrackedKept`, `WalkFindsAll` | `Spec => []MonitoredKept`, `[]FullScanFinds` | `Finding` |
| | `FoundWithinPeriod` | `Spec => []FoundInTime` | `MissedFew` |
| | `RankedByUse` | `Spec => []DeltaExact` | `ReadingsOld`, `TotalsRead` |

### What the theorems assume

- **`LinesAssumption`** (`SlotTable`): a command line is a sequence of options with
  arguments of the right type, `--top` with any integer, `--cores` with any set of them.
- **`OneMode`**: no command line gives both `--pids` and `--top`. With both the
  limit can bind (section 6).
- **`PmuForCores`**: per-core mode is used on machines with a PMU only. The code allows
  the other combination, and there these properties are false, by the closing of
  descriptor 0 that `fds_stdin` shows; the theorems say that nothing else breaks them.
  `TypeCorrect` does not need it.
- **`Alone`**: daemons run one at a time. `StartedAlone` is a rule about starts that
  keeps it so, the one `calibrate.py` means to follow and, for the unit's name, does
  not: `StoppingWouldServe` is what the rule would give, `shm_calibrate` shows what comes
  of breaking it. Of a single service `Alone` holds by itself (`OneDaemon`).
- **`SamplesOfLiving`**: no sample is of a process that ends between its reads. Without
  it `NoPhantomSwitches` is false (section 5); the theorem says that nothing else
  makes it false.
- **In the properties themselves**: `ExitForgets` speaks of processes whose main thread
  dies last; where it dies first, name, I/O count and active entry stay in the maps
  (`LastThreadExits`), and a later process of the PID meets them. `DeltaExact` speaks of
  processes that kept their entry since they were last read; of the others its claim is
  false (`scan_forgets`). `IoAccounted` speaks of processes whose fork was traced.
- **`NoWrap`**: the word of a count is wider than all events and lives together. In the
  program it has 64 bits.

### The slot table

`DistinctPids`, `SlotCoherent` and `ExaminedOnce` are about the slots in use; that a
step keeps them is an argument about which slot changed. While `add_pid` opens
counters it writes only the slot after the last one, which is not in use yet
(`OpeningKeeps`); `Opening` carries what it has written from step to step: the
counters of that slot are of processes that bore the PID, and a core whose counter
is open has a window that was cleared for it. `FillSlot` puts the slot into use for a PID
`find_slot` has not found. `remove_slot` leaves in the hole what was in the last slot,
array by array, and that slot is no longer in use
(`RemoveSlotMoves`, which reads the result off the assignments once). A step that only
observes or waits leaves the table alone (`QuietKeepsTable`).

- `Typed` adds `InUse` to the types: a slot in use names a process, and its counters
  are open until `cleanup`.
- `ExaminedOnce` speaks of the middle of the slow path; `NotYet` says that a tick
  starts with nothing examined.
- `FreshPush` follows from what is known of each cached entry, not of the pushed ones
  alone. `EntriesKnown`: a valid entry was computed from a window that is not empty, and
  its process was seen running no longer ago than the entry's timestamp says.
  `BatchFresh` says the same of what was pushed in this tick, from the slots the loop
  has passed: a removal cannot take away the slot of an entry already pushed, since it
  moves a later one.
- `AllExamined` needs a count. `WithinTopN`: slots that were ranked, and processes
  still to be looked up, are together no more than `top_n`; after the evictions only
  ranked ones are left, so that the slots in use do not exceed the limit
  (`WithinLimit`) when the slow path starts.

That `parse_args` leaves `g_cfg` in range is a fold over the options. The induction
theorems of the library cannot be applied (they take an operator as a parameter),
but its well-founded orderings can: of the sets of options for which a claim fails
there is a smallest one (`SmallestSet`), and from it the claim follows for the set
without its last option. `FoldExists` and `FoldsAgree` show in this way that the
recursion behind `FoldLeft` has one solution, `ParsedInRange` that it stays in
`Config`.

### The descriptors

`Halfway` is what each step of `perf_counter_open` leaves to the next: which
descriptors of the current counter are open, how long a read of its group has become,
and that a fallback is opened only where the leader could not be. `Inv` says whose
each descriptor is: every descriptor of a counter in use, or of one being opened, is an
event of its process, cpu and kind (`Owning`); every event has such a counter
(`Owned`); no two slots are of one process (`OneEach`). From these `OneOwner`: two
counters never hold the same descriptor, so that closing one cannot touch another.
`Transfer` is the step common to all opens and to the failed ones: if a step changes
one counter only, and what it closes and opens is that counter's, everything stays
owned. `LeavesInv` is the same for a slot that is removed while another moves to its
place. The descriptor an open returns belonged to nobody since it was free
(`FreshFd`).

`CountedUntilExit` adds the sizes: a group never needs more than the seven words the
buffer of `perf_counter_read` has (`Sized`), and a counter marked as hardware has a
leader (`Backed`).

### The shared memory

`NamesOwned`: a name refers to a region made by a daemon that has not ended in order,
and is not past unlinking it. `Undisturbed` follows one ring through
`rb_create_named`: the name is free before `shm_open`, refers to this run's region
until it is complete, and stays so while the daemon samples (`Building`); the regions
that have a size are of past runs, or of rings completed in this one (`Sized`). Both
are about every daemon, and `Alone` keeps the steps of one from undoing what another has
built; no assumption is made on how earlier daemons ended.

### The sampler

`MapsInv` is about the maps without the daemon, which only reads them and deletes the
name (`DaemonMaps`); so the invariant of the composition is proved module by module.
`Forgotten`: a process whose fork was seen has an I/O count as long as it runs, which
is why none of its completions inserts one behind its exit. `Bounded` keeps the counts
below `Modulus`, and is where `NoWrap` is used.

`Switches` says at each point of the slow path what the baseline, the count read and
the count in the map have to do with each other: what is owed is what was counted since
the baseline, and while the cycle counter stands still nothing is owed. `SwitchesAccounted`
itself is one of its conjuncts' consequences; without the others the step `Sample`,
which adds a difference of values read earlier, could not be shown to keep it.
`Completions` is the same for I/O, where idle intervals leave the baseline alone.

`SlidingWindow_proofs` is about `sw_push` alone. Its first half says what a sum over a
finite set is, by the same use of smallest sets: the recursion behind
`SumFunctionOnSet` has one solution (`SumExists`, `SumsAgree`), any element can be taken
first (`SumRemove`), and renaming the indices one to one changes nothing
(`SumReindex`). `Holds` says where the buffer keeps the samples: the j-th oldest at
`Place`, `count` slots behind the head, and at the front until the window is full. A
push keeps that (`PushHolds`: the slot overwritten is the oldest one's). The running sum
then follows the sequence of samples at both of its ends (`SumOfAppend`,
`SumOfTail`), and the loop that computes it anew adds up the same samples, in another
order (`SumAnew`, from `PlacesOnce`). `MeanOfTheLast` carries this through the sampler,
for any differences and any reuse of the slot.

### The scanner

`Phases` is what is observed of one scan, and forgotten before the next. `Finding`: a
process that lives through a scan has still to be visited or was found, unless a walk
met a full table; a tracked one that has an entry keeps it until the compaction, and
needs no place. `MissedFew` bounds how often a process was missed by the seconds since the last
walk. `TotalsRead`: an entry holds the last reading of its process, and one that this
scan has not visited yet holds the reading the difference will be taken to.

### The ring

`NoDataRace` is not inductive: that the two sides are in different slots now
says nothing of why they stay so. `Inv` adds the reason:

- `Guards` — a producer inside its copy still finds the ring not full, a consumer
  inside its copy still finds it not empty. The other side can only have made
  more room or more entries. The step that needs an argument is the store of an
  index, where `SuccInjective` keeps `head` and `tail` apart.
- `Copies` — what the half-done copies hold: the words of the slot at `head`
  written so far carry the number of the push, the words of `out` read so far are
  those of the slot at `tail`. A producer's write cannot disturb the second
  because, by `Guards`, it goes to another slot.
- `Bounds` and `DropAccounting` — the number of pending entries follows the two
  stores exactly (`PendingStep`).

`InOrder` needs in addition `Ordered`: entries from `tail` to `head` increase,
lie above the entry received last and not above the last push that returned. Both
theorems use the arithmetic of `Nth` (`NthSlot`): the k-th pending entry sits in a
slot of its own, none of them at `head`.

`RingRefinesQueue` maps the slots from `tail` to `head` to the abstract queue.
`KeepsView` shows that a step that moves no index and touches no pending slot is a
stutter, which covers all the word copies; `DropRefines`, `AcceptRefines` and
`ReceiveRefines` treat the three steps the abstract queue sees. `Copies` gives that
the appended entry is whole.

### What is model-checked only

- The liveness properties: `PushReturns`, `Stops`, `DeadForgotten`, `TerminateEnds`,
  `NameCatchesUp`. They rest on fairness and `ENABLED`, which the prover does not
  reason about.
- The five properties that are violated, which are false.

## 5. Where the code and its documents disagree

Five runs end in a violation. Each is a step sequence the code takes, against a
sentence of the repository; `PROJECT.json` quotes both.

1. **A reused PID inherits a dead slot** (`slots_reuse`). `sync_pids` looks slots
   up by number, so a PID that is reused between two syncs keeps the old slot,
   whose counters count the process that is gone: no cycles are ever seen, so the new
   process is taken for idle. Before that, one sample can mix the old one's cycles with
   the new one's switches and I/O, which are looked up by number. The ordering comment in
   `add_pid` ("load-bearing for PID-reuse correctness") is about a path this case
   never takes.
2. **The calibration does not stop the service** (`shm_calibrate`). It stops
   `capstone-monitor`, the installed unit is `capstone_monitor`. With equal names
   the property holds.
3. **Descriptor 0 is closed** (`fds_stdin`). In per-core mode without a PMU, `add_pid`
   zeroes the per-core counters and opens none of them, and `remove_slot` closes them all
   (`monitor_final.c` 333, 354 and 423), which the comment at line 350 excludes. Descriptor 0
   is closed, and once `open` has returned that number again, a live counter's
   (`OwnEvents` is false there too). With -1 in `Zeroed` both hold.
4. **A process that exits reports 2^64 switches** (`sampler_exit`). Its map entry is
   deleted while its cycle counter can still be read: the daemon reads 0 switches, or
   the 1 that the zombie's last switch inserts, and subtracts a larger baseline. The
   difference goes through the window of that slot and is pushed.
5. **A targeted scan makes other processes new** (`scan_forgets`). Its compaction
   drops all entries it did not read, so at the next walk of `/proc` those processes
   have no earlier reading and a difference of 0, whatever they used. Beside
   processes that are tracked, which do have one, they do not get into the ranking.
   With the compaction after walks of `/proc` only, the property holds.

Two more need no run of their own:

- **The software fallback cannot be read.** `open_counter` sets the group format on
  the fallback too, and `perf_counter_read` gives the kernel 8 bytes where it needs
  24 (`perf_counter.c` 34 and 107): each process is removed at its first sample
  as if it had exited. `CountedUntilExit` is therefore stated for hardware counters;
  without that condition TLC finds the violation. `SlotTable` has such counters
  (`Unreadable`).
- **The dashboard drains nothing.** `SLOT` and `CAP` in `dashboard.py` 19 and 20 are 40 and
  4096, those of an older header, where `SmoothedMetrics` has 48 bytes and `RB_CAPACITY`
  is 32768. Head and tail are read from, and the tail written to, the middle of a slot:
  the daemon's tail never moves and the dashboard's ring fills up, against "must match
  ring_buffer.h" (line 17). Comparing the constants shows it.

## 6. What is not modelled

Assumptions the modules make about the world outside the program:

- A PID is not given to another process while a thread that bears it still runs on
  a CPU; a PID keeps its owner's user id, so that `min_uid` divides PIDs for good.
- The cycle counter counts the main thread, and the PMU has room for the group: it
  is not multiplexed away while the process runs (`Sampler`).
- A read below `/proc` fails only because the process is gone (`Discovery`).
- `IoAccounted` is about processes whose fork was traced. For an older one, two
  completions that both insert a first count lose one (`IoInsert` overwrites).
- In `Discovery` the `--pids` mode does not occur: there the scans decide nothing.
  Seconds pass between two scans, one or more; fractions are not kept.

Left out, and why:

- **Maps at their capacity, keys of threads.** `active_pids` is filled under thread ids
  and emptied under process ids, so it fills up with threads that have exited.
  `Discovery` does not rest on what the map returns, which is what matters here;
  counting 10 240 entries would show no more. `BpfMaps` takes every insertion to
  succeed.
- **The grid of deadlines.** The deadline of a tick is computed from the time the last
  one woke up, so the period is 50 ms plus the lateness. `SlotTable` has late ticks
  and entries that age, but no clock of its own against which a grid could drift.
- **Values**: thresholds, IPC, MPKI and rates are floating-point numbers. No property
  here is about their magnitude or about rounding; the window is over integers.
- **The dashboard's drain**: with the constants corrected it is a consumer like that of
  `SpscRing`, with them as they are it is none (section 5).
- **Both `--pids` and `--top`**: the display limit can then leave slots unsampled;
  `AllExamined` is checked with one of the two options.
- **Consumers**: the classifier is not in the repository.
  Any consumer that uses `rb_attach` and `rb_pop` is the consumer of `SpscRing`. That
  a consumer attached to the region of a crashed daemon waits for ever, and that one
  may attach before the region has its size, the code does not prevent.
- **Weak memory**: the release store and acquire load of the indices order the
  copies; given that, race freedom makes interleaving semantics exact. Compiling
  those two operations correctly is left to the compiler.
- **Loading the eBPF object, `sd_notify`, CSV rows, the terminal table, the dashboard's
  classification and drawing, threshold arithmetic, installation**: sequential
  I/O and stateless arithmetic that no other part depends on.
- `rb_is_full`, `rb_is_empty`, `proc_scanner_print`: read-only, without callers.

## 7. Plan

Done: the ring with its abstract queue and proofs; the slot table with the
options; the descriptors; the shared-memory lifecycle with its consumers; the eBPF
maps and the sampler over them; the sliding window; the scanner.

Proved: every safety property of the passing runs, the refinement of the queue, and
that any command line parses to a configuration in range.

Next:

1. An abstract specification of the slot table, a set of monitored processes that
   loses none but those that end or drop out of the ranking, and `SlotTable` as a
   refinement of it.
2. The finding of the reused PID from the other side: which change of `SyncKeep` makes
   the safety part of `ReusedPidMeasured` a theorem.

Then modules: a clock of deadlines for the tick, and `active_pids` at its capacity.
