------------------------------ MODULE Sampler ------------------------------
(***************************************************************************)
(* What the daemon reports of one process: the baselines that add_pid      *)
(* takes, the differences of the slow path (monitor_final.c 743-786), the  *)
(* window they go into and the name shown with them, over the eBPF maps of *)
(* BpfMaps.  Each read of a counter or a map is a system call and a step,  *)
(* between which the process runs, sleeps, does I/O, execs and exits.      *)
(*                                                                         *)
(* Of the cycle counter only whether it moved since it was last read is    *)
(* kept: that decides between an idle interval and a sample.  It counts    *)
(* the main thread, for as long as the PMU has room for the group.         *)
(***************************************************************************)
EXTENDS BpfMaps, SlidingWindow, Sequences

CONSTANT Modulus   \* 2^64: the differences are of unsigned words

ASSUME ModulusAssumption == Modulus \in Nat \ {0}

VARIABLES
  pc,                \* where the daemon is with this PID
  of,                \* the process whose counters are open, 0 for none
  ran,               \* the cycle counter moved since it was last read
  moved,             \* d_cycles # 0
  cur_ctx, cur_io,   \* the reads of this sample
  prev_ctx, prev_io, \* the baselines in g_states
  name,              \* g_comm
  g_win_io,          \* the window, here of differences rather than rates
  \* The rest observes: the events that took place and no interval has consumed
  \* yet, the switches of them that took place before the cycles were read, and
  \* the samples the window should hold.
  owedCtx, owedIo, settled, recent

reads   == <<moved, cur_ctx, cur_io>>
bases   == <<prev_ctx, prev_io>>
results == <<name, g_win_io>>
owed    == <<owedCtx, owedIo, settled>>
slot    == <<pc, of, reads, bases, results, recent>>
vars    == <<mapsVars, slot, ran, owed>>

Seeding  == {"seed ctx", "seed io", "seed name", "seed delete"}
Sampling == {"ctx", "io", "compute", "name", "delete"}

\* ebpf_tracer_read_switches and ebpf_tracer_read_io: 0 without an entry.
Read(entry) == IF entry = Absent THEN 0 ELSE entry

Diff(a, b) == (a - b) % Modulus

Init ==
  /\ MapsInit
  /\ pc = "untracked" /\ of = 0 /\ ran = FALSE
  /\ moved = FALSE /\ cur_ctx = 0 /\ cur_io = 0
  /\ prev_ctx = 0 /\ prev_io = 0
  /\ name = NoName /\ g_win_io = sw_init
  /\ owedCtx = 0 /\ owedIo = 0 /\ settled = 0 /\ recent = <<>>

-----------------------------------------------------------------------------
(* The process *)

\* The counters that are open count this process.
Counting == of = life

OwesCtx == owedCtx' = IF Counting THEN owedCtx + 1 ELSE owedCtx
OwesIo  == owedIo' = IF Counting THEN owedIo + 1 ELSE owedIo
MainRan == ran' = (ran \/ Counting)

Runs         == /\ proc = "alive" /\ Counting /\ ran' = TRUE
                /\ UNCHANGED <<mapsVars, slot, owed>>
Sleeps       == Switch /\ MainRan /\ OwesCtx /\ UNCHANGED <<slot, owedIo, settled>>
Execs        == Exec /\ MainRan /\ UNCHANGED <<slot, owed>>
RenamesItself == Rename /\ MainRan /\ UNCHANGED <<slot, owed>>

\* A completion interrupts the main thread or another one.
IoCounted    == IoCount /\ OwesIo /\ (MainRan \/ UNCHANGED ran)
                        /\ UNCHANGED <<slot, owedCtx, settled>>
IoSeenFirst  == IoLookup /\ OwesIo /\ (MainRan \/ UNCHANGED ran)
                         /\ UNCHANGED <<slot, owedCtx, settled>>
IoInserted   == IoInsert /\ UNCHANGED <<slot, ran, owed>>

Exits        == Exit /\ MainRan /\ UNCHANGED <<slot, owed>>
MainThreadExits == MainExits /\ MainRan /\ OwesCtx /\ UNCHANGED <<slot, owedIo, settled>>
Zombie       == LastSwitch /\ OwesCtx /\ UNCHANGED <<slot, ran, owedIo, settled>>
Ends         == LastThreadExits /\ UNCHANGED <<slot, ran, owed>>
IsBorn       == Fork /\ UNCHANGED <<slot, ran, owed>>

Process == \/ Runs \/ Sleeps \/ Execs \/ RenamesItself
           \/ IoCounted \/ IoSeenFirst \/ IoInserted
           \/ Exits \/ MainThreadExits \/ Zombie \/ Ends \/ IsBorn

-----------------------------------------------------------------------------
(* add_pid *)

\* The counters are opened, everything is cleared, the cycle baseline is taken.
AddPid ==
  /\ pc = "untracked" /\ proc = "alive"
  /\ of' = life /\ ran' = FALSE
  /\ name' = NoName /\ g_win_io' = sw_init /\ recent' = <<>>
  /\ prev_ctx' = 0 /\ prev_io' = 0
  /\ pc' = "seed ctx"
  /\ UNCHANGED <<mapsVars, reads, owed>>

\* Fault: no baseline is taken.
SeedCtxForgotten ==
  /\ pc = "seed ctx"
  /\ owedCtx' = 0
  /\ pc' = "seed io"
  /\ UNCHANGED <<mapsVars, ran, of, reads, bases, results, recent, owedIo, settled>>

SeedCtx ==
  /\ pc = "seed ctx"
  /\ prev_ctx' = Read(ctx)
  /\ owedCtx' = 0
  /\ pc' = "seed io"
  /\ UNCHANGED <<mapsVars, ran, of, reads, prev_io, results, recent, owedIo, settled>>

SeedIo ==
  /\ pc = "seed io"
  /\ prev_io' = Read(io)
  /\ owedIo' = 0
  /\ pc' = "seed name"
  /\ UNCHANGED <<mapsVars, ran, of, reads, prev_ctx, results, recent, owedCtx, settled>>

-----------------------------------------------------------------------------
(* The slow path *)

\* perf_counter_read.
ReadCycles ==
  /\ pc = "idle"
  /\ moved' = ran
  /\ ran' = FALSE
  /\ settled' = owedCtx
  /\ pc' = "ctx"
  /\ UNCHANGED <<mapsVars, of, cur_ctx, cur_io, bases, results, recent, owedCtx, owedIo>>

ReadCtx ==
  /\ pc = "ctx"
  /\ cur_ctx' = Read(ctx)
  /\ pc' = "io"
  /\ UNCHANGED <<mapsVars, ran, of, moved, cur_io, bases, results, recent, owed>>

ReadIo ==
  /\ pc = "io"
  /\ cur_io' = Read(io)
  /\ pc' = "compute"
  /\ UNCHANGED <<mapsVars, ran, of, moved, cur_ctx, bases, results, recent, owed>>

d_ctx == Diff(cur_ctx, prev_ctx)
d_io  == Diff(cur_io, prev_io)

\* The reads are locals of the loop's body, and end with it.
Forget == moved' = FALSE /\ cur_ctx' = 0 /\ cur_io' = 0 /\ settled' = 0

\* Fault: the I/O baseline advances too.
IdleIntervalDropsIo ==
  /\ pc = "compute" /\ ~moved
  /\ prev_ctx' = cur_ctx /\ owedCtx' = owedCtx - d_ctx
  /\ prev_io' = cur_io
  /\ Forget
  /\ pc' = "idle"
  /\ UNCHANGED <<mapsVars, ran, of, results, recent, owedIo>>

\* No cycles: the switches are consumed and dropped, the I/O is carried over.
IdleInterval ==
  /\ pc = "compute" /\ ~moved
  /\ prev_ctx' = cur_ctx /\ owedCtx' = owedCtx - d_ctx
  /\ Forget
  /\ pc' = "idle"
  /\ UNCHANGED <<mapsVars, ran, of, prev_io, results, recent, owedIo>>

\* Fault: the baseline of the switches advances in idle intervals only.
SampleKeepsCtx ==
  /\ pc = "compute" /\ moved
  /\ owedCtx' = owedCtx - d_ctx
  /\ prev_io' = cur_io   /\ owedIo' = owedIo - d_io
  /\ g_win_io' = sw_push(g_win_io, d_io)
  /\ recent' = Latest(recent, d_io)
  /\ Forget
  /\ pc' = "name"
  /\ UNCHANGED <<mapsVars, ran, of, prev_ctx, name>>

Sample ==
  /\ pc = "compute" /\ moved
  /\ prev_ctx' = cur_ctx /\ owedCtx' = owedCtx - d_ctx
  /\ prev_io' = cur_io   /\ owedIo' = owedIo - d_io
  /\ g_win_io' = sw_push(g_win_io, d_io)
  /\ recent' = Latest(recent, d_io)
  /\ Forget
  /\ pc' = "name"
  /\ UNCHANGED <<mapsVars, ran, of, name>>

\* ebpf_tracer_pop_exec_comm: lookup and deletion are two system calls.
PopLookup(at, next) ==
  /\ pc = at /\ exec # NoName
  /\ name' = exec
  /\ pc' = next
  /\ UNCHANGED <<mapsVars, ran, of, reads, bases, g_win_io, recent, owed>>

PopDelete(at) ==
  /\ pc = at
  /\ exec' = NoName
  /\ pc' = "idle"
  /\ UNCHANGED <<hooks, process, ctx, io, active, inserting, events,
                 ran, of, reads, bases, results, recent, owed>>

\* Fault: the name is kept where the map has none.
ReadProcCommNot(at) ==
  /\ pc = at /\ exec = NoName
  /\ pc' = "idle"
  /\ UNCHANGED <<mapsVars, ran, of, reads, bases, results, recent, owed>>

\* read_proc_comm: whose PID it now is; of a zombie the name may still be there.
ReadProcComm(at) ==
  /\ pc = at /\ exec = NoName
  /\ \/ name' = comm
     \/ proc \in Gone /\ name' = NoName
  /\ pc' = "idle"
  /\ UNCHANGED <<mapsVars, ran, of, reads, bases, g_win_io, recent, owed>>

\* The slot is given up: the process dropped out of the ranking, or its
\* counters could not be read.  What the slot holds is not looked at again.
RemoveSlot ==
  /\ pc = "idle"
  /\ pc' = "untracked" /\ of' = 0 /\ ran' = FALSE
  /\ prev_ctx' = 0 /\ prev_io' = 0
  /\ name' = NoName /\ g_win_io' = sw_init /\ recent' = <<>>
  /\ owedCtx' = 0 /\ owedIo' = 0
  /\ UNCHANGED <<mapsVars, reads, settled>>

SetName == \/ PopLookup("seed name", "seed delete") \/ PopDelete("seed delete")
           \/ PopLookup("name", "delete")           \/ PopDelete("delete")
           \/ ReadProcComm("seed name")             \/ ReadProcComm("name")

Daemon == \/ AddPid \/ SeedCtx \/ SeedIo \/ SetName
          \/ ReadCycles \/ ReadCtx \/ ReadIo \/ IdleInterval \/ Sample
          \/ RemoveSlot

Next == Process \/ Daemon

Spec == Init /\ [][Next]_vars

\* The daemon's one thread is scheduled; nothing is assumed of the process.
FairSpec == Spec /\ WF_vars(Daemon)

-----------------------------------------------------------------------------
(* Properties *)

TypeOK ==
  /\ MapsTypeOK
  /\ pc \in {"untracked", "idle"} \cup Seeding \cup Sampling
  /\ of \in 0 .. MaxLives
  /\ {ran, moved} \subseteq BOOLEAN
  /\ {cur_ctx, cur_io, prev_ctx, prev_io} \subseteq Nat
  /\ name \in {NoName} \cup ((1 .. MaxLives) \X Nat)
  /\ g_win_io.head \in 0 .. Capacity - 1
  /\ g_win_io.count \in 0 .. Capacity
  /\ g_win_io.push_count \in 0 .. Capacity * Capacity - 1
  /\ {owedCtx, owedIo, settled} \subseteq Int
  /\ Len(recent) <= Capacity

\* The process that is measured still runs its main thread.
Live == proc = "alive" /\ Counting

\* No voluntary switch of a running process is reported in two intervals, none
\* is invented, and one is dropped in an idle interval only: what the next
\* difference will be is what took place since the last read.
SwitchesAccounted ==
  Live /\ pc \notin {"seed ctx"} => owedCtx = Read(ctx) - prev_ctx

\* "Leaving prev_io unchanged, the accumulated d_io carries forward": every
\* I/O completion of a process is reported in exactly one sample, over any
\* number of idle intervals.  (Of one the daemon saw fork: the first counts of
\* another may overwrite each other, IoInsert.)
IoAccounted ==
  Live /\ traced /\ pc \notin {"seed ctx", "seed io"} => owedIo = Read(io) - prev_io

\* "Always advance the ... bpf-ctx baselines unconditionally": what an idle
\* interval throws away took place after its cycles were read, within that one
\* sample; no switch the process made before is lost.
IdleDropsOnlyRaces == pc = "compute" /\ ~moved /\ Live => settled = 0

\* The mean is that of the last Capacity samples, while the window fills, when
\* it wraps, and when the sum is computed anew.
WindowIsRecent ==
  /\ g_win_io.count = Len(recent)
  /\ g_win_io.run_sum = SumFunction(recent)

\* A name lost between lookup and deletion, or changed without an exec, is
\* made good: the name shown for a process that goes on running and changes it
\* no more is in the end the one it bears.
NameCatchesUp ==
  <>[](Live /\ pc # "untracked") /\ []<>(pc = "compute" /\ moved)
    => <>[](name = comm)

\* "Cumulative voluntary switch count", smoothed to "voluntary switches/sec":
\* no sample reports more switches than took place since the one before.
NoPhantomSwitches == pc = "compute" /\ moved => d_ctx <= owedCtx
=============================================================================
