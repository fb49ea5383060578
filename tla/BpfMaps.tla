------------------------------ MODULE BpfMaps ------------------------------
(***************************************************************************)
(* The eBPF programs (ctx_switch.bpf.c) and what their maps hold for one   *)
(* PID, through the lives of the processes that bear it.  A tracepoint's   *)
(* program runs to its end on its CPU and is one step, but for the one of  *)
(* block_rq_complete: completions that interrupt two threads of a process  *)
(* run on two CPUs at once, and where that program looks an entry up and   *)
(* inserts it, another CPU, or the exit of the process, comes in between.  *)
(***************************************************************************)
EXTENDS Integers

CONSTANTS
  MaxLives,   \* bound on the processes that get the PID one after the other
  MaxEvents,  \* bound on the events they cause
  Cpus        \* how many CPUs may handle completions of one process at once

ASSUME MapsAssumption == MaxLives \in Nat \ {0} /\ {MaxEvents, Cpus} \subseteq Nat

VARIABLES
  hooks,      \* the optional tracepoints that could be attached
  proc,       \* where the process that bears the PID is in its life
  life,       \* which process of this PID it is
  traced,     \* its fork came after the programs were attached
  comm,       \* its name in the kernel: whose it is, and a version
  ctx,        \* vol_ctx_switches[pid]
  io,         \* io_counts[pid]
  active,     \* whether active_pids has the PID
  exec,       \* exec_comms[pid]
  inserting,  \* CPUs that found the PID active and without an I/O count
  events      \* events so far

maps     == <<ctx, io, active, exec, inserting>>
process  == <<proc, life, traced, comm>>
mapsVars == <<hooks, process, maps, events>>

Absent == -1
NoName == <<>>
Optional == {"block", "exec"}   \* without them attach only warns

\* "headless": the main thread is gone and others run on.  "exiting": the exit
\* tracepoint fired, the last switch away did not.  "dead" and "left" differ in
\* who was the last thread to die, the main thread or another.
Lives == {"none", "alive", "headless", "exiting", "dead", "left"}
Gone  == {"none", "dead", "left"}

MapsInit ==
  /\ hooks \in SUBSET Optional
  /\ \/ proc = "none" /\ life = 0 /\ comm = NoName
     \/ proc = "alive" /\ life = 1 /\ comm = <<1, 0>>   \* older than the daemon
  /\ traced = FALSE
  /\ ctx = Absent /\ io = Absent /\ active = FALSE /\ exec = NoName
  /\ inserting = 0 /\ events = 0

\* lookup, then an atomic add or the insertion of a first count.
Counted(entry) == IF entry = Absent THEN 1 ELSE entry + 1

\* BPF_NOEXIST: an entry that is there stays.
Preset(entry) == IF entry = Absent THEN 0 ELSE entry

Event == events < MaxEvents /\ events' = events + 1

-----------------------------------------------------------------------------
(* The tracepoints, each with what causes it *)

\* handle_fork.  The new process bears the name of its parent.  A PID is free
\* again when no thread of its last process is on a CPU.
Fork ==
  /\ proc \in Gone /\ life < MaxLives /\ inserting = 0
  /\ proc' = "alive" /\ life' = life + 1 /\ traced' = TRUE
  /\ comm' = <<life', 0>>
  /\ active' = TRUE
  /\ ctx' = Preset(ctx)
  /\ io' = Preset(io)
  /\ UNCHANGED <<hooks, exec, inserting, events>>

\* handle_sched_switch: the main thread goes to sleep.
Switch ==
  /\ proc = "alive" /\ Event
  /\ ctx' = Counted(ctx)
  /\ UNCHANGED <<hooks, process, io, active, exec, inserting>>

\* handle_exec, if it is attached.
Exec ==
  /\ proc = "alive" /\ Event
  /\ comm' = <<life, comm[2] + 1>>
  /\ IF "exec" \in hooks THEN exec' = comm' /\ active' = TRUE
                         ELSE UNCHANGED <<exec, active>>
  /\ UNCHANGED <<hooks, proc, life, traced, ctx, io, inserting>>

\* prctl(PR_SET_NAME): no tracepoint tells.
Rename ==
  /\ proc = "alive" /\ Event
  /\ comm' = <<life, comm[2] + 1>>
  /\ UNCHANGED <<hooks, proc, life, traced, maps>>

\* handle_block_rq_complete, up to its second lookup.  A completion interrupts
\* a thread of the process, and is counted for a process in active_pids only.
Interrupted == "block" \in hooks /\ proc \in {"alive", "headless"} /\ active

IoCount ==
  /\ Interrupted /\ Event
  /\ io # Absent
  /\ io' = io + 1
  /\ UNCHANGED <<hooks, process, ctx, active, exec, inserting>>

IoLookup ==
  /\ Interrupted /\ Event
  /\ io = Absent /\ inserting < Cpus
  /\ inserting' = inserting + 1
  /\ UNCHANGED <<hooks, process, ctx, io, active, exec>>

\* The rest of the program: BPF_ANY overwrites what another CPU inserted.
IoInsert ==
  /\ inserting > 0
  /\ inserting' = inserting - 1
  /\ io' = 1
  /\ UNCHANGED <<hooks, process, ctx, active, exec, events>>

\* Fault: the name stays.
ExitKeepsName ==
  /\ proc = "alive"
  /\ proc' = "exiting"
  /\ active' = FALSE /\ ctx' = Absent /\ io' = Absent
  /\ UNCHANGED <<hooks, life, traced, comm, exec, inserting, events>>

\* handle_exit with group_dead, the main thread being the last to die.
Exit ==
  /\ proc = "alive"
  /\ proc' = "exiting"
  /\ active' = FALSE /\ ctx' = Absent /\ io' = Absent /\ exec' = NoName
  /\ UNCHANGED <<hooks, life, traced, comm, inserting, events>>

\* handle_sched_switch as the main thread leaves its CPU for good, a zombie.
LastSwitch ==
  /\ proc = "exiting"
  /\ proc' = "dead"
  /\ ctx' = Counted(ctx)
  /\ UNCHANGED <<hooks, life, traced, comm, io, active, exec, inserting, events>>

\* The main thread dies first: group_dead is false, and its last switch counts.
MainExits ==
  /\ proc = "alive"
  /\ proc' = "headless"
  /\ ctx' = Counted(ctx)
  /\ UNCHANGED <<hooks, life, traced, comm, io, active, exec, inserting, events>>

\* group_dead comes with the thread id of the last thread, which is not the
\* PID: the entries of the PID stay.
LastThreadExits ==
  /\ proc = "headless"
  /\ proc' = "left"
  /\ UNCHANGED <<hooks, life, traced, comm, maps, events>>

-----------------------------------------------------------------------------
(* Properties *)

MapsTypeOK ==
  /\ hooks \subseteq Optional
  /\ proc \in Lives /\ life \in 0 .. MaxLives /\ traced \in BOOLEAN
  /\ {comm, exec} \subseteq {NoName} \cup ((1 .. MaxLives) \X Nat)
  /\ {ctx, io} \subseteq {Absent} \cup Nat
  /\ active \in BOOLEAN
  /\ inserting \in 0 .. Cpus /\ events \in 0 .. MaxEvents

\* "Auto-remove exited processes": once a process whose main thread died last
\* is gone, no program finds it active, and neither its name nor its I/O count
\* is left to a later process of its PID, whatever order the events came in.
\* (A process older than the daemon can leave a count: IoInsert after Exit.)
ExitForgets ==
  proc \in {"exiting", "dead"} =>
    ~active /\ exec = NoName /\ (traced => io = Absent)
=============================================================================
