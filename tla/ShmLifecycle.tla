---------------------------- MODULE ShmLifecycle ----------------------------
(***************************************************************************)
(* The two shared-memory objects from the daemon's start to its end:       *)
(* rb_create_named and rb_destroy_named (ring_buffer.c), init_shm, main,   *)
(* cleanup and the signal handlers (monitor_final.c), systemd's restarts,  *)
(* a second daemon as calibrate.py starts one, and consumers that attach   *)
(* (rb_attach_named) at any moment and stay as long as they like.          *)
(*                                                                         *)
(* A name of /dev/shm and the memory region behind it are different things *)
(* with different lives: unlinking a name leaves the region to those who   *)
(* have mapped it, and the name free for another region.                   *)
(***************************************************************************)
EXTENDS Naturals, Sequences, FiniteSets

CONSTANTS
  Daemons,    \* processes that run monitor_final: the service, and calibrate.py's
  MaxStarts   \* bound on the starts of each (StartLimitBurst)

ASSUME StartsAssumption == MaxStarts \in Nat

VARIABLES
  names,    \* /dev/shm: the region each name refers to, or None
  sized,    \* the regions that ftruncate has given their size
  pc,       \* where each daemon is
  starts,   \* how often it was started
  mapped,   \* the regions it has mapped: g_rb and g_rb_dash
  running,  \* g_cfg.running
  attached  \* the region that the consumer of each name has mapped

daemonVars == <<names, sized, pc, starts, mapped, running>>
vars       == <<daemonVars, attached>>

Names == {"monitor_rb", "monitor_rb_dash"}
None  == <<>>

\* The region that shm_open creates for a daemon in its current run.
Own(d, name) == <<d, starts[d], name>>
Regions == Daemons \X (1 .. MaxStarts) \X Names

\* Where a daemon is: a step, and the ring that step is about if it is about one.
NoRing == ""
Steps  == {"off", "load", "unlink", "open", "size", "ready", "serving", "destroy",
           "stopped", "aborted", "killed", "failed"}

\* Alive between the start of main and the end of cleanup.
Down  == {"off", "stopped", "aborted", "killed", "failed"}
Up(d) == pc[d][1] \notin Down

Init ==
  /\ names = [name \in Names |-> None]
  /\ sized = {}
  /\ pc = [d \in Daemons |-> <<"off", NoRing>>]
  /\ starts = [d \in Daemons |-> 0]
  /\ mapped = [d \in Daemons |-> [name \in Names |-> None]]
  /\ running = [d \in Daemons |-> FALSE]
  /\ attached = [name \in Names |-> None]

At(d, step, ring)   == pc[d] = <<step, ring>>
Goto(d, step, ring) == pc' = [pc EXCEPT ![d] = <<step, ring>>]

\* The kernel unmaps what a process that ends had mapped.
Ends(d, how) ==
  /\ Goto(d, how, NoRing)
  /\ mapped' = [mapped EXCEPT ![d] = [name \in Names |-> None]]
  /\ UNCHANGED <<sized, starts, running>>

-----------------------------------------------------------------------------
(* main, up to the sampling loop *)

\* calibrate.py stops a unit before it starts daemons of its own and starts it
\* again after them, which would keep the two apart; the service is installed
\* under the other name.
ServiceUnit == "capstone_monitor"
StoppedUnit == "capstone-monitor"
KeptApart(d) == StoppedUnit = ServiceUnit => \A e \in Daemons \ {d} : ~Up(e)

\* The service is started at boot and again after every failure (systemd's
\* "on-failure") or by hand, a calibration daemon once per workload.
Start(d) ==
  /\ ~Up(d)
  /\ KeptApart(d)
  /\ starts[d] < MaxStarts
  /\ starts' = [starts EXCEPT ![d] = @ + 1]
  /\ running' = [running EXCEPT ![d] = TRUE]
  /\ Goto(d, "load", NoRing)
  /\ UNCHANGED <<names, sized, mapped>>

\* init_ebpf: the shared memory comes after it.
LoadEbpf(d) ==
  /\ At(d, "load", NoRing)
  /\ Goto(d, "unlink", "monitor_rb")
  /\ UNCHANGED <<names, sized, starts, mapped, running>>

\* Faults the code could have are defined next to the definition each of them
\* would replace; no definition of the specification uses them.  This one is an
\* rb_create_named that does not unlink the name first.
UnlinkSkipped(d, name) ==
  /\ At(d, "unlink", name)
  /\ Goto(d, "open", name)
  /\ UNCHANGED <<names, sized, starts, mapped, running>>

\* rb_create_named, one system call a step.
Unlink(d, name) ==
  /\ At(d, "unlink", name)
  /\ names' = [names EXCEPT ![name] = None]
  /\ Goto(d, "open", name)
  /\ UNCHANGED <<sized, starts, mapped, running>>

\* Fault: the region opened is not kept.
ShmOpenForgets(d, name) ==
  /\ At(d, "open", name)
  /\ names' = [names EXCEPT ![name] = IF @ = None THEN Own(d, name) ELSE @]
  /\ Goto(d, "size", name)
  /\ UNCHANGED <<sized, starts, mapped, running>>

\* O_CREAT without O_EXCL: a region another daemon has just put under the name
\* is opened, not replaced.
ShmOpen(d, name) ==
  /\ At(d, "open", name)
  /\ LET r == IF names[name] = None THEN Own(d, name) ELSE names[name] IN
       /\ names' = [names EXCEPT ![name] = r]
       /\ mapped' = [mapped EXCEPT ![d][name] = r]
  /\ Goto(d, "size", name)
  /\ UNCHANGED <<sized, starts, running>>

\* ftruncate, mmap, and the reset of slots and indices.
SizeAndMap(d, name) ==
  /\ At(d, "size", name)
  /\ sized' = sized \cup {mapped[d][name]}
  /\ IF name = "monitor_rb" THEN Goto(d, "unlink", "monitor_rb_dash")
                            ELSE Goto(d, "ready", NoRing)
  /\ UNCHANGED <<names, starts, mapped, running>>

\* READY=1 goes out, then the CSV file is opened.
Serve(d) ==
  /\ At(d, "ready", NoRing)
  /\ Goto(d, "serving", NoRing)
  /\ UNCHANGED <<names, sized, starts, mapped, running>>

\* The exit(1) of main and what it calls: eBPF cannot be loaded, a region
\* cannot be created, or the CSV file cannot be opened.  Nothing is undone.
ExitFailure(d) ==
  /\ pc[d][1] \in {"load", "open", "size", "ready"}
  /\ Ends(d, "failed")
  /\ UNCHANGED names

-----------------------------------------------------------------------------
(* The end: a signal, or cleanup *)

\* SIGTERM or SIGINT: handle_signal.
Terminate(d) ==
  /\ Up(d) /\ running[d]
  /\ running' = [running EXCEPT ![d] = FALSE]
  /\ UNCHANGED <<names, sized, pc, starts, mapped>>

\* Fault: the loop is entered anew instead of left.
LeaveLoopReloads(d) ==
  /\ At(d, "serving", NoRing) /\ ~running[d]
  /\ Goto(d, "load", NoRing)
  /\ UNCHANGED <<names, sized, starts, mapped, running>>

LeaveLoop(d) ==
  /\ At(d, "serving", NoRing) /\ ~running[d]
  /\ Goto(d, "destroy", "monitor_rb")
  /\ UNCHANGED <<names, sized, starts, mapped, running>>

\* rb_destroy_named unlinks the name, whatever region it refers to by now.
Destroy(d, name) ==
  /\ At(d, "destroy", name)
  /\ names' = [names EXCEPT ![name] = None]
  /\ IF name = "monitor_rb"
       THEN /\ Goto(d, "destroy", "monitor_rb_dash")
            /\ mapped' = [mapped EXCEPT ![d][name] = None]
            /\ UNCHANGED <<sized, starts, running>>
       ELSE Ends(d, "stopped")

\* Fault: the dashboard's region is forgotten.
FatalSignalForgets(d) ==
  /\ Up(d)
  /\ names' = [names EXCEPT !["monitor_rb"] = None]
  /\ Ends(d, "aborted")

\* SIGSEGV or SIGABRT: handle_fatal_signal.
FatalSignal(d) ==
  /\ Up(d)
  /\ names' = [name \in Names |-> None]
  /\ Ends(d, "aborted")

\* SIGKILL, as the kernel's OOM killer sends it.
Kill(d) ==
  /\ Up(d)
  /\ Ends(d, "killed")
  /\ UNCHANGED names

-----------------------------------------------------------------------------
(* Consumers, one of each ring *)

\* rb_attach and rb_attach_dash, which ask neither for the size of the region
\* nor whether anybody writes it.
Attach(name) ==
  /\ attached[name] = None /\ names[name] # None
  /\ attached' = [attached EXCEPT ![name] = names[name]]

\* A consumer ends, or dies of touching a region that has no size yet.
Detach(name) ==
  /\ attached[name] # None
  /\ attached' = [attached EXCEPT ![name] = None]

Step(d) ==
  /\ \/ LoadEbpf(d)
     \/ \E name \in Names :
          Unlink(d, name) \/ ShmOpen(d, name) \/ SizeAndMap(d, name) \/ Destroy(d, name)
     \/ Serve(d)
     \/ LeaveLoop(d)
  /\ UNCHANGED attached

Interrupt(d) ==
  /\ Start(d) \/ ExitFailure(d) \/ Terminate(d) \/ FatalSignal(d) \/ Kill(d)
  /\ UNCHANGED attached

Consumer(name) == (Attach(name) \/ Detach(name)) /\ UNCHANGED daemonVars

Next == \/ \E d \in Daemons : Step(d) \/ Interrupt(d)
        \/ \E name \in Names : Consumer(name)

Spec == Init /\ [][Next]_vars

\* A daemon told to stop keeps running until it has.
FairSpec == Spec /\ \A d \in Daemons : WF_vars(Step(d))

-----------------------------------------------------------------------------
(* Properties *)

TypeOK ==
  /\ names \in [Names -> Regions \cup {None}]
  /\ sized \subseteq Regions
  /\ pc \in [Daemons -> Steps \X (Names \cup {NoRing})]
  /\ starts \in [Daemons -> 0 .. MaxStarts]
  /\ mapped \in [Daemons -> [Names -> Regions \cup {None}]]
  /\ running \in [Daemons -> BOOLEAN]
  /\ attached \in [Names -> Regions \cup {None}]

\* While a daemon is sampling, whoever attaches by name gets the very region
\* it writes, one that no earlier run's consumers still share, whatever that
\* run left behind by crashing at any point ("stale shm IS cleaned
\* automatically on restart", handle_fatal_signal).
ServingVisible ==
  \A d \in Daemons : At(d, "serving", NoRing) =>
    \A name \in Names : /\ mapped[d][name] = Own(d, name)
                        /\ names[name] = mapped[d][name]
                        /\ names[name] \in sized

\* After SIGTERM, and after a fatal signal at any moment, no name is left:
\* "consumers get a clean ENOENT rather than mapping stale memory".
NoStaleNames ==
  (\A d \in Daemons : pc[d][1] \in {"stopped", "aborted"}) =>
    \A name \in Names : names[name] = None

\* A consumer that outlives the daemon it attached to keeps a ring nobody else
\* touches: no later run, after whatever end of the earlier one, empties it and
\* resets its indices while the consumer drains it ("remove stale shm from
\* previous run", rb_create_named).
DrainedNotReset ==
  [][\A d \in Daemons, name \in Names :
       SizeAndMap(d, name) => attached[name] # mapped[d][name] \/ attached[name] \notin sized]_vars

\* SIGTERM ends a sampling daemon, unless something else does so first.
TerminateEnds == \A d \in Daemons : (At(d, "serving", NoRing) /\ ~running[d]) ~> ~Up(d)

\* "Stopping background systemd daemon (to avoid shared memory collisions)"
\* (calibrate.py): as long as no daemon crashes, a calibration leaves the ring
\* of a daemon that is sampling alone.
CalibrationCollidesNot ==
  (\A d \in Daemons : pc[d][1] # "aborted") => ServingVisible
=============================================================================
