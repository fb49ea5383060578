------------------------------ MODULE PerfFds ------------------------------
(***************************************************************************)
(* The file descriptors behind the slots: perf_counter.c, and the places   *)
(* in monitor_final.c that open, read and close counters (add_pid, the     *)
(* slow path, remove_slot, cleanup).                                       *)
(*                                                                         *)
(* The descriptor table of the daemon is modelled as the kernel keeps it:  *)
(* an open takes the lowest free number, a close frees the number whoever  *)
(* was using it.  The daemon is the only thread that opens or closes, so   *)
(* one system call is one step.  Slots are numbered from 1; cpu_id -1 is   *)
(* the aggregate counter, as in the code.                                  *)
(***************************************************************************)
EXTENDS Integers, FiniteSets, FiniteSetsExt

CONSTANTS
  Procs,    \* processes that may be monitored
  MaxPids,  \* MAX_PIDS
  Hosts     \* the machines and modes tried: [cores, pmu, maxFd], where cores is
            \* g_ncores in per-core mode and 0 without --per-core, pmu whether
            \* a hardware PMU is there (not so in a virtual machine), and maxFd
            \* the highest descriptor RLIMIT_NOFILE allows

ASSUME FdAssumption ==
  /\ MaxPids \in Nat \ {0}
  /\ Hosts \subseteq [cores : Nat, pmu : BOOLEAN, maxFd : Nat]

VARIABLES
  host,    \* the machine the daemon runs on
  alive,   \* the processes that still run
  fds,     \* the descriptor table
  n,       \* g_n_active
  pid,     \* g_states[].pid
  ctr,     \* g_perf (cpu -1) and g_perf_pc
  pc,      \* where add_pid is, "idle" outside it, "done" after cleanup
  cpu,     \* the cpu whose counter add_pid is opening
  target   \* the process it is adding

vars == <<host, alive, fds, n, pid, ctr, pc, cpu, target>>

Slots == 1 .. MaxPids
Used  == 1 .. n
Cpus  == -1 .. host.cores - 1
Fds   == 0 .. host.maxFd
Kinds == {"cycles", "instr", "llc"}
NoProc == 0

Free  == [what |-> "free"]
Stdin == [what |-> "stdin"]   \* stands for all that was open before the slots

\* A perf event; size is what a read of it needs, in 64-bit words: a leader is
\* read as a group (PERF_FORMAT_GROUP with PERF_FORMAT_ID: a count, then a
\* value and an id for each member).
Event(p, c, k, s) == [what |-> "event", task |-> p, on |-> c, kind |-> k, size |-> s]
IsEvent(f) == fds[f].what = "event"

\* perf_counter_t: descriptors by kind, and hw_available.
Zeroed   == [fd |-> [k \in Kinds |-> 0],  hw |-> FALSE]   \* after memset
Unopened == [fd |-> [k \in Kinds |-> -1], hw |-> TRUE]    \* perf_counter_open begins
Closed   == [fd |-> [k \in Kinds |-> -1], hw |-> FALSE]   \* perf_counter_close ends

Init ==
  /\ host \in Hosts
  /\ alive = Procs
  /\ fds = [f \in Fds |-> IF f = 0 THEN Stdin ELSE Free]
  /\ n = 0
  /\ pid = [s \in Slots |-> NoProc]
  /\ ctr = [s \in Slots |-> [c \in Cpus |-> Zeroed]]
  /\ pc = "idle" /\ cpu = -1 /\ target = NoProc

ExitProc(p) ==
  /\ p \in alive
  /\ alive' = alive \ {p}
  /\ UNCHANGED <<host, fds, n, pid, ctr, pc, cpu, target>>

-----------------------------------------------------------------------------
(* perf_counter.c *)

FreeFds == {f \in Fds : fds[f] = Free}

\* perf_event_open fails when the process is gone or no descriptor is left; it
\* may refuse a member of a group, or the fallback, for reasons of its own.
MayOpen == target \in alive /\ FreeFds # {}

\* Faults the code could have are defined next to the definition each of them
\* would replace; no definition of the specification uses them.  This one is a
\* failed open that leaves the descriptors it opened.
FdsLeftOpen(c) == fds

\* What perf_counter_close leaves of the descriptor table, c being a counter.
FdsAfterClose(c) ==
  [f \in Fds |-> IF \E k \in Kinds : c.fd[k] = f THEN Free ELSE fds[f]]

FdsAfterCloseAll(counters) ==
  [f \in Fds |-> IF \E c \in counters, k \in Kinds : c.fd[k] = f THEN Free ELSE fds[f]]

\* Fault: a struct of two values and ids.
ReadBufferShort(c) == IF c.hw THEN 5 ELSE 1

\* A plain uint64_t without hardware, else the struct of three values and ids.
ReadBuffer(c) == IF c.hw THEN 7 ELSE 1

\* Whether perf_counter_read succeeds: the kernel refuses a buffer smaller
\* than the event needs (ENOSPC).
Readable(c) == /\ c.fd["cycles"] \in Fds
               /\ IsEvent(c.fd["cycles"])
               /\ fds[c.fd["cycles"]].size <= ReadBuffer(c)

-----------------------------------------------------------------------------
(* add_pid, one open_counter a step *)

New == n + 1   \* the slot being filled

SetCtr(c) == ctr' = [ctr EXCEPT ![New][cpu] = c]

AddPid(p) ==
  /\ pc = "idle" /\ n < MaxPids
  /\ \A s \in Used : pid[s] # p
  /\ ctr' = [ctr EXCEPT ![New] = [c \in Cpus |-> Zeroed]]
  /\ target' = p
  /\ cpu' = -1
  /\ pc' = "leader"
  /\ UNCHANGED <<host, alive, fds, n, pid>>

\* Fault: one core too many.
AfterCounterOffByOne(c) ==
  IF cpu < host.cores /\ (cpu >= 0 \/ c.hw)
    THEN /\ cpu' = cpu + 1
         /\ pc' = "leader"
         /\ UNCHANGED <<n, pid>>
    ELSE /\ n' = New
         /\ pid' = [pid EXCEPT ![New] = target]
         /\ pc' = "idle" /\ cpu' = -1

\* After a counter is done the next core's is opened, and after the last the
\* slot is in use; per-core counters are for hardware counters only.
AfterCounter(c) ==
  IF cpu < host.cores - 1 /\ (cpu >= 0 \/ c.hw)
    THEN /\ cpu' = cpu + 1
         /\ pc' = "leader"
         /\ UNCHANGED <<n, pid>>
    ELSE /\ n' = New
         /\ pid' = [pid EXCEPT ![New] = target]
         /\ pc' = "idle" /\ cpu' = -1

\* perf_counter_open returned -1: add_pid gives up on an aggregate counter,
\* and does without a core's.
AfterFailure ==
  IF cpu = -1 THEN pc' = "idle" /\ UNCHANGED <<n, pid, cpu>>
              ELSE AfterCounter(Closed)

OpenLeader ==
  /\ pc = "leader"
  /\ \/ /\ host.pmu /\ MayOpen
        /\ LET f == Min(FreeFds) IN
             /\ fds' = [fds EXCEPT ![f] = Event(target, cpu, "cycles", 3)]
             /\ SetCtr([Unopened EXCEPT !.fd["cycles"] = f])
        /\ pc' = "instr"
     \/ /\ ~host.pmu \/ ~MayOpen
        /\ SetCtr([Unopened EXCEPT !.hw = FALSE])
        /\ pc' = "software"
        /\ UNCHANGED fds
  /\ UNCHANGED <<host, alive, n, pid, cpu, target>>

\* The fallback is opened by the same open_counter, as a leader of its own.
OpenSoftware ==
  /\ pc = "software"
  /\ \/ /\ MayOpen
        /\ LET f == Min(FreeFds)
               c == [ctr[New][cpu] EXCEPT !.fd["cycles"] = f]
           IN /\ fds' = [fds EXCEPT ![f] = Event(target, cpu, "cycles", 3)]
              /\ SetCtr(c)
              /\ AfterCounter(c)
     \/ /\ UNCHANGED fds
        /\ SetCtr(Closed)
        /\ AfterFailure
  /\ UNCHANGED <<host, alive, target>>

\* The second and third counter join the leader's group, which makes its reads
\* longer; when one cannot be opened the whole group is closed.
OpenMember(k, next) ==
  /\ pc = k
  /\ LET c == ctr[New][cpu] IN
     \/ /\ MayOpen
        /\ LET f == Min(FreeFds)
               d == [c EXCEPT !.fd[k] = f]
           IN /\ fds' = [fds EXCEPT ![f] = Event(target, cpu, k, 1),
                                    ![c.fd["cycles"]].size = @ + 2]
              /\ SetCtr(d)
              /\ IF next = "opened" THEN AfterCounter(d)
                                    ELSE pc' = next /\ UNCHANGED <<n, pid, cpu>>
     \/ /\ fds' = FdsAfterClose(c)
        /\ SetCtr(Closed)
        /\ AfterFailure
  /\ UNCHANGED <<host, alive, target>>

-----------------------------------------------------------------------------
(* The slow path, remove_slot and cleanup *)

Moved(array, s) == [array EXCEPT ![s] = array[n]]

\* Fault: the pid is not moved.
RemoveSlotKeepsPid(s) ==
  /\ fds' = FdsAfterCloseAll({ctr[s][c] : c \in Cpus})
  /\ ctr' = Moved([ctr EXCEPT ![s] = [c \in Cpus |-> Closed]], s)
  /\ n' = n - 1
  /\ UNCHANGED <<host, alive, pid, pc, cpu, target>>

RemoveSlot(s) ==
  /\ fds' = FdsAfterCloseAll({ctr[s][c] : c \in Cpus})
  /\ ctr' = Moved([ctr EXCEPT ![s] = [c \in Cpus |-> Closed]], s)
  /\ pid' = Moved(pid, s)
  /\ n' = n - 1
  /\ UNCHANGED <<host, alive, pc, cpu, target>>

\* perf_counter_read failed in the slow path: "process exited".
SampleGone(s) ==
  /\ pc = "idle" /\ s \in Used
  /\ ~Readable(ctr[s][-1]) \/ pid[s] \notin alive
  /\ RemoveSlot(s)

\* sync_pids no longer wants the process.
Evict(s) ==
  /\ pc = "idle" /\ s \in Used
  /\ RemoveSlot(s)

Cleanup ==
  /\ pc = "idle"
  /\ fds' = FdsAfterCloseAll({ctr[s][c] : s \in Used, c \in Cpus})
  /\ ctr' = [s \in Slots |-> IF s \in Used THEN [c \in Cpus |-> Closed] ELSE ctr[s]]
  /\ pc' = "done"
  /\ UNCHANGED <<host, alive, n, pid, cpu, target>>

Open == OpenLeader \/ OpenSoftware \/ OpenMember("instr", "llc")
                   \/ OpenMember("llc", "opened")

Next == \/ \E p \in Procs : AddPid(p) \/ ExitProc(p)
        \/ Open
        \/ \E s \in Slots : SampleGone(s) \/ Evict(s)
        \/ Cleanup

Spec == Init /\ [][Next]_vars

-----------------------------------------------------------------------------
(* Properties *)

TypeOK ==
  /\ host \in Hosts
  /\ alive \subseteq Procs
  /\ \A f \in Fds : fds[f].what \in {"free", "stdin", "event"}
  /\ n \in 0 .. MaxPids
  /\ pid \in [Slots -> Procs \cup {NoProc}]
  /\ ctr \in [Slots -> [Cpus -> [fd : [Kinds -> -1 .. host.maxFd], hw : BOOLEAN]]]
  /\ pc \in {"idle", "leader", "software", "instr", "llc", "done"}
  /\ cpu \in Cpus
  /\ target \in Procs \cup {NoProc}

\* The counters the program refers to: those of the slots in use, and those
\* add_pid has opened for the next one.
InUse(s, c) == \/ s \in Used
               \/ /\ s = New /\ pc \notin {"idle", "done"}
                  /\ c < cpu \/ (c = cpu /\ pc # "leader")

\* Their descriptors.
Live == {r \in Slots \X Cpus \X Kinds : InUse(r[1], r[2])}
FdOf(r) == ctr[r[1]][r[2]].fd[r[3]]
TaskOf(r) == IF r[1] = New THEN target ELSE pid[r[1]]

\* A counter's descriptors are events of its own process, cpu and kind: no
\* move of a slot, failed open or reused number makes a slot read or close
\* what belongs to another slot or is no counter at all.
OwnEvents ==
  \A r \in Live : FdOf(r) >= 0 =>
    LET e == fds[FdOf(r)] IN
      e.what = "event" /\ e.task = TaskOf(r) /\ e.on = r[2] /\ e.kind = r[3]

\* Every open event belongs to a slot, and to one: descriptors are neither
\* leaked (the sampling would run out of them) nor shared; after cleanup none
\* is left.
NoFdLeak ==
  \A f \in Fds : IsEvent(f) =>
    Cardinality({r \in Live : FdOf(r) = f}) = 1 /\ pc # "done"

\* "Any partial-failure path never passes fd==0 to close()" (BUG 4 FIX in
\* add_pid): descriptors that are not counters stay open.
StdinKept == fds[0] = Stdin

\* "Process exited between sync_pids() and now": a slot whose counters are
\* hardware counters is removed in the middle of the slow path only because its
\* process is gone, never because a read went wrong for another reason.
CountedUntilExit ==
  [][\A s \in Slots : SampleGone(s) /\ ctr[s][-1].hw => pid[s] \notin alive]_vars
=============================================================================
