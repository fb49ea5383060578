--------------------------- MODULE Sampler_proofs ---------------------------
(***************************************************************************)
(* The accounts of the slow path, for any number of processes of one PID,  *)
(* of events they cause and of CPUs, and any capacity of the window.       *)
(***************************************************************************)
EXTENDS Sampler, SlidingWindow_proofs

USE MapsAssumption, CapacityAssumption, ModulusAssumption

-----------------------------------------------------------------------------
(* The eBPF programs *)

\* A running process bears a name, and is one of those that had the PID.
MapsTyped ==
  /\ MapsTypeOK
  /\ proc = "alive" => comm \in (1 .. MaxLives) \X Nat
  /\ proc # "none" => life >= 1

\* The steps of processes and programs.
MapsStep == \/ Fork \/ Switch \/ Exec \/ Rename \/ IoCount \/ IoLookup \/ IoInsert
            \/ Exit \/ LastSwitch \/ MainExits \/ LastThreadExits

\* What the daemon does to the maps, ebpf_tracer_pop_exec_comm.
MapsRead == \/ UNCHANGED mapsVars
            \/ /\ exec' = NoName
               /\ UNCHANGED <<hooks, process, ctx, io, active, inserting, events>>

\* What the programs store is a count.
LEMMA CountedType == ASSUME NEW e \in {Absent} \cup Nat
                     PROVE  Counted(e) \in Nat /\ Preset(e) \in Nat
BY DEF Counted, Preset, Absent

\* Every step keeps MapsTyped.
LEMMA MapsTypedInductive == ASSUME MapsTyped, MapsStep \/ MapsRead PROVE MapsTyped'
<1> USE DEF MapsTyped, MapsTypeOK, mapsVars, process, maps
<1>1. CASE Fork
  <2>1. life' \in 1 .. MaxLives /\ comm' = <<life', 0>> /\ proc' = "alive" /\ traced' = TRUE
    BY <1>1 DEF Fork
  <2>2. comm' \in (1 .. MaxLives) \X Nat
    BY <2>1
  <2>3. ctx' \in Nat /\ io' \in Nat
    BY <1>1, CountedType DEF Fork
  <2> QED BY <1>1, <2>1, <2>2, <2>3 DEF Fork, Lives
<1>2. CASE Switch
  BY <1>2, CountedType DEF Switch, Event
<1>3. CASE Exec \/ Rename
  <2>1. comm' = <<life, comm[2] + 1>> /\ life \in 1 .. MaxLives /\ comm[2] \in Nat
    BY <1>3 DEF Exec, Rename
  <2>2. comm' \in (1 .. MaxLives) \X Nat
    BY <2>1
  <2>3. events' \in 0 .. MaxEvents
    BY <1>3 DEF Exec, Rename, Event
  <2>4. active' \in BOOLEAN
    BY <1>3 DEF Exec, Rename
  <2>5. exec' = exec \/ exec' = comm'
    BY <1>3 DEF Exec, Rename
  <2> QED BY <1>3, <2>2, <2>3, <2>4, <2>5 DEF Exec, Rename
<1>4. CASE IoCount \/ IoLookup
  BY <1>4 DEF IoCount, IoLookup, Event
<1>5. CASE IoInsert
  BY <1>5 DEF IoInsert
<1>6. CASE Exit
  BY <1>6 DEF Exit, Lives
<1>7. CASE LastSwitch \/ MainExits \/ LastThreadExits
  BY <1>7, CountedType DEF LastSwitch, MainExits, LastThreadExits, Lives
<1>8. CASE MapsRead
  BY <1>8 DEF MapsRead
<1> QED BY <1>1, <1>2, <1>3, <1>4, <1>5, <1>6, <1>7, <1>8 DEF MapsStep

\* A process whose fork was seen has an I/O count as long as it runs, so that
\* its completions never insert one.
Forgotten ==
  /\ traced => inserting = 0 /\ (proc \in {"alive", "headless"} => io # Absent)
  /\ ExitForgets

\* Every step keeps Forgotten.
LEMMA ForgottenInductive ==
  ASSUME MapsTyped, Forgotten, MapsStep \/ MapsRead PROVE Forgotten'
<1> USE DEF MapsTyped, MapsTypeOK, Forgotten, ExitForgets, mapsVars, process, maps
<1>1. CASE Fork
  <2>1. io' \in Nat
    BY <1>1, CountedType DEF Fork
  <2> QED BY <1>1, <2>1 DEF Fork, Absent
<1>2. CASE Switch \/ Exec \/ Rename
  BY <1>2 DEF Switch, Exec, Rename
<1>3. CASE IoCount \/ IoLookup \/ IoInsert
  BY <1>3 DEF IoCount, IoLookup, IoInsert, Interrupted, Absent
<1>4. CASE Exit \/ LastSwitch \/ MainExits \/ LastThreadExits
  BY <1>4 DEF Exit, LastSwitch, MainExits, LastThreadExits
<1>5. CASE MapsRead
  BY <1>5 DEF MapsRead
<1> QED BY <1>1, <1>2, <1>3, <1>4, <1>5 DEF MapsStep

\* No count exceeds the events, and a last switch for each process but the one
\* that runs.
Bounded ==
  /\ ctx <= events + life
  /\ proc \in {"alive", "exiting"} => ctx < events + life
  /\ io <= events /\ (inserting > 0 => events > 0)

\* Every step keeps Bounded.
LEMMA BoundedInductive == ASSUME MapsTyped, Bounded, MapsStep \/ MapsRead PROVE Bounded'
<1> USE DEF Bounded, mapsVars, process, maps, Absent, Counted, Preset
<1>0. /\ ctx \in {Absent} \cup Nat /\ io \in {Absent} \cup Nat
      /\ life \in Nat /\ events \in Nat /\ inserting \in Nat /\ (proc # "none" => life >= 1)
  BY DEF MapsTyped, MapsTypeOK
<1>1. CASE Fork
  BY <1>0, <1>1 DEF Fork
<1>2. CASE Switch
  BY <1>0, <1>2 DEF Switch, Event
<1>3. CASE Exec \/ Rename
  BY <1>0, <1>3 DEF Exec, Rename, Event
<1>4. CASE IoCount \/ IoLookup \/ IoInsert
  BY <1>0, <1>4 DEF IoCount, IoLookup, IoInsert, Event
<1>5. CASE Exit
  BY <1>0, <1>5 DEF Exit
<1>6. CASE LastSwitch \/ MainExits \/ LastThreadExits
  BY <1>0, <1>6 DEF LastSwitch, MainExits, LastThreadExits
<1>7. CASE MapsRead
  BY <1>0, <1>7 DEF MapsRead
<1> QED BY <1>1, <1>2, <1>3, <1>4, <1>5, <1>6, <1>7 DEF MapsStep

MapsInv == MapsTyped /\ Forgotten /\ Bounded

\* The maps are empty at the start.
LEMMA MapsInvInit == MapsInit => MapsInv
<1> SUFFICES ASSUME MapsInit PROVE MapsInv
  OBVIOUS
<1>1. MapsTyped
  <2>1. comm \in {NoName} \cup ((1 .. MaxLives) \X Nat) /\ (proc = "alive" => comm \in (1 .. MaxLives) \X Nat)
    BY DEF MapsInit
  <2>2. proc \in Lives /\ life \in 0 .. MaxLives /\ (proc # "none" => life >= 1)
    BY DEF MapsInit, Lives
  <2>3. hooks \subseteq Optional /\ exec \in {NoName} \cup ((1 .. MaxLives) \X Nat)
    BY DEF MapsInit
  <2>4. ctx \in {Absent} \cup Nat /\ io \in {Absent} \cup Nat
    BY DEF MapsInit
  <2>5. inserting \in 0 .. Cpus /\ events \in 0 .. MaxEvents
    BY DEF MapsInit
  <2>6. active \in BOOLEAN /\ traced \in BOOLEAN
    BY DEF MapsInit
  <2> QED BY <2>1, <2>2, <2>3, <2>4, <2>5, <2>6 DEF MapsTyped, MapsTypeOK
<1>2. Forgotten
  BY DEF MapsInit, Forgotten, ExitForgets
<1>3. Bounded
  BY DEF MapsInit, Bounded, Absent
<1> QED BY <1>1, <1>2, <1>3 DEF MapsInv

\* Every step that touches the maps keeps their invariant.
LEMMA MapsInvInductive == ASSUME MapsInv, MapsStep \/ MapsRead PROVE MapsInv'
BY MapsTypedInductive, ForgottenInductive, BoundedInductive DEF MapsInv

\* Every step of the program is one of the maps' steps or leaves them alone but
\* for the name.
LEMMA ProcessMaps == Process => (MapsStep \/ UNCHANGED mapsVars) /\ UNCHANGED slot
BY DEF Process, MapsStep, Runs, Sleeps, Execs, RenamesItself, IoCounted, IoSeenFirst,
       IoInserted, Exits, MainThreadExits, Zombie, Ends, IsBorn

\* Of the maps the daemon only deletes a name it has read.
LEMMA DaemonMaps == Daemon => MapsRead
BY DEF Daemon, MapsRead, AddPid, SeedCtx, SeedIo, SetName, PopLookup, PopDelete, ReadProcComm,
       ReadCycles, ReadCtx, ReadIo, IdleInterval, Sample, RemoveSlot, mapsVars, maps

\* Every step of the composed system keeps it too.
LEMMA MapsInvStep == MapsInv /\ [Next]_vars => MapsInv'
<1>1. [Next]_vars => MapsStep \/ MapsRead
  BY ProcessMaps, DaemonMaps DEF Next, vars, MapsRead
<1> QED BY <1>1, MapsInvInductive

\* Whatever order events, completions on several CPUs and exits come in, a
\* process whose main thread dies last leaves neither its name nor, if its fork
\* was seen, its I/O count to a later one of its PID.  Nothing is claimed where
\* the main thread dies first: handle_exit then deletes under another id, and
\* the entries stay (LastThreadExits).
THEOREM Forgets == Spec => []ExitForgets
<1>1. Init => MapsInv
  BY MapsInvInit DEF Init
<1>2. MapsInv => ExitForgets
  BY DEF MapsInv, Forgotten
<1> QED BY <1>1, <1>2, MapsInvStep, PTL DEF Spec

-----------------------------------------------------------------------------
(* Types *)

\* A difference modulo the word is a count.
LEMMA DiffType == ASSUME NEW a \in Nat, NEW b \in Nat PROVE Diff(a, b) \in Nat
BY DEF Diff

\* A difference that did not wrap is the number of events between two reads.
LEMMA DiffExact ==
  ASSUME NEW a \in Nat, NEW b \in Nat, b <= a, a < Modulus PROVE Diff(a, b) = a - b
BY DEF Diff

\* So is what a read returns, an absent entry being read as 0.
LEMMA ReadType ==
  ASSUME MapsInv
  PROVE  Read(ctx) \in Nat /\ Read(io) \in Nat
BY DEF MapsInv, MapsTyped, MapsTypeOK, Read, Absent

\* Where the daemon is, and whether it saw cycles.
Flags ==
  /\ pc \in {"untracked", "idle"} \cup Seeding \cup Sampling
  /\ ran \in BOOLEAN
  /\ moved \in BOOLEAN

\* Every step keeps Flags.
LEMMA FlagsInductive == Flags /\ [Next]_vars => Flags'
<1> SUFFICES ASSUME Flags, [Next]_vars PROVE Flags'
  OBVIOUS
<1>1. pc' \in {"untracked", "idle"} \cup Seeding \cup Sampling
  <2> USE DEF Flags, Seeding, Sampling
  <2>1. CASE Process \/ UNCHANGED vars
    BY <2>1, ProcessMaps DEF vars, slot
  <2>2. CASE SetName
    BY <2>2 DEF SetName, PopLookup, PopDelete, ReadProcComm
  <2>3. CASE Daemon /\ ~SetName
    BY <2>3 DEF Daemon, AddPid, SeedCtx, SeedIo, ReadCycles, ReadCtx, ReadIo, IdleInterval, Sample,
                RemoveSlot
  <2> QED BY <2>1, <2>2, <2>3 DEF Next
<1>2. ran' \in BOOLEAN
  <2> USE DEF Flags
  <2>1. CASE Process
    BY <2>1 DEF Process, Runs, Sleeps, Execs, RenamesItself, IoCounted, IoSeenFirst, IoInserted,
                Exits, MainThreadExits, Zombie, Ends, IsBorn, MainRan, Counting
  <2>2. CASE AddPid \/ ReadCycles \/ RemoveSlot
    <3>1. ran' = FALSE
      BY <2>2 DEF AddPid, ReadCycles, RemoveSlot
    <3> QED BY <3>1
  <2>3. CASE SeedCtx \/ SeedIo \/ SetName \/ ReadCtx \/ ReadIo \/ IdleInterval \/ Sample
    BY <2>3 DEF SeedCtx, SeedIo, SetName, ReadCtx, ReadIo, IdleInterval, Sample, PopLookup,
                PopDelete, ReadProcComm
  <2> QED BY <2>1, <2>2, <2>3 DEF Next, Daemon, vars
<1>3. moved' \in BOOLEAN
  <2>1. moved' \in {moved, ran} \/ moved' = FALSE
    <3>1. CASE Process \/ UNCHANGED vars
      BY <3>1, ProcessMaps DEF vars, slot, reads
    <3>2. CASE SetName
      BY <3>2 DEF SetName, PopLookup, PopDelete, ReadProcComm, reads
    <3>3. CASE Daemon /\ ~SetName
      BY <3>3 DEF Daemon, AddPid, SeedCtx, SeedIo, ReadCycles, ReadCtx, ReadIo, IdleInterval,
                  Sample, Forget, RemoveSlot, reads
    <3> QED BY <3>1, <3>2, <3>3 DEF Next
  <2> QED BY <2>1 DEF Flags
<1> QED BY <1>1, <1>2, <1>3 DEF Flags

\* The process whose counters are open had the PID before the one that has it
\* now, or is that one.
Numbers ==
  /\ of \in 0 .. life /\ (pc = "untracked" => of = 0)
  /\ cur_ctx \in Nat /\ cur_io \in Nat /\ prev_ctx \in Nat /\ prev_io \in Nat
  /\ owedCtx \in Int /\ owedIo \in Int /\ settled \in Int

\* Lives are counted up.
LEMMA LifeGoesOn == MapsInv /\ Process => life' \in Nat /\ life' >= life
BY DEF MapsInv, MapsTyped, MapsTypeOK, Process, Runs, Sleeps, Execs, RenamesItself, IoCounted,
   IoSeenFirst, IoInserted, Exits, MainThreadExits, Zombie, Ends, IsBorn, Fork, Switch, Exec,
   Rename, IoCount, IoLookup, IoInsert, Exit, LastSwitch, MainExits, LastThreadExits,
   mapsVars, process

\* A process that runs has a life of its own.
LEMMA LifeType ==
  ASSUME MapsInv PROVE life \in Nat /\ (proc = "alive" => life >= 1)
BY DEF MapsInv, MapsTyped, MapsTypeOK

\* What the process does keeps Numbers.
LEMMA ProcessNumbers == ASSUME MapsInv, Numbers, Process PROVE Numbers'
<1>1. UNCHANGED slot
  BY ProcessMaps
<1>2. life' \in Nat /\ life' >= life /\ life \in Nat
  BY LifeGoesOn, LifeType
<1>3. owedCtx' \in Int /\ owedIo' \in Int /\ settled' \in Int
  BY DEF Numbers, Process, Runs, Sleeps, Execs, RenamesItself, IoCounted, IoSeenFirst,
     IoInserted, Exits, MainThreadExits, Zombie, Ends, IsBorn, OwesCtx, OwesIo, owed
<1> QED BY <1>1, <1>2, <1>3 DEF Numbers, slot, reads, bases

\* What the daemon does keeps Numbers.
LEMMA DaemonNumbers == ASSUME MapsInv, Numbers, Daemon PROVE Numbers'
<1> USE DEF Numbers
<1>1. life' = life
  BY DaemonMaps DEF MapsRead, mapsVars, process
<1>2. life \in Nat /\ (proc = "alive" => life >= 1) /\ Read(ctx) \in Nat /\ Read(io) \in Nat
  BY ReadType, LifeType
<1>3. d_ctx \in Nat /\ d_io \in Nat
  BY DiffType DEF d_ctx, d_io
<1>4. CASE AddPid
  <2>1. of' = life
    BY <1>4 DEF AddPid
  <2>3. of' \in 0 .. life'
    BY <1>1, <1>2, <2>1
  <2>4. pc' # "untracked"
    BY <1>4 DEF AddPid
  <2>5. prev_ctx' \in Nat /\ prev_io' \in Nat
    BY <1>4 DEF AddPid
  <2>2. UNCHANGED <<cur_ctx, cur_io, owedCtx, owedIo, settled>>
    BY <1>4 DEF AddPid, reads, owed
  <2> QED BY <2>2, <2>3, <2>4, <2>5
<1>5. CASE SeedCtx
  <2>1. pc' = "seed io" /\ of' = of /\ prev_ctx' \in Nat
    BY <1>2, <1>5 DEF SeedCtx
  <2>3. owedCtx' = 0
    BY <1>5 DEF SeedCtx
  <2>4. owedCtx' \in Int
    BY ONLY <2>3
  <2>2. UNCHANGED <<cur_ctx, cur_io, prev_io, owedIo, settled>>
    BY <1>5 DEF SeedCtx, reads
  <2> QED BY <1>1, <2>1, <2>2, <2>4
<1>6. CASE SeedIo
  <2>1. pc' = "seed name" /\ of' = of /\ prev_io' \in Nat
    BY <1>2, <1>6 DEF SeedIo
  <2>3. owedIo' = 0
    BY <1>6 DEF SeedIo
  <2>4. owedIo' \in Int
    BY ONLY <2>3
  <2>2. UNCHANGED <<cur_ctx, cur_io, prev_ctx, owedCtx, settled>>
    BY <1>6 DEF SeedIo, reads
  <2> QED BY <1>1, <2>1, <2>2, <2>4
<1>7. CASE SetName
  BY <1>1, <1>7 DEF SetName, PopLookup, PopDelete, ReadProcComm, reads, bases, owed
<1>8. CASE ReadCycles
  BY <1>1, <1>8 DEF ReadCycles, bases
<1>9. CASE ReadCtx \/ ReadIo
  BY <1>1, <1>2, <1>9 DEF ReadCtx, ReadIo, bases, owed
<1>10. CASE IdleInterval
  BY <1>1, <1>3, <1>10 DEF IdleInterval, Forget
<1>11. CASE Sample
  BY <1>1, <1>3, <1>11 DEF Sample, Forget
<1>12. CASE RemoveSlot
  BY <1>1, <1>2, <1>12 DEF RemoveSlot, reads
<1> QED BY <1>4, <1>5, <1>6, <1>7, <1>8, <1>9, <1>10, <1>11, <1>12 DEF Daemon

\* Every step keeps Numbers.
LEMMA NumbersInductive == MapsInv /\ Numbers /\ [Next]_vars => Numbers'
<1> SUFFICES ASSUME MapsInv, Numbers, [Next]_vars PROVE Numbers'
  OBVIOUS
<1>1. CASE UNCHANGED vars
  BY <1>1 DEF vars, Numbers, slot, reads, bases, owed, mapsVars, process
<1> QED BY <1>1, ProcessNumbers, DaemonNumbers DEF Next

\* Flags and Numbers hold at the start.
LEMMA NumbersInit == Init => Flags /\ Numbers
<1> SUFFICES ASSUME Init PROVE Flags /\ Numbers
  OBVIOUS
<1>1. life \in Nat
  BY DEF Init, MapsInit
<1>2. Numbers
  BY <1>1 DEF Init, Numbers
<1>3. pc = "untracked"
  BY DEF Init
<1>4. ran \in BOOLEAN /\ moved \in BOOLEAN
  BY DEF Init
<1> QED BY <1>2, <1>3, <1>4 DEF Flags

\* What is shown of the process.
Results ==
  /\ name \in {NoName} \cup ((1 .. MaxLives) \X Nat)
  /\ WindowType(g_win_io)
  /\ recent \in Seq(Nat) /\ Len(recent) <= Capacity

\* Every step keeps Results.
LEMMA ResultsInductive == MapsInv /\ Numbers /\ Results /\ [Next]_vars => Results'
<1> SUFFICES ASSUME MapsInv, Numbers, Results, [Next]_vars PROVE Results'
  OBVIOUS
<1> USE DEF Results
<1>1. ASSUME UNCHANGED <<name, g_win_io, recent>> PROVE Results'
  BY <1>1
<1>2. CASE Process \/ UNCHANGED vars \/ SeedCtx \/ SeedIo \/ ReadCycles \/ ReadCtx \/ ReadIo \/ IdleInterval
  BY <1>1, <1>2, ProcessMaps
  DEF vars, slot, results, SeedCtx, SeedIo, ReadCycles, ReadCtx, ReadIo, IdleInterval
<1>3. CASE AddPid \/ RemoveSlot
  <2>1. name' = NoName /\ g_win_io' = sw_init /\ recent' = <<>>
    BY <1>3 DEF AddPid, RemoveSlot
  <2>2. recent' \in Seq(Nat) /\ Len(recent') = 0
    BY <2>1
  <2> QED BY <2>1, <2>2, WindowStarts
<1>4. CASE SetName
  <2>1. g_win_io' = g_win_io /\ recent' = recent
    BY <1>4 DEF SetName, PopLookup, PopDelete, ReadProcComm, results
  <2>2. name' \in {name, exec, comm, NoName}
    BY <1>4 DEF SetName, PopLookup, PopDelete, ReadProcComm, results
  <2>3. comm \in {NoName} \cup ((1 .. MaxLives) \X Nat) /\ exec \in {NoName} \cup ((1 .. MaxLives) \X Nat)
    BY DEF MapsInv, MapsTyped, MapsTypeOK
  <2> QED BY <2>1, <2>2, <2>3
<1>5. CASE Sample
  <2>1. /\ name' = name /\ g_win_io' = sw_push(g_win_io, d_io)
        /\ recent' = IF Len(Append(recent, d_io)) > Capacity THEN Tail(Append(recent, d_io))
                                                             ELSE Append(recent, d_io)
    BY <1>5 DEF Sample, Latest
  <2>2. d_io \in Nat
    BY DiffType DEF d_io, Numbers
  <2>3. Append(recent, d_io) \in Seq(Nat) /\ Len(Append(recent, d_io)) = Len(recent) + 1
    BY <2>2, AppendProperties
  <2>4. /\ Tail(Append(recent, d_io)) \in Seq(Nat)
        /\ Len(Tail(Append(recent, d_io))) = Len(recent)
    BY <2>3, HeadTailProperties, LenProperties
  <2>5. recent' \in Seq(Nat) /\ Len(recent') <= Capacity
    BY <2>1, <2>3, <2>4, LenProperties
  <2> QED BY <2>1, <2>5, WindowStays
<1> QED BY <1>2, <1>3, <1>4, <1>5 DEF Next, Daemon

\* It holds at the start.
LEMMA ResultsInit == Init => Results
<1> SUFFICES ASSUME Init PROVE Results
  OBVIOUS
<1>1. name = NoName /\ g_win_io = sw_init /\ recent = <<>>
  BY DEF Init
<1>2. recent \in Seq(Nat) /\ Len(recent) = 0
  BY <1>1
<1> QED BY <1>1, <1>2, WindowStarts DEF Results

SamplerInv == MapsInv /\ Flags /\ Numbers /\ Results

\* The types hold at the start.
LEMMA SamplerInit == Init => SamplerInv
BY MapsInvInit, NumbersInit, ResultsInit DEF SamplerInv, Init

\* Every step keeps them.
LEMMA SamplerInductive == SamplerInv /\ [Next]_vars => SamplerInv'
BY MapsInvStep, FlagsInductive, NumbersInductive, ResultsInductive DEF SamplerInv

\* The variables keep their types: the window's head and count stay within its
\* buffer, the count of pushes below the number at which the sum is computed
\* anew, and the maps within what the programs may store.
THEOREM TypeCorrect == Spec => []TypeOK
<1>1. SamplerInv => TypeOK
  <2> SUFFICES ASSUME SamplerInv PROVE TypeOK
    OBVIOUS
  <2>1. MapsTypeOK /\ Flags /\ Numbers /\ Results
    BY DEF SamplerInv, MapsInv, MapsTyped
  <2>2. of \in 0 .. MaxLives
    BY <2>1 DEF Numbers, MapsTypeOK
  <2> QED BY <2>1, <2>2 DEF TypeOK, Flags, Numbers, Results, WindowType
<1> QED BY <1>1, SamplerInit, SamplerInductive, PTL DEF Spec

-----------------------------------------------------------------------------
(* The accounts *)

\* The counts are far below the width of their words: with Modulus 2^64, no
\* machine lives long enough for the two to meet.
NoWrap == Modulus > MaxEvents + MaxLives

\* What a read of either count returns now.
CtxSeen == Read(ctx)
IoSeen  == Read(io)

\* Reads return counts.
LEMMA SeenType ==
  ASSUME MapsInv PROVE CtxSeen \in Nat /\ IoSeen \in Nat
BY ReadType DEF CtxSeen, IoSeen

\* They do not reach the width of their words.
LEMMA SeenBounded ==
  ASSUME NoWrap, MapsInv PROVE CtxSeen < Modulus /\ IoSeen < Modulus
BY DEF CtxSeen, IoSeen, NoWrap, MapsInv, MapsTyped, MapsTypeOK, Bounded, Read, Absent

\* A count that goes up by one, of an entry that may not be there yet.
LEMMA CountedRead ==
  ASSUME NEW e \in {Absent} \cup Nat
  PROVE  Read(Counted(e)) = Read(e) + 1 /\ Read(Preset(e)) = Read(e)
BY DEF Read, Counted, Preset, Absent

\* What a step of the process does to the accounts of one that goes on running:
\* a switch counts, is owed and moves the cycle counter, and so does an I/O
\* completion, the last but for one in another thread.
ProcessAccounts ==
  /\ UNCHANGED slot /\ settled' = settled
  /\ Live' =>
       /\ Live /\ traced' = traced
       /\ \/ CtxSeen' = CtxSeen /\ owedCtx' = owedCtx
          \/ CtxSeen' = CtxSeen + 1 /\ owedCtx' = owedCtx + 1 /\ ran'
       /\ ran => ran'
       /\ traced => \/ IoSeen' = IoSeen /\ owedIo' = owedIo
                    \/ IoSeen' = IoSeen + 1 /\ owedIo' = owedIo + 1

\* Every step of the process keeps its account.
LEMMA ProcessAccountsStep == ASSUME SamplerInv, Process PROVE ProcessAccounts
<1>1. UNCHANGED slot
  BY ProcessMaps
<1> USE DEF ProcessAccounts, Live, Counting
<1>0. /\ ctx \in {Absent} \cup Nat /\ io \in {Absent} \cup Nat /\ owedCtx \in Int /\ owedIo \in Int
      /\ of \in 0 .. life /\ life \in Nat /\ of' = of
      /\ traced => inserting = 0 /\ (proc \in {"alive", "headless"} => io # Absent)
  BY <1>1 DEF SamplerInv, MapsInv, MapsTyped, MapsTypeOK, Numbers, Forgotten, slot
<1>2. CASE Runs
  <2>1. UNCHANGED <<proc, life, traced, ctx, io, owed>>
    BY <1>2 DEF Runs, mapsVars, process, maps
  <2>2. ran => ran'
    BY <1>2 DEF Runs
  <2> QED BY <1>0, <1>1, <2>1, <2>2 DEF CtxSeen, IoSeen, owed
<1>3. CASE Sleeps
  <2>1. proc = "alive" /\ UNCHANGED <<proc, life, traced, io>> /\ ctx' = Counted(ctx)
    BY <1>3 DEF Sleeps, Switch, process
  <2>2. /\ ran' = (ran \/ of = life)
        /\ owedCtx' = IF of = life THEN owedCtx + 1 ELSE owedCtx
        /\ UNCHANGED <<owedIo, settled>>
    BY <1>3 DEF Sleeps, MainRan, OwesCtx
  <2>3. CtxSeen' = CtxSeen + 1 /\ IoSeen' = IoSeen
    BY <1>0, <2>1, CountedRead DEF CtxSeen, IoSeen
  <2> QED BY <1>0, <1>1, <2>1, <2>2, <2>3
<1>4. CASE Execs \/ RenamesItself
  <2>1. UNCHANGED <<proc, life, traced, ctx, io, owed>> /\ (ran => ran')
    BY <1>4 DEF Execs, RenamesItself, Exec, Rename, MainRan, maps
  <2> QED BY <1>0, <1>1, <2>1 DEF CtxSeen, IoSeen, owed
<1>5. CASE IoCounted
  <2>1. UNCHANGED <<proc, life, traced, ctx>> /\ io' = io + 1 /\ io # Absent
    BY <1>5 DEF IoCounted, IoCount, process
  <2>2. /\ owedIo' = IF of = life THEN owedIo + 1 ELSE owedIo
        /\ UNCHANGED <<owedCtx, settled>>
    BY <1>5 DEF IoCounted, OwesIo
  <2>3. CtxSeen' = CtxSeen /\ IoSeen' = IoSeen + 1
    BY <1>0, <2>1 DEF CtxSeen, IoSeen, Read, Absent
  <2>4. ran => ran'
    BY <1>5 DEF IoCounted, MainRan
  <2> QED BY <1>0, <1>1, <2>1, <2>2, <2>3, <2>4
<1>6. CASE IoSeenFirst
  <2>1. UNCHANGED <<proc, life, traced, ctx>> /\ proc \in {"alive", "headless"} /\ io = Absent
    BY <1>6 DEF IoSeenFirst, IoLookup, Interrupted, process
  <2>2. UNCHANGED <<owedCtx, settled>>
    BY <1>6 DEF IoSeenFirst
  <2>3. ran => ran'
    BY <1>6 DEF IoSeenFirst, MainRan
  <2> QED BY <1>0, <1>1, <2>1, <2>2, <2>3 DEF CtxSeen, IoSeen
<1>7. CASE IoInserted
  <2>1. UNCHANGED <<proc, life, traced, ctx, ran, owed>> /\ inserting > 0
    BY <1>7 DEF IoInserted, IoInsert, process
  <2> QED BY <1>0, <1>1, <2>1 DEF CtxSeen, IoSeen, owed
<1>8. CASE Exits \/ MainThreadExits \/ Zombie \/ Ends
  <2>1. proc' # "alive"
    BY <1>8 DEF Exits, MainThreadExits, Zombie, Ends, Exit, MainExits, LastSwitch, LastThreadExits
  <2>2. settled' = settled
    BY <1>8 DEF Exits, MainThreadExits, Zombie, Ends, owed
  <2> QED BY <1>1, <2>1, <2>2
<1>9. CASE IsBorn
  <2>1. life' = life + 1 /\ settled' = settled
    BY <1>9 DEF IsBorn, Fork, owed
  <2> QED BY <1>0, <1>1, <2>1
<1> QED BY <1>2, <1>3, <1>4, <1>5, <1>6, <1>7, <1>8, <1>9 DEF Process

\* A step of the daemon leaves the counts alone.
LEMMA DaemonAccounts ==
  ASSUME Daemon PROVE /\ UNCHANGED <<proc, life, traced, ctx, io>>
                      /\ CtxSeen' = CtxSeen /\ IoSeen' = IoSeen
BY DaemonMaps DEF MapsRead, mapsVars, process, maps, CtxSeen, IoSeen

-----------------------------------------------------------------------------
(* Switches *)

\* What is owed is what was counted since the baseline; the count that was read
\* lies between the two; and while the cycle counter stands still, nothing is
\* owed but what the sample that is under way has still to account for.
Switches ==
  /\ Live /\ pc # "seed ctx" => owedCtx = CtxSeen - prev_ctx /\ prev_ctx <= CtxSeen
  /\ Live /\ pc \in {"io", "compute"} => prev_ctx <= cur_ctx /\ cur_ctx <= CtxSeen
  /\ Live /\ pc \in {"io", "compute"} /\ ~ran => cur_ctx = CtxSeen
  /\ Live /\ pc \notin {"seed ctx", "ctx", "io", "compute"} /\ ~ran => owedCtx = 0
  /\ Live /\ pc \in {"ctx", "io", "compute"} /\ ~moved => settled = 0

\* Every step keeps Switches.
LEMMA SwitchesInductive == SamplerInv /\ NoWrap /\ Switches /\ [Next]_vars => Switches'
<1> SUFFICES ASSUME SamplerInv, NoWrap, Switches, [Next]_vars PROVE Switches'
  OBVIOUS
<1> USE DEF Switches
<1>0. /\ CtxSeen \in Nat /\ CtxSeen < Modulus /\ CtxSeen' \in Nat
      /\ cur_ctx \in Nat /\ prev_ctx \in Nat /\ owedCtx \in Int
      /\ cur_ctx' \in Nat /\ prev_ctx' \in Nat /\ owedCtx' \in Int
      /\ settled \in Int /\ settled' \in Int
  <2>1. SamplerInv'
    BY SamplerInductive
  <2>2. CtxSeen' \in Nat
    BY <2>1 DEF CtxSeen, SamplerInv, MapsInv, MapsTyped, MapsTypeOK, Read, Absent
  <2> QED BY <2>1, <2>2, SeenType, SeenBounded DEF SamplerInv, Numbers
<1>1. CASE Process
  <2>1. UNCHANGED <<pc, moved, cur_ctx, prev_ctx>>
    BY <1>1, ProcessAccountsStep DEF ProcessAccounts, slot, reads, bases
  <2>2. /\ settled' = settled
        /\ Live' => /\ Live /\ (ran => ran')
                    /\ \/ CtxSeen' = CtxSeen /\ owedCtx' = owedCtx
                       \/ CtxSeen' = CtxSeen + 1 /\ owedCtx' = owedCtx + 1 /\ ran'
    BY <1>1, ProcessAccountsStep DEF ProcessAccounts
  <2>3. Live' /\ pc' # "seed ctx" => owedCtx' = CtxSeen' - prev_ctx' /\ prev_ctx' <= CtxSeen'
    <3> SUFFICES ASSUME Live', pc' # "seed ctx"
                 PROVE  owedCtx' = CtxSeen' - prev_ctx' /\ prev_ctx' <= CtxSeen'
      OBVIOUS
    <3>1. owedCtx = CtxSeen - prev_ctx /\ prev_ctx <= CtxSeen
      BY <2>1, <2>2
    <3>2. \/ CtxSeen' = CtxSeen /\ owedCtx' = owedCtx
          \/ CtxSeen' = CtxSeen + 1 /\ owedCtx' = owedCtx + 1
      BY <2>2
    <3>3. prev_ctx' = prev_ctx
      BY <2>1
    <3>4. /\ (CtxSeen - prev_ctx) + 1 = (CtxSeen + 1) - prev_ctx
          /\ prev_ctx <= CtxSeen + 1
      BY ONLY <1>0, <3>1
    <3> QED BY ONLY <3>1, <3>2, <3>3, <3>4, Zenon
  <2>4. Live' /\ pc' \in {"io", "compute"} => prev_ctx' <= cur_ctx' /\ cur_ctx' <= CtxSeen'
    <3> SUFFICES ASSUME Live', pc' \in {"io", "compute"}
                 PROVE  prev_ctx' <= cur_ctx' /\ cur_ctx' <= CtxSeen'
      OBVIOUS
    <3>1. prev_ctx <= cur_ctx /\ cur_ctx <= CtxSeen
      BY <2>1, <2>2
    <3>2. CtxSeen' = CtxSeen \/ CtxSeen' = CtxSeen + 1
      BY <2>2
    <3> QED BY ONLY <1>0, <2>1, <3>1, <3>2
  <2>5. Live' /\ pc' \in {"io", "compute"} /\ ~ran' => cur_ctx' = CtxSeen'
    BY <2>1, <2>2
  <2>6. Live' /\ pc' \notin {"seed ctx", "ctx", "io", "compute"} /\ ~ran' => owedCtx' = 0
    BY <2>1, <2>2
  <2>7. Live' /\ pc' \in {"ctx", "io", "compute"} /\ ~moved' => settled' = 0
    BY <2>1, <2>2
  <2> QED BY <2>3, <2>4, <2>5, <2>6, <2>7
<1>2. ASSUME Daemon, UNCHANGED <<ran, of, moved, cur_ctx, prev_ctx, owedCtx, settled>>,
             pc \notin {"seed ctx", "ctx", "io", "compute"},
             pc' \notin {"seed ctx", "ctx", "io", "compute"}
      PROVE  Switches'
  BY <1>0, <1>2, DaemonAccounts DEF Live, Counting
<1>3. CASE AddPid
  BY <1>3 DEF AddPid
<1>4. CASE SeedCtx
  <2>1. /\ pc' = "seed io" /\ prev_ctx' = CtxSeen /\ owedCtx' = 0
    BY <1>4 DEF SeedCtx, CtxSeen
  <2>2. CtxSeen' = CtxSeen
    BY <1>4, DaemonAccounts DEF Daemon
  <2>3. owedCtx' = CtxSeen' - prev_ctx' /\ prev_ctx' <= CtxSeen'
    <3>1. CtxSeen - CtxSeen = 0 /\ CtxSeen <= CtxSeen
      BY ONLY <1>0
    <3> QED BY ONLY <2>1, <2>2, <3>1, Zenon
  <2> QED BY <2>1, <2>3
<1>5. CASE SeedIo
  <2>1. /\ pc = "seed io" /\ pc' = "seed name"
        /\ UNCHANGED <<ran, of, moved, cur_ctx, prev_ctx, owedCtx, settled>>
    BY <1>5 DEF SeedIo, reads
  <2> QED BY <1>2, <1>5, <2>1 DEF Daemon
<1>6. CASE SetName
  <2>1. UNCHANGED <<ran, of, moved, cur_ctx, prev_ctx, owedCtx, settled>>
    BY <1>6 DEF SetName, PopLookup, PopDelete, ReadProcComm, reads, bases, owed
  <2>2. /\ pc \in {"seed name", "seed delete", "name", "delete"}
        /\ pc' \in {"seed delete", "delete", "idle"}
    BY <1>6 DEF SetName, PopLookup, PopDelete, ReadProcComm
  <2> QED BY <1>2, <1>6, <2>1, <2>2 DEF Daemon
<1>7. CASE ReadCycles
  <2>1. /\ pc = "idle" /\ pc' = "ctx" /\ moved' = ran /\ settled' = owedCtx
        /\ UNCHANGED <<of, prev_ctx, owedCtx>>
    BY <1>7 DEF ReadCycles, bases
  <2> QED BY <1>0, <1>7, <2>1, DaemonAccounts DEF Daemon, Live, Counting
<1>8. CASE ReadCtx
  <2>1. /\ pc = "ctx" /\ pc' = "io" /\ cur_ctx' = CtxSeen
        /\ UNCHANGED <<ran, of, moved, prev_ctx, owedCtx, settled>>
    BY <1>8 DEF ReadCtx, bases, owed, CtxSeen
  <2> QED BY <1>0, <1>8, <2>1, DaemonAccounts DEF Daemon, Live, Counting
<1>9. CASE ReadIo
  <2>1. /\ pc = "io" /\ pc' = "compute"
        /\ UNCHANGED <<ran, of, moved, cur_ctx, prev_ctx, owedCtx, settled>>
    BY <1>9 DEF ReadIo, bases, owed
  <2> QED BY <1>0, <1>9, <2>1, DaemonAccounts DEF Daemon, Live, Counting
<1>10. CASE IdleInterval \/ Sample
  <2>1. /\ pc = "compute" /\ pc' \in {"idle", "name"} /\ prev_ctx' = cur_ctx
        /\ owedCtx' = owedCtx - d_ctx /\ UNCHANGED <<ran, of>>
    BY <1>10 DEF IdleInterval, Sample
  <2>2. Live => d_ctx = cur_ctx - prev_ctx
    BY <1>0, <2>1, DiffExact DEF d_ctx
  <2>3. CtxSeen' = CtxSeen /\ (Live' => Live)
    BY <1>10, <2>1, DaemonAccounts DEF Daemon, Live, Counting
  <2>4. Live => /\ owedCtx = CtxSeen - prev_ctx /\ cur_ctx <= CtxSeen
                /\ (~ran => cur_ctx = CtxSeen)
    BY <2>1
  <2>5. Live' => owedCtx' = CtxSeen' - prev_ctx' /\ prev_ctx' <= CtxSeen'
    BY <1>0, <2>1, <2>2, <2>3, <2>4
  <2>6. Live' /\ ~ran' => owedCtx' = 0
    <3> SUFFICES ASSUME Live', ~ran' PROVE owedCtx' = 0
      OBVIOUS
    <3>1. ~ran /\ Live
      BY <2>1, <2>3
    <3>2. cur_ctx = CtxSeen
      BY <2>4, <3>1
    <3> QED BY <1>0, <2>1, <2>2, <2>4, <3>1, <3>2
  <2> QED BY <2>1, <2>5, <2>6
<1>11. CASE RemoveSlot
  <2>1. of' = 0 /\ (proc = "alive" => life >= 1)
    BY <1>11, LifeType DEF RemoveSlot, SamplerInv
  <2>2. ~Live'
    <3>1. life \in Nat /\ life' = life /\ proc' = proc
      BY <1>11, LifeType, DaemonAccounts DEF Daemon, SamplerInv
    <3> QED BY ONLY <2>1, <3>1 DEF Live, Counting
  <2> QED BY <2>2
<1>12. CASE UNCHANGED vars
  BY <1>12 DEF vars, slot, reads, bases, owed, mapsVars, process, maps, CtxSeen, Live, Counting
<1> QED
  BY <1>1, <1>3, <1>4, <1>5, <1>6, <1>7, <1>8, <1>9, <1>10, <1>11, <1>12 DEF Next, Daemon

\* It holds at the start.
LEMMA SwitchesInit == Init => Switches
BY LifeType, MapsInvInit DEF Init, Switches, Live, Counting

\* Every voluntary switch of a running process is in one interval, and none is
\* invented, as long as the counts do not outgrow their words.
THEOREM EverySwitchOnce == ASSUME NoWrap PROVE Spec => []SwitchesAccounted
<1>1. Switches => SwitchesAccounted
  BY DEF Switches, SwitchesAccounted, CtxSeen
<1>2. SamplerInv /\ Switches /\ [Next]_vars => Switches'
  BY SwitchesInductive
<1> QED BY <1>1, <1>2, SamplerInit, SamplerInductive, SwitchesInit, PTL DEF Spec

\* An idle interval throws only switches away that took place after it read the
\* cycle counter.
THEOREM IdleLosesNoSettled == ASSUME NoWrap PROVE Spec => []IdleDropsOnlyRaces
<1>1. Switches => IdleDropsOnlyRaces
  BY DEF Switches, IdleDropsOnlyRaces
<1>2. SamplerInv /\ Switches /\ [Next]_vars => Switches'
  BY SwitchesInductive
<1> QED BY <1>1, <1>2, SamplerInit, SamplerInductive, SwitchesInit, PTL DEF Spec

\* The process sampled still runs when the differences are taken.
SamplesOfLiving == pc = "compute" /\ moved => Live

\* No sample reports more switches than took place as long as none is of a process
\* that ends between its reads: the phantom switches come of the entry that
\* handle_exit deletes and the last switch inserts again, and of nothing else.
THEOREM PhantomsComeOfExits ==
  ASSUME NoWrap PROVE Spec /\ []SamplesOfLiving => []NoPhantomSwitches
<1>1. SamplerInv /\ Switches /\ SamplesOfLiving => NoPhantomSwitches
  <2> SUFFICES ASSUME SamplerInv, Switches, Live, pc = "compute" PROVE d_ctx <= owedCtx
    BY DEF SamplesOfLiving, NoPhantomSwitches
  <2>1. /\ prev_ctx \in Nat /\ cur_ctx \in Nat
        /\ CtxSeen \in Nat /\ CtxSeen < Modulus
    BY SeenType, SeenBounded DEF SamplerInv, Numbers
  <2>2. /\ owedCtx = CtxSeen - prev_ctx
        /\ prev_ctx <= cur_ctx /\ cur_ctx <= CtxSeen
    BY DEF Switches
  <2>3. d_ctx = cur_ctx - prev_ctx
    BY <2>1, <2>2, DiffExact DEF d_ctx
  <2> QED BY <2>1, <2>2, <2>3
<1>2. SamplerInv /\ Switches /\ [Next]_vars => Switches'
  BY SwitchesInductive
<1> QED BY <1>1, <1>2, SamplerInit, SamplerInductive, SwitchesInit, PTL DEF Spec

-----------------------------------------------------------------------------
(* I/O completions *)

\* The same of the completions of a process whose fork was seen.
Completions ==
  Live /\ traced =>
    /\ pc \notin {"seed ctx", "seed io"} => owedIo = IoSeen - prev_io /\ prev_io <= IoSeen
    /\ pc = "compute" => prev_io <= cur_io /\ cur_io <= IoSeen

\* Every step keeps Completions.
LEMMA CompletionsInductive == SamplerInv /\ NoWrap /\ Completions /\ [Next]_vars => Completions'
<1> SUFFICES ASSUME SamplerInv, NoWrap, Completions, [Next]_vars, Live', traced'
             PROVE  /\ pc' \notin {"seed ctx", "seed io"} =>
                         owedIo' = IoSeen' - prev_io' /\ prev_io' <= IoSeen'
                    /\ pc' = "compute" => prev_io' <= cur_io' /\ cur_io' <= IoSeen'
  BY DEF Completions
<1>0. /\ IoSeen \in Nat /\ IoSeen < Modulus /\ cur_io \in Nat /\ prev_io \in Nat /\ owedIo \in Int
  BY SeenType, SeenBounded DEF SamplerInv, Numbers
<1>00. /\ Live /\ traced /\ pc \notin {"seed ctx", "seed io"} =>
            owedIo = IoSeen - prev_io /\ prev_io <= IoSeen
       /\ Live /\ traced /\ pc = "compute" => prev_io <= cur_io /\ cur_io <= IoSeen
  BY DEF Completions
<1>1. CASE Process
  <2>1. UNCHANGED <<pc, cur_io, prev_io>>
    BY <1>1, ProcessAccountsStep DEF ProcessAccounts, slot, reads, bases
  <2>2. /\ Live /\ traced
        /\ \/ IoSeen' = IoSeen /\ owedIo' = owedIo
           \/ IoSeen' = IoSeen + 1 /\ owedIo' = owedIo + 1
    BY <1>1, ProcessAccountsStep DEF ProcessAccounts
  <2>3. ASSUME pc' \notin {"seed ctx", "seed io"}
        PROVE  owedIo' = IoSeen' - prev_io' /\ prev_io' <= IoSeen'
    <3>1. owedIo = IoSeen - prev_io /\ prev_io <= IoSeen
      BY <1>00, <2>1, <2>2, <2>3
    <3>2. (IoSeen - prev_io) + 1 = (IoSeen + 1) - prev_io /\ prev_io <= IoSeen + 1
      BY ONLY <1>0, <3>1
    <3> QED BY ONLY <2>1, <2>2, <3>1, <3>2, Zenon
  <2>4. ASSUME pc' = "compute" PROVE prev_io' <= cur_io' /\ cur_io' <= IoSeen'
    <3>1. prev_io <= cur_io /\ cur_io <= IoSeen
      BY <1>00, <2>1, <2>2, <2>4
    <3>2. cur_io <= IoSeen + 1
      BY ONLY <1>0, <3>1
    <3> QED BY ONLY <2>1, <2>2, <3>1, <3>2, Zenon
  <2> QED BY <2>3, <2>4
<1>2. ASSUME Daemon PROVE IoSeen' = IoSeen /\ traced /\ proc = "alive" /\ life' = life
  BY <1>2, DaemonAccounts DEF Live
<1>3. ASSUME Daemon, UNCHANGED of PROVE Live
  BY <1>2, <1>3, DaemonAccounts DEF Live, Counting
<1>4. ASSUME Daemon, UNCHANGED <<of, cur_io, prev_io, owedIo>>,
             pc' # "compute", pc \notin {"seed ctx", "seed io"} \/ pc' = "seed io"
      PROVE  /\ pc' \notin {"seed ctx", "seed io"} =>
                  owedIo' = IoSeen' - prev_io' /\ prev_io' <= IoSeen'
             /\ pc' = "compute" => prev_io' <= cur_io' /\ cur_io' <= IoSeen'
  <2>1. Live /\ traced /\ IoSeen' = IoSeen
    BY <1>2, <1>3, <1>4
  <2> QED BY ONLY <1>4, <1>00, <2>1, Zenon
<1>5. CASE AddPid
  BY <1>5 DEF AddPid
<1>6. CASE SeedCtx
  BY <1>6 DEF SeedCtx
<1>7. CASE SeedIo
  <2>1. pc' = "seed name" /\ prev_io' = IoSeen /\ owedIo' = 0
    BY <1>7 DEF SeedIo, IoSeen
  <2>2. IoSeen' = IoSeen
    BY <1>2, <1>7 DEF Daemon
  <2>3. IoSeen - IoSeen = 0 /\ IoSeen <= IoSeen
    BY ONLY <1>0
  <2>4. owedIo' = IoSeen' - prev_io' /\ prev_io' <= IoSeen'
    BY ONLY <2>1, <2>2, <2>3, Zenon
  <2> QED BY <2>1, <2>4
<1>8. CASE SetName
  <2>1. UNCHANGED <<of, cur_io, prev_io, owedIo>>
    BY <1>8 DEF SetName, PopLookup, PopDelete, ReadProcComm, reads, bases, owed
  <2>2. /\ pc \in {"seed name", "seed delete", "name", "delete"}
        /\ pc' \in {"seed delete", "delete", "idle"}
    BY <1>8 DEF SetName, PopLookup, PopDelete, ReadProcComm
  <2> QED BY <1>4, <1>8, <2>1, <2>2 DEF Daemon
<1>9. CASE ReadCycles \/ ReadCtx
  <2>1. UNCHANGED <<of, cur_io, prev_io, owedIo>>
    BY <1>9 DEF ReadCycles, ReadCtx, bases, owed
  <2>2. pc \in {"idle", "ctx"} /\ pc' \in {"ctx", "io"}
    BY <1>9 DEF ReadCycles, ReadCtx
  <2> QED BY <1>4, <1>9, <2>1, <2>2 DEF Daemon
<1>10. CASE ReadIo
  <2>1. /\ pc = "io" /\ pc' = "compute" /\ cur_io' = IoSeen
        /\ UNCHANGED <<of, prev_io, owedIo>>
    BY <1>10 DEF ReadIo, bases, owed, IoSeen
  <2>2. Live /\ traced /\ IoSeen' = IoSeen
    BY <1>2, <1>3, <1>10, <2>1 DEF Daemon
  <2>3. owedIo = IoSeen - prev_io /\ prev_io <= IoSeen
    BY <1>00, <2>1, <2>2
  <2>4. IoSeen <= IoSeen
    BY ONLY <1>0
  <2> QED BY ONLY <2>1, <2>2, <2>3, <2>4, Zenon
<1>11. CASE IdleInterval
  <2>1. pc = "compute" /\ pc' = "idle" /\ UNCHANGED <<of, prev_io, owedIo>>
    BY <1>11 DEF IdleInterval
  <2>2. Live /\ traced /\ IoSeen' = IoSeen
    BY <1>2, <1>3, <1>11, <2>1 DEF Daemon
  <2>3. owedIo = IoSeen - prev_io /\ prev_io <= IoSeen
    BY <1>00, <2>1, <2>2
  <2>4. owedIo' = IoSeen' - prev_io' /\ prev_io' <= IoSeen'
    BY ONLY <2>1, <2>2, <2>3, Zenon
  <2> QED BY <2>1, <2>4
<1>12. CASE Sample
  <2>1. /\ pc = "compute" /\ pc' = "name" /\ prev_io' = cur_io
        /\ owedIo' = owedIo - d_io /\ UNCHANGED of
    BY <1>12 DEF Sample
  <2>2. Live /\ traced /\ IoSeen' = IoSeen
    BY <1>2, <1>3, <1>12, <2>1 DEF Daemon
  <2>3. /\ owedIo = IoSeen - prev_io /\ prev_io <= cur_io /\ cur_io <= IoSeen
    BY <1>00, <2>1, <2>2
  <2>4. cur_io < Modulus
    BY ONLY <1>0, <2>3, ModulusAssumption
  <2>5. d_io = cur_io - prev_io
    BY <1>0, <2>3, <2>4, DiffExact DEF d_io
  <2>6. (IoSeen - prev_io) - (cur_io - prev_io) = IoSeen - cur_io
    BY ONLY <1>0
  <2>7. owedIo' = IoSeen' - prev_io' /\ prev_io' <= IoSeen'
    BY ONLY <2>1, <2>2, <2>3, <2>5, <2>6, Zenon
  <2> QED BY <2>1, <2>7
<1>13. CASE RemoveSlot
  <2>1. of' = 0 /\ life \in Nat /\ life >= 1
    BY <1>2, <1>13, LifeType DEF RemoveSlot, SamplerInv, Daemon
  <2>2. life' = life
    BY <1>2, <1>13 DEF Daemon
  <2>3. of' # life'
    BY <2>1, <2>2
  <2> QED BY <2>3 DEF Live, Counting
<1>14. CASE UNCHANGED vars
  <2>1. /\ UNCHANGED <<pc, cur_io, prev_io, owedIo, of, proc, life, traced, io>>
    BY <1>14 DEF vars, slot, reads, bases, owed, mapsVars, process, maps
  <2>2. Live /\ traced /\ IoSeen' = IoSeen
    BY <2>1 DEF Live, Counting, IoSeen
  <2> QED BY ONLY <1>00, <2>1, <2>2, Zenon
<1> QED
  BY <1>1, <1>5, <1>6, <1>7, <1>8, <1>9, <1>10, <1>11, <1>12, <1>13, <1>14 DEF Next, Daemon

\* It holds at the start.
LEMMA CompletionsInit == Init => Completions
BY LifeType, MapsInvInit DEF Init, Completions, Live, Counting

\* Every I/O completion of a process whose fork was seen is in one sample, over
\* any number of idle intervals, as long as the counts do not outgrow their
\* words.
THEOREM EveryCompletionOnce == ASSUME NoWrap PROVE Spec => []IoAccounted
<1>1. Completions => IoAccounted
  BY DEF Completions, IoAccounted, IoSeen
<1>2. SamplerInv /\ Completions /\ [Next]_vars => Completions'
  BY CompletionsInductive
<1> QED BY <1>1, <1>2, SamplerInit, SamplerInductive, CompletionsInit, PTL DEF Spec

-----------------------------------------------------------------------------
(* The window *)

\* The window holds the samples it should, and their sum.
Windowed == WindowHolds(g_win_io, recent)

\* Every step keeps Windowed.
LEMMA WindowedInductive == SamplerInv /\ Windowed /\ [Next]_vars => Windowed'
<1> SUFFICES ASSUME SamplerInv, Windowed, [Next]_vars PROVE Windowed'
  OBVIOUS
<1>1. ASSUME g_win_io' = g_win_io, recent' = recent PROVE Windowed'
  BY <1>1 DEF Windowed
<1>2. CASE Process \/ UNCHANGED vars \/ SeedCtx \/ SeedIo \/ SetName
           \/ ReadCycles \/ ReadCtx \/ ReadIo \/ IdleInterval
  BY <1>1, <1>2, ProcessMaps
  DEF vars, slot, results, SeedCtx, SeedIo, ReadCycles, ReadCtx, ReadIo, IdleInterval,
      SetName, PopLookup, PopDelete, ReadProcComm
<1>3. CASE AddPid \/ RemoveSlot
  <2>1. g_win_io' = sw_init /\ recent' = <<>>
    BY <1>3 DEF AddPid, RemoveSlot
  <2> QED BY <2>1, InitHolds DEF Windowed
<1>4. CASE Sample
  <2>1. g_win_io' = sw_push(g_win_io, d_io) /\ recent' = Latest(recent, d_io)
    BY <1>4 DEF Sample
  <2>2. d_io \in Int
    BY DiffType DEF d_io, SamplerInv, Numbers
  <2>3. WindowHolds(sw_push(g_win_io, d_io), Latest(recent, d_io))
    BY <2>2, PushKeepsSum DEF Windowed
  <2> QED BY <2>1, <2>3 DEF Windowed
<1> QED BY <1>2, <1>3, <1>4 DEF Next, Daemon

\* The mean that is classified is that of the last Capacity samples: the window
\* counts and sums these, while it fills, when the head wraps and the oldest is
\* subtracted, when the sum is computed anew, and after a slot's reuse.
THEOREM MeanOfTheLast == Spec => []WindowIsRecent
<1>1. Init => Windowed
  BY InitHolds DEF Init, Windowed
<1>2. Windowed => WindowIsRecent
  BY DEF Windowed, WindowHolds, Holds, WindowIsRecent
<1> QED BY <1>1, <1>2, SamplerInit, SamplerInductive, WindowedInductive, PTL DEF Spec
=============================================================================
