------------------------ MODULE ShmLifecycle_proofs ------------------------
(***************************************************************************)
(* What holds of the shared-memory objects for any number of daemons, and  *)
(* of starts of each: no name survives an orderly end, and, as long as the *)
(* daemons run one at a time, a sampling daemon is visible under its names *)
(* and no ring is emptied under a consumer that drains it.                 *)
(***************************************************************************)
EXTENDS ShmLifecycle, TLAPS

USE StartsAssumption

-----------------------------------------------------------------------------
(* Type correctness *)

\* A daemon that is up was started, and has mapped what it is about to size.
Started(d) == Up(d) => starts[d] \in 1 .. MaxStarts
Opened(d)  == \A name \in Names : At(d, "size", name) => mapped[d][name] \in Regions

Typed == TypeOK /\ \A d \in Daemons : Started(d) /\ Opened(d)

\* The regions of a daemon that is up are regions.
LEMMA OwnRegion ==
  ASSUME Typed, NEW d \in Daemons, Up(d), NEW name \in Names
  PROVE  Own(d, name) \in Regions
BY DEF Typed, Started, Own, Regions

\* A region is not the absence of one.
LEMMA RegionParts ==
  ASSUME NEW r \in Regions
  PROVE  r # None /\ r[1] \in Daemons /\ r[2] \in Nat
BY DEF Regions, None

\* Unmapping one region of a daemon, or all.
LEMMA UnmapType ==
  ASSUME mapped \in [Daemons -> [Names -> Regions \cup {None}]], NEW d \in Daemons
  PROVE  /\ mapped' = [mapped EXCEPT ![d] = [name \in Names |-> None]]
              => mapped' \in [Daemons -> [Names -> Regions \cup {None}]]
         /\ \A name \in Names : mapped' = [mapped EXCEPT ![d][name] = None]
              => mapped' \in [Daemons -> [Names -> Regions \cup {None}]]
OBVIOUS

\* Where a daemon is up.
LEMMA AtUp ==
  ASSUME NEW d \in Daemons, NEW step, NEW ring, At(d, step, ring), step \notin Down
  PROVE  Up(d)
BY DEF At, Up

\* What a step of one daemon leaves alone: everything of the others.
Others(d) == \A e \in Daemons \ {d} : /\ pc'[e] = pc[e] /\ starts'[e] = starts[e]
                                      /\ mapped'[e] = mapped[e]

\* A step of one daemon leaves the others' own state alone.
LEMMA StepsApart ==
  ASSUME Typed, NEW d \in Daemons, Step(d) \/ Interrupt(d)
  PROVE  Others(d)
<1> USE DEF Typed, TypeOK, Others, Goto
<1>1. CASE Step(d)
  BY <1>1 DEF Step, LoadEbpf, Unlink, ShmOpen, SizeAndMap, Destroy, Serve, LeaveLoop, Ends
<1>2. CASE Interrupt(d)
  BY <1>2 DEF Interrupt, Start, ExitFailure, Terminate, FatalSignal, Kill, Ends
<1> QED BY <1>1, <1>2

\* Each action's effect on the daemon that takes it, and on what is shared.
LEMMA TypeStep ==
  ASSUME Typed, NEW d \in Daemons, Step(d) \/ Interrupt(d)
  PROVE  Typed'
<1> USE DEF TypeOK, Goto
<1>0. TypeOK /\ Started(d) /\ Opened(d)
  BY DEF Typed
<1>1. ASSUME TypeOK', Started(d)', Opened(d)' PROVE Typed'
  BY <1>1, StepsApart DEF Typed, Others, Started, Opened, Up, At
<1>2. ASSUME Ends(d, "failed") \/ Ends(d, "aborted") \/ Ends(d, "killed") \/ Ends(d, "stopped"),
             names' \in [Names -> Regions \cup {None}], attached' = attached
      PROVE  Typed'
  <2>1. TypeOK'
    <3>1. pc' \in [Daemons -> Steps \X (Names \cup {NoRing})]
      BY <1>0, <1>2 DEF Ends, Steps
    <3>2. mapped' \in [Daemons -> [Names -> Regions \cup {None}]]
      BY <1>0, <1>2, UnmapType DEF Ends
    <3> QED BY <1>0, <1>2, <3>1, <3>2 DEF Ends
  <2>2. Started(d)' /\ Opened(d)'
    BY <1>0, <1>2 DEF Ends, Started, Opened, Up, Down, At
  <2> QED BY <1>1, <2>1, <2>2
<1>3. CASE LoadEbpf(d) /\ UNCHANGED attached
  BY <1>0, <1>1, <1>3 DEF LoadEbpf, Started, Opened, Up, Down, At, Steps, Names
<1>4. ASSUME NEW name \in Names, Unlink(d, name), UNCHANGED attached PROVE Typed'
  BY <1>0, <1>1, <1>4 DEF Unlink, Started, Opened, Up, Down, At, Steps
<1>5. ASSUME NEW name \in Names, ShmOpen(d, name), UNCHANGED attached PROVE Typed'
  <2>1. Own(d, name) \in Regions
    BY <1>5, AtUp, OwnRegion DEF ShmOpen, Down
  <2>2. PICK r \in Regions : /\ names' = [names EXCEPT ![name] = r]
                             /\ mapped' = [mapped EXCEPT ![d][name] = r]
    BY <1>0, <1>5, <2>1 DEF ShmOpen
  <2>3. TypeOK'
    BY <1>0, <1>5, <2>2 DEF ShmOpen, Steps
  <2>4. Started(d)' /\ Opened(d)'
    BY <1>0, <1>5, <2>2 DEF ShmOpen, Started, Opened, Up, Down, At
  <2> QED BY <1>1, <2>3, <2>4
<1>6. ASSUME NEW name \in Names, SizeAndMap(d, name), UNCHANGED attached PROVE Typed'
  <2>1. TypeOK'
    BY <1>0, <1>6 DEF SizeAndMap, Opened, Steps, Names
  <2>2. Started(d)' /\ Opened(d)'
    BY <1>0, <1>6 DEF SizeAndMap, Started, Opened, Up, Down, At
  <2> QED BY <1>1, <2>1, <2>2
<1>7. ASSUME NEW name \in Names, Destroy(d, name), UNCHANGED attached PROVE Typed'
  <2>1. names' \in [Names -> Regions \cup {None}]
    BY <1>0, <1>7 DEF Destroy
  <2>2. CASE name = "monitor_rb"
    <3>1. TypeOK'
      <4>1. mapped' \in [Daemons -> [Names -> Regions \cup {None}]]
        BY <1>0, <1>7, <2>2, UnmapType DEF Destroy
      <4>2. pc' \in [Daemons -> Steps \X (Names \cup {NoRing})]
        BY <1>0, <1>7, <2>2 DEF Destroy, Steps, Names
      <4> QED BY <1>0, <1>7, <2>1, <2>2, <4>1, <4>2 DEF Destroy
    <3>2. Started(d)' /\ Opened(d)'
      BY <1>0, <1>7, <2>2 DEF Destroy, Started, Opened, Up, Down, At
    <3> QED BY <1>1, <3>1, <3>2
  <2>3. CASE name # "monitor_rb"
    BY <1>2, <1>7, <2>1, <2>3 DEF Destroy
  <2> QED BY <2>2, <2>3
<1>8. CASE (Serve(d) \/ LeaveLoop(d)) /\ UNCHANGED attached
  BY <1>0, <1>1, <1>8 DEF Serve, LeaveLoop, Started, Opened, Up, Down, At, Steps, Names
<1>9. CASE Start(d) /\ UNCHANGED attached
  BY <1>0, <1>1, <1>9 DEF Start, Started, Opened, Up, Down, At, Steps, Names
<1>10. CASE Terminate(d) /\ UNCHANGED attached
  BY <1>0, <1>1, <1>10 DEF Terminate, Started, Opened, Up, At
<1>11. CASE (ExitFailure(d) \/ Kill(d)) /\ UNCHANGED attached
  BY <1>0, <1>2, <1>11 DEF ExitFailure, Kill
<1>12. CASE FatalSignal(d) /\ UNCHANGED attached
  BY <1>0, <1>2, <1>12 DEF FatalSignal
<1> QED
  BY <1>3, <1>4, <1>5, <1>6, <1>7, <1>8, <1>9, <1>10, <1>11, <1>12 DEF Step, Interrupt

\* Every step keeps the types.
LEMMA TypedInductive == Typed /\ [Next]_vars => Typed'
<1> SUFFICES ASSUME Typed, [Next]_vars PROVE Typed'
  OBVIOUS
<1>1. ASSUME NEW name \in Names, Consumer(name) PROVE Typed'
  BY <1>1 DEF Consumer, daemonVars, Attach, Detach, Typed, TypeOK, Started, Opened, Up, At
<1>2. CASE UNCHANGED vars
  BY <1>2 DEF vars, daemonVars, Typed, TypeOK, Started, Opened, Up, At
<1> QED BY <1>1, <1>2, TypeStep DEF Next

\* They hold at the start.
LEMMA TypedInit == Init => Typed
BY DEF Init, Typed, TypeOK, Started, Opened, Up, Down, At, Steps

\* The variables keep their types: in particular a daemon sizes only a region
\* it has mapped.
THEOREM TypeCorrect == Spec => []TypeOK
<1>1. Typed => TypeOK
  BY DEF Typed
<1> QED BY <1>1, TypedInit, TypedInductive, PTL DEF Spec

-----------------------------------------------------------------------------
(* No name survives an orderly end *)

\* The region a name refers to was made by a daemon that did not end in order,
\* and that is not past the name if it is at its cleanup.
NamesOwned ==
  \A name \in Names : names[name] # None =>
    LET d == names[name][1]
    IN  /\ pc[d][1] \notin {"stopped", "aborted"}
        /\ At(d, "destroy", "monitor_rb_dash") => name # "monitor_rb"

\* A daemon that ends in an orderly way leaves no name; others own what is left.
LEMMA OwnedStep ==
  ASSUME Typed, NamesOwned, NEW d \in Daemons, Step(d) \/ Interrupt(d)
  PROVE  NamesOwned'
<1>0. TypeOK /\ Others(d)
  BY StepsApart DEF Typed
<1>1. \A name \in Names : names[name] # None => names[name][1] \in Daemons
  BY <1>0, RegionParts DEF TypeOK
\* A step that gives names to d, or takes them, and does not end d.
<1>2. ASSUME \A name \in Names : names'[name] \in {names[name], None} \/ names'[name][1] = d,
             pc'[d][1] \notin {"stopped", "aborted"}, ~At(d, "destroy", "monitor_rb_dash")'
      PROVE  NamesOwned'
  BY <1>0, <1>1, <1>2 DEF NamesOwned, Others, At
<1>3. CASE LoadEbpf(d) \/ Serve(d) \/ LeaveLoop(d) \/ Start(d) \/ ExitFailure(d) \/ Kill(d)
  <2>1. names' = names
    BY <1>3 DEF LoadEbpf, Serve, LeaveLoop, Start, ExitFailure, Kill
  <2>2. pc'[d][1] \notin {"stopped", "aborted"} /\ ~At(d, "destroy", "monitor_rb_dash")'
    BY <1>0, <1>3 DEF LoadEbpf, Serve, LeaveLoop, Start, ExitFailure, Kill, Ends, Goto, At, TypeOK
  <2> QED BY <1>2, <2>1, <2>2
<1>4. ASSUME NEW name \in Names, Unlink(d, name) \/ ShmOpen(d, name) \/ SizeAndMap(d, name)
      PROVE  NamesOwned'
  <2>1. pc'[d][1] \notin {"stopped", "aborted"} /\ ~At(d, "destroy", "monitor_rb_dash")'
    BY <1>0, <1>4 DEF Unlink, ShmOpen, SizeAndMap, Goto, At, TypeOK
  <2>2. ASSUME NEW other \in Names
        PROVE  names'[other] \in {names[other], None} \/ names'[other][1] = d
    BY <1>0, <1>4 DEF Unlink, ShmOpen, SizeAndMap, Own, TypeOK
  <2> QED BY <1>2, <2>1, <2>2
<1>5. ASSUME NEW name \in Names, Destroy(d, name) PROVE NamesOwned'
  <2>1. names' = [names EXCEPT ![name] = None] /\ At(d, "destroy", name)
    BY <1>5 DEF Destroy
  <2>2. CASE name = "monitor_rb"
    <3>1. pc'[d] = <<"destroy", "monitor_rb_dash">>
      BY <1>0, <1>5, <2>2 DEF Destroy, Goto, TypeOK
    <3> QED BY <1>0, <1>1, <2>1, <2>2, <3>1 DEF NamesOwned, Others, At, TypeOK
  <2>3. CASE name = "monitor_rb_dash"
    <3>1. ASSUME NEW other \in Names, names'[other] # None
          PROVE  other # name /\ names'[other] = names[other] /\ names[other][1] # d
      BY <1>0, <2>1, <2>3, <3>1 DEF NamesOwned, TypeOK, Names
    <3> QED BY <1>0, <1>1, <3>1 DEF NamesOwned, Others, At
  <2> QED BY <2>2, <2>3 DEF Names
<1>6. CASE Terminate(d)
  BY <1>6 DEF Terminate, NamesOwned, At
<1>7. CASE FatalSignal(d)
  BY <1>7 DEF FatalSignal, NamesOwned
<1> QED BY <1>3, <1>4, <1>5, <1>6, <1>7 DEF Step, Interrupt

\* Every step keeps NamesOwned.
LEMMA OwnedInductive == Typed /\ NamesOwned /\ [Next]_vars => NamesOwned'
<1> SUFFICES ASSUME Typed, NamesOwned, [Next]_vars PROVE NamesOwned'
  OBVIOUS
<1>1. ASSUME NEW name \in Names, Consumer(name) PROVE NamesOwned'
  BY <1>1 DEF Consumer, daemonVars, NamesOwned, At
<1>2. CASE UNCHANGED vars
  BY <1>2 DEF vars, daemonVars, NamesOwned, At
<1> QED BY <1>1, <1>2, OwnedStep DEF Next

\* However many daemons ran, and whatever others of them did in between: once
\* all have ended by SIGTERM or by a fatal signal that was caught, /dev/shm
\* holds neither name.
THEOREM CleanEnd == Spec => []NoStaleNames
<1>1. Init => Typed /\ NamesOwned
  BY TypedInit DEF Init, NamesOwned
<1>2. Typed /\ NamesOwned /\ [Next]_vars => Typed' /\ NamesOwned'
  BY TypedInductive, OwnedInductive
<1>3. Typed /\ NamesOwned => NoStaleNames
  BY RegionParts DEF Typed, TypeOK, NamesOwned, NoStaleNames
<1> QED BY <1>1, <1>2, <1>3, PTL DEF Spec

-----------------------------------------------------------------------------
(* Daemons that run one at a time *)

\* What stopping the service for a calibration is for.
Alone == \A d, e \in Daemons : Up(d) /\ Up(e) => d = e

\* The name refers to the region the daemon made for it in its current run.
Created(d, name) == names[name] = Own(d, name) /\ mapped[d][name] = Own(d, name)

\* Where a ring is complete, and where it is still to be sized.
Complete(d, name) ==
  \/ At(d, "ready", NoRing) \/ At(d, "serving", NoRing)
  \/ /\ name = "monitor_rb"
     /\ \E step \in {"unlink", "open", "size"} : At(d, step, "monitor_rb_dash")
Awaited(d, name) ==
  \/ At(d, "load", NoRing)
  \/ \E step \in {"unlink", "open", "size"} :
       At(d, step, name) \/ (name = "monitor_rb_dash" /\ At(d, step, "monitor_rb"))

Building(d) ==
  \A name \in Names : /\ At(d, "open", name) => names[name] = None
                      /\ At(d, "size", name) => Created(d, name)
                      /\ Complete(d, name) => Created(d, name) /\ Own(d, name) \in sized

\* The sized regions of a daemon are of the runs it has had.
Sized(d) ==
  /\ \A r \in sized : r[1] = d => r[2] <= starts[d]
  /\ \A name \in Names : Awaited(d, name) => Own(d, name) \notin sized

Undisturbed == \A d \in Daemons : Building(d) /\ Sized(d)

\* A daemon that is down is building nothing.
LEMMA DownIdle ==
  ASSUME NEW d \in Daemons, ~Up(d)
  PROVE  Building(d) /\ \A name \in Names : ~Awaited(d, name)
BY DEF Building, Awaited, Complete, At, Up, Down

\* While one daemon takes a step, those that are down only see their regions kept.
LEMMA OthersDown ==
  ASSUME Typed, Alone, Alone', NEW d \in Daemons, Step(d) \/ Interrupt(d)
  PROVE  \A e \in Daemons \ {d} : ~Up(e) /\ ~Up(e)'
<1>1. Up(d) \/ Up(d)'
  BY DEF Step, Interrupt, LoadEbpf, Unlink, ShmOpen, SizeAndMap, Serve, LeaveLoop, Destroy,
         Start, ExitFailure, Terminate, FatalSignal, Kill, At, Up, Down, Goto, Typed, TypeOK
<1> QED BY <1>1, StepsApart DEF Alone, Others, Up

\* A daemon's own steps keep what it has built so far.
LEMMA BuildingStep ==
  ASSUME Typed, NEW d \in Daemons, Building(d), Step(d) \/ Interrupt(d)
  PROVE  Building(d)'
<1> USE DEF Goto, At
<1>0. TypeOK
  BY DEF Typed
<1>1. ASSUME ~Up(d)' PROVE Building(d)'
  BY <1>1 DEF Building, Complete, Up, Down
<1>2. CASE LoadEbpf(d) \/ Start(d) \/ LeaveLoop(d)
  BY <1>0, <1>2 DEF LoadEbpf, Start, LeaveLoop, Building, Complete, TypeOK
<1>3. ASSUME NEW name \in Names, Unlink(d, name) PROVE Building(d)'
  BY <1>0, <1>3 DEF Unlink, Building, Complete, Created, Own, TypeOK, Names
<1>4. ASSUME NEW name \in Names, ShmOpen(d, name) PROVE Building(d)'
  BY <1>0, <1>4 DEF ShmOpen, Building, Complete, Created, Own, TypeOK, Names
<1>5. ASSUME NEW name \in Names, SizeAndMap(d, name) PROVE Building(d)'
  <2>1. /\ At(d, "size", name) /\ Created(d, name) /\ sized' = sized \cup {Own(d, name)}
        /\ UNCHANGED <<names, starts, mapped>>
    BY <1>5 DEF SizeAndMap, Building, Created
  <2>2. \A other \in Names : Created(d, other)' <=> Created(d, other)
    BY <2>1 DEF Created, Own
  <2>3. CASE name = "monitor_rb"
    <3>1. pc'[d] = <<"unlink", "monitor_rb_dash">>
      BY <1>0, <1>5, <2>3 DEF SizeAndMap, TypeOK
    <3> QED BY <2>1, <2>2, <2>3, <3>1 DEF Building, Complete, Own
  <2>4. CASE name = "monitor_rb_dash"
    <3>1. pc'[d] = <<"ready", NoRing>>
      BY <1>0, <1>5, <2>4 DEF SizeAndMap, TypeOK
    <3>2. Created(d, "monitor_rb") /\ Own(d, "monitor_rb") \in sized
      BY <2>1, <2>4 DEF Building, Complete, Names
    <3> QED BY <2>1, <2>2, <2>4, <3>1, <3>2 DEF Building, Own, Names
  <2> QED BY <2>3, <2>4 DEF Names
<1>6. CASE Serve(d)
  BY <1>0, <1>6 DEF Serve, Building, Complete, Created, Own, TypeOK
<1>7. ASSUME NEW name \in Names, Destroy(d, name) PROVE Building(d)'
  BY <1>0, <1>1, <1>7 DEF Destroy, Ends, Building, Complete, Up, Down, TypeOK
<1>8. CASE Terminate(d)
  BY <1>8 DEF Terminate, Building, Complete, Created, Own
<1>9. CASE ExitFailure(d) \/ FatalSignal(d) \/ Kill(d)
  BY <1>0, <1>1, <1>9 DEF ExitFailure, FatalSignal, Kill, Ends, Up, Down, TypeOK
<1> QED BY <1>2, <1>3, <1>4, <1>5, <1>6, <1>7, <1>8, <1>9 DEF Step, Interrupt

\* They size regions of its current run only.
LEMMA SizedStep ==
  ASSUME Typed, NEW d \in Daemons, Building(d), Sized(d), Step(d) \/ Interrupt(d)
  PROVE  Sized(d)' /\ \A r \in sized' : r \in sized \/ r[1] = d
<1> USE DEF Goto, At
<1>0. TypeOK
  BY DEF Typed
<1>1. ASSUME sized' = sized, starts'[d] = starts[d],
             \A name \in Names : Awaited(d, name)' => Awaited(d, name)
      PROVE  Sized(d)' /\ \A r \in sized' : r \in sized \/ r[1] = d
  BY <1>1 DEF Sized, Own
<1>2. CASE LoadEbpf(d) \/ Serve(d) \/ LeaveLoop(d) \/ Terminate(d)
  BY <1>0, <1>1, <1>2 DEF LoadEbpf, Serve, LeaveLoop, Terminate, Awaited, TypeOK
<1>3. ASSUME NEW name \in Names, Unlink(d, name) \/ ShmOpen(d, name) \/ Destroy(d, name)
      PROVE  Sized(d)' /\ \A r \in sized' : r \in sized \/ r[1] = d
  BY <1>0, <1>1, <1>3 DEF Unlink, ShmOpen, Destroy, Ends, Awaited, TypeOK
<1>4. ASSUME NEW name \in Names, SizeAndMap(d, name)
      PROVE  Sized(d)' /\ \A r \in sized' : r \in sized \/ r[1] = d
  <2>1. sized' = sized \cup {Own(d, name)} /\ starts' = starts
    BY <1>4 DEF SizeAndMap, Building, Created
  <2>2. starts[d] \in Nat /\ Own(d, name)[1] = d /\ Own(d, name)[2] = starts[d]
    BY <1>0 DEF Own, TypeOK
  <2>3. \A other \in Names : Awaited(d, other)' => Awaited(d, other) /\ other # name
    BY <1>0, <1>4 DEF SizeAndMap, Awaited, TypeOK, Names
  <2> QED BY <2>1, <2>2, <2>3 DEF Sized, Own
<1>5. CASE Start(d)
  <2>1. sized' = sized /\ starts'[d] = starts[d] + 1 /\ starts[d] \in Nat
    BY <1>0, <1>5 DEF Start, TypeOK
  <2>2. \A r \in sized : r[2] \in Nat
    BY <1>0, RegionParts DEF TypeOK
  <2> QED BY <2>1, <2>2 DEF Sized, Own
<1>6. CASE ExitFailure(d) \/ FatalSignal(d) \/ Kill(d)
  BY <1>0, <1>1, <1>6 DEF ExitFailure, FatalSignal, Kill, Ends, Awaited, TypeOK
<1> QED BY <1>2, <1>3, <1>4, <1>5, <1>6 DEF Step, Interrupt

\* Every step of daemons that run one at a time keeps Undisturbed.
LEMMA UndisturbedInductive ==
  Typed /\ Undisturbed /\ Alone /\ Alone' /\ [Next]_vars => Undisturbed'
<1> SUFFICES ASSUME Typed, Undisturbed, Alone, Alone', [Next]_vars PROVE Undisturbed'
  OBVIOUS
<1>1. ASSUME UNCHANGED daemonVars PROVE Undisturbed'
  BY <1>1 DEF daemonVars, Undisturbed, Building, Sized, Awaited, Complete, Created, Own, At
<1>2. ASSUME NEW d \in Daemons, Step(d) \/ Interrupt(d) PROVE Undisturbed'
  <2>1. Building(d)' /\ Sized(d)' /\ \A r \in sized' : r \in sized \/ r[1] = d
    BY <1>2, BuildingStep, SizedStep DEF Undisturbed
  <2>2. ASSUME NEW e \in Daemons \ {d} PROVE Building(e)' /\ Sized(e)'
    <3>1. ~Up(e)' /\ starts'[e] = starts[e] /\ Sized(e)
      BY <1>2, OthersDown, StepsApart DEF Others, Undisturbed
    <3>2. Building(e)' /\ \A name \in Names : ~Awaited(e, name)'
      BY <3>1 DEF Building, Awaited, Complete, At, Up, Down
    <3> QED BY <2>1, <3>1, <3>2 DEF Sized
  <2> QED BY <2>1, <2>2 DEF Undisturbed
<1> QED BY <1>1, <1>2 DEF Next, Consumer, vars

\* It holds at the start.
LEMMA UndisturbedInit == Init => Undisturbed
BY DEF Init, Undisturbed, Building, Sized, Awaited, Complete, At

\* As long as the daemons run one at a time, whatever ends any of them and
\* whatever it leaves behind, a daemon that samples is the one visible under
\* both names, through regions made in its current run.
THEOREM SamplingIsVisible == Spec /\ []Alone => []ServingVisible
<1>1. Undisturbed => ServingVisible
  BY DEF Undisturbed, Building, Complete, Created, ServingVisible
<1> QED
  BY <1>1, TypedInit, UndisturbedInit, TypedInductive, UndisturbedInductive, PTL DEF Spec

\* And no step of a daemon empties a sized region a consumer has attached to.
THEOREM DrainsUndisturbed == Spec /\ []Alone => DrainedNotReset
<1>1. ASSUME Undisturbed, NEW d \in Daemons, NEW name \in Names, SizeAndMap(d, name)
      PROVE  attached[name] # mapped[d][name] \/ attached[name] \notin sized
  <2>1. At(d, "size", name) /\ Building(d) /\ Sized(d)
    BY <1>1 DEF SizeAndMap, Undisturbed
  <2>2. Awaited(d, name) /\ mapped[d][name] = Own(d, name)
    BY <2>1 DEF Awaited, Building, Created
  <2> QED BY <2>1, <2>2 DEF Sized
<1>2. Undisturbed =>
        [\A d \in Daemons, name \in Names :
           SizeAndMap(d, name) => attached[name] # mapped[d][name] \/ attached[name] \notin sized]_vars
  BY <1>1
<1> QED
  BY <1>2, TypedInit, UndisturbedInit, TypedInductive, UndisturbedInductive, PTL
  DEF Spec, DrainedNotReset

\* A daemon is started only when no other is up, as calibrate.py means to do by
\* stopping the service first.
StartedAlone ==
  [][\A d \in Daemons : Start(d) => \A e \in Daemons \ {d} : ~Up(e)]_vars

\* Daemons run one at a time if each is started when no other is up.
LEMMA StoppingKeepsAlone == Spec /\ StartedAlone => []Alone
<1> DEFINE Lonely == \A d \in Daemons : Start(d) => \A e \in Daemons \ {d} : ~Up(e)
<1>1. Init => Typed /\ Alone
  BY TypedInit DEF Init, Alone, Up, Down
<1>2. Typed /\ Alone /\ [Next]_vars /\ [Lonely]_vars => Alone'
  <2> SUFFICES ASSUME Typed, Alone, [Next]_vars, [Lonely]_vars PROVE Alone'
    OBVIOUS
  <2>1. CASE UNCHANGED pc
    BY <2>1 DEF Alone, Up
  <2>2. ASSUME NEW d \in Daemons, Step(d) \/ Interrupt(d), pc' # pc PROVE Alone'
    <3>1. \A e \in Daemons \ {d} : pc'[e] = pc[e]
      BY <2>2, StepsApart DEF Others
    <3>2. CASE Start(d)
      <4>1. \A e \in Daemons \ {d} : ~Up(e)
        BY <2>2, <3>2 DEF vars, daemonVars
      <4> QED BY <3>1, <4>1 DEF Alone, Up
    <3>3. CASE ~Start(d)
      <4>1. Up(d)
        BY <2>2, <3>3 DEF Step, Interrupt, LoadEbpf, Unlink, ShmOpen, SizeAndMap, Serve,
           LeaveLoop, Destroy, ExitFailure, Terminate, FatalSignal, Kill, At, Up, Down
      <4> QED BY <3>1, <4>1 DEF Alone, Up
    <3> QED BY <3>2, <3>3
  <2> QED BY <2>1, <2>2 DEF Next, Consumer, vars, daemonVars
<1> HIDE DEF Lonely
<1>3. StartedAlone <=> [][Lonely]_vars
  BY DEF StartedAlone, Lonely
<1> QED BY <1>1, <1>2, <1>3, TypedInductive, PTL DEF Spec

\* What calibrate.py was to achieve: if whoever starts a daemon has stopped the
\* others first, then, whatever ends any daemon at any of its steps, the one that
\* samples is the one consumers find, and none of their rings is reset.
THEOREM StoppingWouldServe ==
  Spec /\ StartedAlone => []ServingVisible /\ DrainedNotReset
BY StoppingKeepsAlone, SamplingIsVisible, DrainsUndisturbed, PTL

\* The service by itself is alone, whatever kills and restarts it.
THEOREM OneDaemon ==
  ASSUME NEW service, Daemons = {service}
  PROVE  Spec => []ServingVisible /\ DrainedNotReset
<1>1. Alone
  BY DEF Alone
<1> QED BY <1>1, SamplingIsVisible, DrainsUndisturbed, PTL
=============================================================================
