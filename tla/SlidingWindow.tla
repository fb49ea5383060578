--------------------------- MODULE SlidingWindow ---------------------------
(***************************************************************************)
(* sliding_window.c: a ring of the last samples with a running sum, which  *)
(* is computed anew after every Capacity * Capacity pushes.  Samples are   *)
(* integers here: what rounding does to the running sum is left out, which *)
(* samples it is the sum of is not.                                        *)
(***************************************************************************)
EXTENDS Integers, Sequences, FiniteSets, Functions

CONSTANT Capacity   \* SWAG_CAPACITY

ASSUME CapacityAssumption == Capacity \in Nat \ {0}

sw_init == [buffer |-> [j \in 0 .. Capacity - 1 |-> 0],
            head |-> 0, count |-> 0, run_sum |-> 0, push_count |-> 0]

\* Fault: the oldest sample is overwritten before it is subtracted.
SwPushOverwrites(sw, sample) ==
  LET full   == sw.count = Capacity
      buffer == [sw.buffer EXCEPT ![sw.head] = sample]
      count  == IF full THEN sw.count ELSE sw.count + 1
  IN [buffer |-> buffer,
      head |-> (sw.head + 1) % Capacity,
      count |-> count,
      run_sum |-> sw.run_sum + sample - IF full THEN buffer[sw.head] ELSE 0,
      push_count |-> 0]

\* Fault: the head does not wrap.
SwPushUnwrapped(sw, sample) ==
  [buffer |-> [sw.buffer EXCEPT ![sw.head] = sample],
   head |-> sw.head + 1,
   count |-> IF sw.count = Capacity THEN sw.count ELSE sw.count + 1,
   run_sum |-> sw.run_sum + sample,
   push_count |-> 0]

sw_push(sw, sample) ==
  LET full   == sw.count = Capacity
      buffer == [sw.buffer EXCEPT ![sw.head] = sample]
      count  == IF full THEN sw.count ELSE sw.count + 1
      due    == sw.push_count + 1 >= Capacity * Capacity
  IN [buffer |-> buffer,
      head |-> (sw.head + 1) % Capacity,
      count |-> count,
      run_sum |-> IF due THEN SumFunctionOnSet(buffer, 0 .. count - 1)
                  ELSE sw.run_sum + sample - IF full THEN sw.buffer[sw.head] ELSE 0,
      push_count |-> IF due THEN 0 ELSE sw.push_count + 1]

\* What the window is for: the last Capacity samples, of which x is the newest.
Latest(samples, x) ==
  LET all == Append(samples, x)
  IN IF Len(all) > Capacity THEN Tail(all) ELSE all
=============================================================================
