------------------------------ MODULE OomWatch ------------------------------
(***************************************************************************)
(* When the OOM guard trips: Watch and Policy in                           *)
(* crates/bund2-host/src/memwatch.rs, fed one sample of the host's memory  *)
(* after another while this program and others take and give back memory.  *)
(*                                                                         *)
(* Memory is counted in units.  A figure the host does not give is {}, one *)
(* it gives the singleton of a number.  No figure exceeds Total, so the    *)
(* u64 arithmetic does not wrap; its subtractions stop at zero.            *)
(***************************************************************************)
EXTENDS Integers

CONSTANTS
  Total,        \* the memory there is
  floor,        \* the policy's floor, 0 to disable the guard
  sustained,    \* the policy's run of critical samples
  Samples,      \* the samples the host may give
  FREE_DROP,    \* the fall that makes the process the cause
  LOOKAHEAD     \* how many falls ahead the guard looks, 2

Readings == {{}} \cup {{n} : n \in 0 .. Total}

(* A warning is to the guard what a normal level is.                       *)
SampleType ==
  [pressure : {"normal", "critical", "unknown"}, total : Readings, available : Readings,
   swap_free : Readings, resident : Readings]

ASSUME OomWatchAssumption ==
  /\ Samples \subseteq SampleType
  /\ Total \in Nat \ {0} /\ floor \in Nat /\ FREE_DROP \in Nat /\ LOOKAHEAD \in Nat
  /\ sustained \in Nat /\ sustained >= 2

VARIABLES
  kernel_level,  \* whether the kernel's level is the signal, fixed
  mem,           \* the host: [pressure, total, available, swap_free, resident]
  watch,         \* the Watch: [baseline, last, breaches]
  trip,          \* what the last step answered: {} or {[acute]}
  fell,          \* history: the fall it saw
  run            \* history: critical samples of a culprit in a row without a trip

watchVars == <<kernel_level, mem, watch, trip, fell, run>>

Figure(f) == CHOOSE n \in f : TRUE
OrZero(f) == IF f = {} THEN 0 ELSE Figure(f)
Less(a, b) == IF a > b THEN a - b ELSE 0
Least(a, b) == IF a < b THEN a ELSE b

-----------------------------------------------------------------------------
(* The decision.                                                           *)

New(s) == [baseline |-> s.available, last |-> s.available, breaches |-> 0]

FloorFor(s) ==
  IF s.total # {} /\ Figure(s.total) > 0 THEN Least(floor, Figure(s.total) \div 10) ELSE floor

(* A quarter of the memory, or a large fall since the guard was armed.     *)
Culprit(w, s) ==
  \/ s.resident # {} /\ s.total # {} /\ Figure(s.total) > 0 /\ 4 * Figure(s.resident) >= Figure(s.total)
  \/ w.baseline # {} /\ s.available # {} /\ Less(Figure(w.baseline), Figure(s.available)) >= FREE_DROP

Fall(w, s) == IF w.last # {} /\ s.available # {} THEN Less(Figure(w.last), Figure(s.available)) ELSE 0

(* Mutated: one fall is looked ahead. *)
Projected_One(w, s) == {Less(a, Fall(w, s)) : a \in s.available}

(* Where available memory will be LOOKAHEAD samples on, if it goes on so.  *)
Projected(w, s) == {Less(a, LOOKAHEAD * Fall(w, s)) : a \in s.available}

Critical(w, s) ==
  \/ s.pressure = "critical"
  \/ s.pressure = "unknown" /\ ~kernel_level /\ \E a \in Projected(w, s) : a < FloorFor(s)

Acute(w, s) == OrZero(Projected(w, s)) < FloorFor(s) /\ OrZero(s.swap_free) < FloorFor(s)

(* Mutated: the run has to be longer than the policy's. *)
Counted_OffByOne(w, s) ==
  IF ~Critical(w, s) \/ ~Culprit(w, s) THEN [breaches |-> 0, trip |-> {}]
  ELSE IF Acute(w, s) \/ w.breaches >= sustained
  THEN [breaches |-> 0, trip |-> {[acute |-> Acute(w, s)]}]
  ELSE [breaches |-> w.breaches + 1, trip |-> {}]

(* A sample's part in the count: it ends the run, trips, or adds to it.    *)
Counted(w, s) ==
  IF ~Critical(w, s) \/ ~Culprit(w, s) THEN [breaches |-> 0, trip |-> {}]
  ELSE IF Acute(w, s) \/ w.breaches + 1 >= sustained
  THEN [breaches |-> 0, trip |-> {[acute |-> Acute(w, s)]}]
  ELSE [breaches |-> w.breaches + 1, trip |-> {}]

Answer(w, s) == IF floor = 0 THEN [breaches |-> w.breaches, trip |-> {}] ELSE Counted(w, s)

-----------------------------------------------------------------------------
(* The guard arms on one sample and steps on the ones after it.  Where the *)
(* level is not the signal there is none.                                  *)
Given(s) == kernel_level \/ s.pressure = "unknown"

WatchInit ==
  /\ kernel_level \in BOOLEAN
  /\ mem \in Samples /\ Given(mem)
  /\ watch = New(mem) /\ trip = {} /\ fell = 0 /\ run = 0

Step(s) ==
  /\ Given(s) /\ mem' = s
  /\ watch' = [baseline |-> watch.baseline,
                last |-> IF floor = 0 THEN watch.last ELSE s.available,
                breaches |-> Answer(watch, s).breaches]
  /\ trip' = Answer(watch, s).trip
  /\ fell' = Fall(watch, s)
  /\ run' = IF trip' = {} /\ Critical(watch, s) /\ Culprit(watch, s) THEN run + 1 ELSE 0
  /\ UNCHANGED kernel_level

WatchNext == \E s \in Samples : Step(s)

WatchSpec == WatchInit /\ [][WatchNext]_watchVars

-----------------------------------------------------------------------------
(* Sustained pressure of a culprit's making is not waited out: no run of   *)
(* critical samples reaches the policy's without a trip.                   *)
CaughtInWindow == floor > 0 => run < sustained

(* Where available memory is the signal and there is no swap, a program    *)
(* that is the cause and falls no faster than LOOKAHEAD times its last     *)
(* fall is tripped before what is left is below the floor: "the guard trips*)
(* while the program can still be stopped, not after the sample that would *)
(* have shown it too late".                                                *)
Watched(s) ==
  /\ floor > 0 /\ ~kernel_level /\ s.pressure = "unknown"
  /\ s.total # {} /\ Figure(s.total) > 0 /\ s.available # {} /\ s.swap_free = {0}
  /\ s.resident # {} /\ 4 * Figure(s.resident) >= Figure(s.total)

InTime ==
  [][LET a == Figure(mem.available)
         b == Figure(mem'.available)
     IN (/\ Watched(mem) /\ Watched(mem') /\ mem'.total = mem.total
         /\ b < FloorFor(mem) /\ FloorFor(mem) <= a
         /\ a - b <= LOOKAHEAD * fell)
        => trip # {}]_watchVars
=============================================================================
