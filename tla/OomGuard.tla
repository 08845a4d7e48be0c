------------------------------ MODULE OomGuard ------------------------------
(***************************************************************************)
(* The OOM guard's trip between the guard's thread and the VMs (Guard in   *)
(* crates/bund2-host/src/memwatch.rs, crates/bund2-api/src/memguard.rs):   *)
(* the thread stores three figures and raises one flag for the whole       *)
(* process; whichever VM starts a body next takes the flag down and fails  *)
(* with the figures.  The guard's keeper stops it as it drops it.          *)
(*                                                                         *)
(* When the thread trips is the policy's answer to the sample it takes     *)
(* (OomWatch), which goes on while the VMs act on the trip before.         *)
(*                                                                         *)
(* A trip is known by its number, and a figure by the trip that stored it, *)
(* 0 for none.  The figures are loaded and stored without order among      *)
(* themselves; every interleaving of those steps is explored, and the      *)
(* flag's release and acquire put a trip's own stores before the loads of  *)
(* whoever takes it.                                                       *)
(***************************************************************************)
EXTENDS OomWatch, Sequences

CONSTANTS
  Takers,      \* the VMs of the process, each on a thread of its own
  MaxTrips     \* bound: trips of a run

ASSUME OomGuardAssumption == MaxTrips \in Nat

Figures == {"resident", "available", "swap_free"}
Order == <<"resident", "available", "swap_free">>

VARIABLES
  tripped,   \* the flag
  figure,    \* the three figures, each the trip it is of
  trips,     \* trips raised
  guard,     \* the guard's thread: "sampling", "storing", "parked" or "over"
  stored,    \* the figures the trip under way has stored, in order
  stop,      \* the thread is to stop
  token,     \* the thread has been unparked
  keeper,     \* who holds the guard: "using", "stopped", "joining" or "gone"
  vm,        \* what each VM does: "running", "taking", "reading"
  mine,       \* the trip whose flag it took
  read,      \* the figures it has read, in order
  stops      \* how many bodies trips have failed

watcher == <<trips, guard, stored, watchVars>>
vms == <<vm, mine, read, stops>>
guardVars == <<tripped, figure, watcher, stop, token, keeper, vms>>

GuardInit ==
  /\ WatchInit
  /\ tripped = FALSE /\ figure = [f \in Figures |-> 0]
  /\ trips = 0 /\ guard = "sampling" /\ stored = <<>>
  /\ stop = FALSE /\ token = FALSE /\ keeper = "using"
  /\ vm = [v \in Takers |-> "running"] /\ mine = [v \in Takers |-> 0] /\ read = [v \in Takers |-> <<>>]
  /\ stops = 0

-----------------------------------------------------------------------------
(* The guard's thread.                                                     *)

(* The loop's head: the thread ends, or its sample trips, or does not.     *)
Over == stop /\ guard' = "over" /\ UNCHANGED <<trips, watchVars>>

Sampled(s) ==
  /\ ~stop /\ Step(s)
  /\ \/ trip' = {} /\ guard' = "parked" /\ UNCHANGED trips
     \/ trip' # {} /\ trips < MaxTrips /\ guard' = "storing" /\ trips' = trips + 1

Sample ==
  /\ guard = "sampling"
  /\ Over \/ \E s \in Samples : Sampled(s)
  /\ UNCHANGED <<tripped, figure, stored, stop, token, keeper, vms>>

StoreFigure ==
  /\ guard = "storing" /\ Len(stored) < Len(Order)
  /\ LET f == Order[Len(stored) + 1] IN
       figure' = [figure EXCEPT ![f] = trips] /\ stored' = Append(stored, f)
  /\ UNCHANGED <<tripped, trips, guard, watchVars, stop, token, keeper, vms>>

(* Mutated: the flag goes up before the figures are stored. *)
Raise_First ==
  /\ guard = "storing"
  /\ (stored = <<>> /\ ~tripped) \/ Len(stored) = Len(Order)
  /\ tripped' = TRUE
  /\ IF Len(stored) = Len(Order) THEN guard' = "parked" /\ stored' = <<>>
     ELSE UNCHANGED <<guard, stored>>
  /\ UNCHANGED <<figure, trips, watchVars, stop, token, keeper, vms>>

Raise ==
  /\ guard = "storing" /\ Len(stored) = Len(Order)
  /\ tripped' = TRUE
  /\ guard' = "parked" /\ stored' = <<>>
  /\ UNCHANGED <<figure, trips, watchVars, stop, token, keeper, vms>>

(* Parking ends when the thread is unparked.                               *)
Unparked ==
  /\ guard = "parked" /\ token
  /\ guard' = "sampling" /\ token' = FALSE
  /\ UNCHANGED <<tripped, figure, trips, stored, watchVars, stop, keeper, vms>>

(* It also ends when the interval is out, or for no reason.                *)
Timeout ==
  /\ guard = "parked"
  /\ guard' = "sampling"
  /\ UNCHANGED <<tripped, figure, trips, stored, watchVars, stop, token, keeper, vms>>

-----------------------------------------------------------------------------
(* The keeper drops the guard: it says stop, unparks the thread and joins. *)

SayStop ==
  /\ keeper = "using" /\ stop' = TRUE /\ keeper' = "stopped"
  /\ UNCHANGED <<tripped, figure, watcher, token, vms>>

(* Mutated: the thread is left to its interval. *)
Unpark_Forgotten ==
  /\ keeper = "stopped" /\ keeper' = "joining"
  /\ UNCHANGED <<tripped, figure, watcher, stop, token, vms>>

Unpark ==
  /\ keeper = "stopped" /\ token' = TRUE /\ keeper' = "joining"
  /\ UNCHANGED <<tripped, figure, watcher, stop, vms>>

Joined ==
  /\ keeper = "joining" /\ guard = "over" /\ keeper' = "gone"
  /\ UNCHANGED <<tripped, figure, watcher, stop, token, vms>>

-----------------------------------------------------------------------------
(* A VM starts a body.                                                     *)

(* The flag is up: take it down if it still is.                            *)
Look(v) ==
  /\ vm[v] = "running" /\ tripped
  /\ vm' = [vm EXCEPT ![v] = "taking"]
  /\ UNCHANGED <<tripped, figure, watcher, stop, token, keeper, mine, read, stops>>

(* The last trip whose flag has been raised.                               *)
Raised == IF guard = "storing" THEN trips - 1 ELSE trips

Stops(v) ==
  /\ vm' = [vm EXCEPT ![v] = "reading"] /\ mine' = [mine EXCEPT ![v] = Raised]
  /\ stops' = stops + 1

(* Mutated: what Look saw is not looked at again. *)
Take_Blind(v) ==
  /\ vm[v] = "taking" /\ stops < MaxTrips + 1
  /\ tripped' = FALSE /\ Stops(v)
  /\ UNCHANGED <<figure, watcher, stop, token, keeper, read>>

Take(v) ==
  /\ vm[v] = "taking"
  /\ tripped' = FALSE
  /\ IF tripped THEN Stops(v)
     ELSE vm' = [vm EXCEPT ![v] = "running"] /\ UNCHANGED <<mine, stops>>
  /\ UNCHANGED <<figure, watcher, stop, token, keeper, read>>

ReadFigure(v) ==
  /\ vm[v] = "reading" /\ Len(read[v]) < Len(Order)
  /\ read' = [read EXCEPT ![v] = Append(@, figure[Order[Len(@) + 1]])]
  /\ UNCHANGED <<tripped, figure, watcher, stop, token, keeper, vm, mine, stops>>

(* The body fails with what was read; the program may catch that and go on.*)
Fail(v) ==
  /\ vm[v] = "reading" /\ Len(read[v]) = Len(Order)
  /\ vm' = [vm EXCEPT ![v] = "running"]
  /\ mine' = [mine EXCEPT ![v] = 0] /\ read' = [read EXCEPT ![v] = <<>>]
  /\ UNCHANGED <<tripped, figure, watcher, stop, token, keeper, stops>>

GuardNext ==
  \/ Sample \/ StoreFigure \/ Raise \/ Unparked \/ Timeout
  \/ SayStop \/ Unpark \/ Joined
  \/ \E v \in Takers : Look(v) \/ Take(v) \/ ReadFigure(v) \/ Fail(v)

GuardSpec == GuardInit /\ [][GuardNext]_guardVars

(* The thread is scheduled and the keeper goes on with the drop, whatever  *)
(* the VMs do.  The interval is not counted on.                            *)
FairGuard ==
  /\ GuardSpec
  /\ WF_guardVars(Sample) /\ WF_guardVars(StoreFigure \/ Raise) /\ WF_guardVars(Unparked)
  /\ WF_guardVars(Unpark) /\ WF_guardVars(Joined)

-----------------------------------------------------------------------------
(* Every variable is of its type, and what is stored or read is of the     *)
(* trip or the stop under way.                                             *)
GuardOK ==
  /\ {tripped, stop, token} \subseteq BOOLEAN
  /\ trips \in 0 .. MaxTrips /\ stops \in Nat
  /\ figure \in [Figures -> 0 .. trips]
  /\ guard \in {"sampling", "storing", "parked", "over"}
  /\ guard # "storing" => stored = <<>>
  /\ keeper \in {"using", "stopped", "joining", "gone"}
  /\ vm \in [Takers -> {"running", "taking", "reading"}] /\ mine \in [Takers -> 0 .. trips]
  /\ read \in [Takers -> Seq(Nat)]
  /\ \A v \in Takers : vm[v] # "reading" => read[v] = <<>> /\ mine[v] = 0

(* memguard.rs: "a trip is consumed by the call it stops": however many    *)
(* VMs see the flag, no more bodies fail than there were trips.            *)
OneStopPerTrip == stops <= Raised

(* A body that fails reports no figure older than the trip it fails for.   *)
FreshFigures ==
  \A v \in Takers : \A i \in DOMAIN read[v] : mine[v] > 0 /\ read[v][i] >= mine[v]

(* Guard: "Dropping it stops the thread at once", without an interval      *)
(* having to end.                                                          *)
DropEnds == keeper = "stopped" ~> keeper = "gone"
=============================================================================
