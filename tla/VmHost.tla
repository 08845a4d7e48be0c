------------------------------- MODULE VmHost -------------------------------
(***************************************************************************)
(* The VM host (Host in crates/bund2-async/src/host.rs): a thread for each *)
(* VM, a bound on how many live at once, and a handle to the answer that   *)
(* may be joined, dropped, or awaited as a future.                         *)
(*                                                                         *)
(* One owner spawns.  Each VM's thread goes through its stages on its own. *)
(* An awaited handle is held by a task of the embedder's executor, which   *)
(* polls it when it is due: at first, when it is woken, when the future is *)
(* moved to another task, and at other times too if it likes.  The state a *)
(* thread and its handle share is under one mutex, held in no step but its *)
(* own; nothing that runs under it panics.                                 *)
(***************************************************************************)
EXTENDS Integers, FiniteSets

CONSTANTS
  Vms,      \* the VMs that are spawned, each once
  Tasks,    \* the executor's tasks
  limit     \* how many VMs may be live

ASSUME VmHostAssumption == IsFiniteSet(Vms) /\ limit \in Nat \ {0}

VARIABLES
  live,     \* the host's count
  owner,    \* {}, or the VM whose spawn has passed the limit's check
  claimed,  \* whether that spawn has been counted
  stage,    \* where the thread of each VM is
  built,    \* whether its Runtime exists
  ended,    \* how its work ended: "not", "value" or "panic"
  answer,   \* whether the answer is in the shared slot
  done,     \* the shared flag
  waker,    \* the shared waker: {}, or the task it wakes
  taken,    \* the waker the thread has taken and not called yet
  handle,   \* what its holder does: "none", "await", "join" or "gone"
  holder,   \* the task that awaits it
  due,      \* whether that task is to poll it
  told      \* what the holder was told: "not", "value" or "lost"

thread == <<stage, built, ended, answer, done, waker, taken>>
client == <<handle, holder, due, told>>
vars == <<live, owner, claimed, thread, client>>

(* The stages of a thread, in order; "unborn" is none yet.                 *)
Stages == {"unborn", "started", "working", "stored", "freed", "returned", "waking", "over"}

Init ==
  /\ live = 0 /\ owner = {} /\ claimed = FALSE
  /\ stage = [v \in Vms |-> "unborn"] /\ built = [v \in Vms |-> FALSE]
  /\ ended = [v \in Vms |-> "not"]
  /\ answer = [v \in Vms |-> FALSE] /\ done = [v \in Vms |-> FALSE]
  /\ waker = [v \in Vms |-> {}] /\ taken = [v \in Vms |-> {}]
  /\ handle = [v \in Vms |-> "none"] /\ holder \in [Vms -> Tasks]
  /\ due = [v \in Vms |-> FALSE] /\ told = [v \in Vms |-> "not"]

-----------------------------------------------------------------------------
(* spawn: the check, the count, and the thread's start, with threads of    *)
(* other VMs in between.                                                   *)

(* Mutated: the check lets one more in. *)
Admit_OffByOne(v) ==
  /\ owner = {} /\ stage[v] = "unborn" /\ handle[v] = "none"
  /\ live <= limit
  /\ owner' = {v}
  /\ UNCHANGED <<live, claimed, thread, client>>

Admit(v) ==
  /\ owner = {} /\ stage[v] = "unborn" /\ handle[v] = "none"
  /\ live < limit
  /\ owner' = {v}
  /\ UNCHANGED <<live, claimed, thread, client>>

Claim ==
  /\ owner # {} /\ ~claimed
  /\ live' = live + 1 /\ claimed' = TRUE
  /\ UNCHANGED <<owner, thread, client>>

(* The thread starts; the caller awaits the handle, joins it or drops it.  *)
Start(v) ==
  /\ claimed /\ owner = {v}
  /\ owner' = {} /\ claimed' = FALSE
  /\ stage' = [stage EXCEPT ![v] = "started"]
  /\ \E use \in {"await", "join", "gone"} :
       /\ handle' = [handle EXCEPT ![v] = use]
       /\ due' = [due EXCEPT ![v] = use = "await"]
  /\ UNCHANGED <<live, built, ended, answer, done, waker, taken, holder, told>>

(* The system gives no thread: the count is given back.                    *)
FailStart(v) ==
  /\ claimed /\ owner = {v}
  /\ owner' = {} /\ claimed' = FALSE
  /\ live' = live - 1
  /\ handle' = [handle EXCEPT ![v] = "gone"]
  /\ UNCHANGED <<thread, holder, due, told>>

-----------------------------------------------------------------------------
(* The thread.  Finish is armed first, so all of it from "freed" on        *)
(* happens however the work ends.                                          *)

Goes(v, from, to) == stage[v] = from /\ stage' = [stage EXCEPT ![v] = to]

Build(v) ==
  /\ Goes(v, "started", "working")
  /\ built' = [built EXCEPT ![v] = TRUE]
  /\ UNCHANGED <<live, owner, claimed, ended, answer, done, waker, taken, client>>

(* The work returns, and the answer is stored under the lock.              *)
Answered(v) ==
  /\ Goes(v, "working", "stored")
  /\ ended' = [ended EXCEPT ![v] = "value"] /\ answer' = [answer EXCEPT ![v] = TRUE]
  /\ UNCHANGED <<live, owner, claimed, built, done, waker, taken, client>>

(* The work panics, or building the Runtime does: the thread unwinds.      *)
Panic(v) ==
  /\ Goes(v, "working", "stored") \/ Goes(v, "started", "stored")
  /\ ended' = [ended EXCEPT ![v] = "panic"]
  /\ UNCHANGED <<live, owner, claimed, built, answer, done, waker, taken, client>>

(* Mutated: the Runtime is left to the end of the scope. *)
Free_Later(v) ==
  /\ Goes(v, "stored", "freed")
  /\ UNCHANGED <<live, owner, claimed, built, ended, answer, done, waker, taken, client>>

Free(v) ==
  /\ Goes(v, "stored", "freed")
  /\ built' = [built EXCEPT ![v] = FALSE]
  /\ UNCHANGED <<live, owner, claimed, ended, answer, done, waker, taken, client>>

GiveBack(v) ==
  /\ Goes(v, "freed", "returned")
  /\ live' = live - 1
  /\ UNCHANGED <<owner, claimed, built, ended, answer, done, waker, taken, client>>

(* Done, and the waker taken, under the lock; the waker is called after.   *)
Finish(v) ==
  /\ Goes(v, "returned", "waking")
  /\ done' = [done EXCEPT ![v] = TRUE]
  /\ taken' = [taken EXCEPT ![v] = waker[v]] /\ waker' = [waker EXCEPT ![v] = {}]
  /\ UNCHANGED <<live, owner, claimed, built, ended, answer, client>>

(* A woken task polls whatever it awaits.                                  *)
Wake(v) ==
  /\ Goes(v, "waking", "over")
  /\ due' = [u \in Vms |-> due[u] \/ (handle[u] = "await" /\ holder[u] \in taken[v])]
  /\ taken' = [taken EXCEPT ![v] = {}]
  /\ UNCHANGED <<live, owner, claimed, built, ended, answer, done, waker, handle, holder, told>>

-----------------------------------------------------------------------------
(* The holder.                                                             *)

(* The holder is told, and the handle is spent.                            *)
Tell(v, what) ==
  /\ told' = [told EXCEPT ![v] = what]
  /\ handle' = [handle EXCEPT ![v] = "gone"]
  /\ due' = [due EXCEPT ![v] = FALSE]

(* Mutated: a finished thread is asked about before its answer. *)
Poll_DoneFirst(v) ==
  /\ handle[v] = "await"
  /\ IF done[v] THEN Tell(v, "lost") /\ UNCHANGED <<answer, waker>>
     ELSE IF answer[v] THEN Tell(v, "value") /\ answer' = [answer EXCEPT ![v] = FALSE]
                       /\ UNCHANGED waker
     ELSE /\ waker' = [waker EXCEPT ![v] = {holder[v]}]
          /\ due' = [due EXCEPT ![v] = FALSE]
          /\ UNCHANGED <<answer, handle, told>>
  /\ UNCHANGED <<live, owner, claimed, stage, built, ended, done, taken, holder>>

(* Mutated: a waker that is there is kept. *)
Poll_KeepsFirst(v) ==
  /\ handle[v] = "await"
  /\ IF answer[v] THEN Tell(v, "value") /\ answer' = [answer EXCEPT ![v] = FALSE]
                       /\ UNCHANGED waker
     ELSE IF done[v] THEN Tell(v, "lost") /\ UNCHANGED <<answer, waker>>
     ELSE /\ waker' = [waker EXCEPT ![v] = IF waker[v] = {} THEN {holder[v]} ELSE waker[v]]
          /\ due' = [due EXCEPT ![v] = FALSE]
          /\ UNCHANGED <<answer, handle, told>>
  /\ UNCHANGED <<live, owner, claimed, stage, built, ended, done, taken, holder>>

(* The answer, or that it is lost, or the caller's waker for the one held. *)
Poll(v) ==
  /\ handle[v] = "await"
  /\ IF answer[v] THEN Tell(v, "value") /\ answer' = [answer EXCEPT ![v] = FALSE]
                       /\ UNCHANGED waker
     ELSE IF done[v] THEN Tell(v, "lost") /\ UNCHANGED <<answer, waker>>
     ELSE /\ waker' = [waker EXCEPT ![v] = {holder[v]}]
          /\ due' = [due EXCEPT ![v] = FALSE]
          /\ UNCHANGED <<answer, handle, told>>
  /\ UNCHANGED <<live, owner, claimed, stage, built, ended, done, taken, holder>>

(* join: the thread is over, and the answer is taken if there is one.      *)
Join(v) ==
  /\ handle[v] = "join" /\ stage[v] = "over"
  /\ Tell(v, IF answer[v] THEN "value" ELSE "lost")
  /\ answer' = [answer EXCEPT ![v] = FALSE]
  /\ UNCHANGED <<live, owner, claimed, stage, built, ended, done, waker, taken, holder>>

(* The embedder moves the future to another task, joins it after all, or   *)
(* drops it: the thread is detached.                                       *)
Move(v) ==
  /\ handle[v] = "await"
  /\ \E t \in Tasks \ {holder[v]} : holder' = [holder EXCEPT ![v] = t]
  /\ due' = [due EXCEPT ![v] = TRUE]
  /\ UNCHANGED <<live, owner, claimed, thread, handle, told>>

GiveUp(v) ==
  /\ handle[v] = "await"
  /\ \E use \in {"join", "gone"} : handle' = [handle EXCEPT ![v] = use]
  /\ due' = [due EXCEPT ![v] = FALSE]
  /\ UNCHANGED <<live, owner, claimed, thread, holder, told>>

Next ==
  \/ Claim
  \/ \E v \in Vms :
       \/ Admit(v) \/ Start(v) \/ FailStart(v)
       \/ Build(v) \/ Answered(v) \/ Panic(v) \/ Free(v) \/ GiveBack(v) \/ Finish(v) \/ Wake(v)
       \/ Poll(v) \/ Join(v) \/ Move(v) \/ GiveUp(v)

Spec == Init /\ [][Next]_vars

(* A thread whose work is over runs on to its end, a task polls what it is *)
(* due to poll, and a joiner takes the answer of a thread that is over.    *)
(* Nothing makes the work itself end.                                      *)
Ending(v) == Free(v) \/ GiveBack(v) \/ Finish(v) \/ Wake(v)

FairSpec ==
  /\ Spec
  /\ \A v \in Vms : WF_vars(Ending(v)) /\ WF_vars(due[v] /\ Poll(v)) /\ WF_vars(Join(v))

-----------------------------------------------------------------------------
(* Every variable is of its type, and at most one spawn is under way:      *)
(* Host::spawn has the host to itself (&mut self).                         *)
TypeOK ==
  /\ live \in Nat /\ claimed \in BOOLEAN
  /\ owner = {} \/ \E v \in Vms : owner = {v}
  /\ stage \in [Vms -> Stages]
  /\ built \in [Vms -> BOOLEAN] /\ answer \in [Vms -> BOOLEAN] /\ done \in [Vms -> BOOLEAN]
  /\ ended \in [Vms -> {"not", "value", "panic"}] /\ told \in [Vms -> {"not", "value", "lost"}]
  /\ waker \in [Vms -> SUBSET Tasks]
  /\ handle \in [Vms -> {"none", "await", "join", "gone"}]
  /\ holder \in [Vms -> Tasks]

(* A slot of the host is v's: from its count until it is given back.       *)
Holds(v) ==
  (claimed /\ v \in owner) \/ stage[v] \in {"started", "working", "stored", "freed"}

(* The count is of the slots that are held: none leaks on a refused spawn  *)
(* or a panic, and none is given back twice.                               *)
LiveExact == live = Cardinality({v \in Vms : Holds(v)})

(* with_limit: what exists at once is bounded, however many were spawned   *)
(* and however their ends interleave with a spawn.                         *)
Bounded == live <= limit /\ Cardinality({v \in Vms : built[v]}) <= limit

(* live(): "A VM that has finished has given its word table back, so the   *)
(* slot is free": whoever is told by finished(), by a wake or by join.     *)
FreeOnceFinished ==
  \A v \in Vms : (done[v] \/ stage[v] = "over") => ~built[v] /\ ~Holds(v)

(* Shared: "There is no ordering in which a waker is stored and never      *)
(* called": none is left behind in the slot of a thread that has finished. *)
NoWakerLeft == \A v \in Vms : done[v] => waker[v] = {}

(* The host keeps the promise: the holder is told once, and what the work  *)
(* did: no answer is lost, no panic is taken for one.                      *)
P == INSTANCE Promise
KeepsPromise == P!Spec

(* Whoever awaits or joins a VM whose work is over is told, though the     *)
(* future moves between tasks and the wake races each poll.                *)
AlwaysTold ==
  \A v \in Vms : (handle[v] \in {"await", "join"} /\ ended[v] # "not") ~> handle[v] = "gone"
=============================================================================
