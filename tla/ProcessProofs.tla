---------------------------- MODULE ProcessProofs ---------------------------
(***************************************************************************)
(* Proofs about what a process shares: VmHost, for any number of VMs and   *)
(* tasks and any limit; OomWatch and OomGuard, for any memory, policy and  *)
(* samples, any number of VMs and any number of trips.                     *)
(*                                                                         *)
(* Of the host: the count is exact (LiveExact), the VMs that exist are     *)
(* bounded (Bounded), a finished VM has given its slot back                *)
(* (FreeOnceFinished), no waker is left behind (NoWakerLeft), and the host *)
(* implements Promise (KeepsPromise).                                      *)
(*                                                                         *)
(* The bound rests on the one owner: between the check and the count no    *)
(* other spawn is under way, and threads only lower the count, so it is    *)
(* still below the limit when it is raised.  The promise rests on an       *)
(* answer being in the slot from the end of the work until the holder is   *)
(* told, and on done being raised only after it was stored.                *)
(*                                                                         *)
(* Of the decision: the run never outgrows the policy's (CaughtInWindow),  *)
(* a sustained trip follows a whole one, and the guard trips in time       *)
(* (InTime).  The first two rest on the count being the run.  The third    *)
(* rests on this: when a watched sample did not trip, what it projected    *)
(* was not below the floor, so LOOKAHEAD times its fall was still to       *)
(* spare.                                                                  *)
(*                                                                         *)
(* Of the handshake: every trip fails at most one body (OneStopPerTrip),   *)
(* and with figures that are not older than it (FreshFigures).  The first  *)
(* rests on counting a flag that is up as a body still to be failed.  The  *)
(* second on the figures never being older than the last trip whose flag   *)
(* was raised, though those of the trip being stored are already among     *)
(* them, and on a VM's trip being one that was raised.  The thread's       *)
(* samples are a behaviour of OomWatch, whose results hold.                *)
(***************************************************************************)
EXTENDS VmHost, OomGuard, FiniteSetTheorems, TLAPS

-----------------------------------------------------------------------------
(* The host.                                                               *)

Held == {v \in Vms : Holds(v)}

(* A spawn under way is of a VM that has no thread, below the limit.       *)
Spawning ==
  /\ live <= limit
  /\ owner # {} /\ ~claimed => live < limit
  /\ claimed => owner # {}
  /\ \A v \in owner : stage[v] = "unborn" /\ handle[v] = "none"

(* What the stage of a thread says of the rest of its state.               *)
Staged(v) ==
  /\ stage[v] \in {"unborn", "started", "working"} <=> ended[v] = "not"
  /\ built[v] => stage[v] \in {"working", "stored"}
  /\ done[v] <=> stage[v] \in {"waking", "over"}
  /\ done[v] => waker[v] = {}

(* Until the holder is told, the answer of work that returned is there.    *)
Kept(v) ==
  /\ answer[v] => ended[v] = "value"
  /\ handle[v] \in {"await", "join"} => told[v] = "not" /\ (ended[v] = "value" => answer[v])
  /\ handle[v] = "none" => told[v] = "not"
  /\ handle[v] = "none" => stage[v] = "unborn"

IInv == TypeOK /\ LiveExact /\ Spawning /\ \A v \in Vms : Staged(v) /\ Kept(v)

-----------------------------------------------------------------------------

LEMMA HeldFinite == IsFiniteSet(Held)
<1>1. IsFiniteSet(Vms) /\ Held \subseteq Vms
  BY VmHostAssumption DEF Held
<1>2. QED
  BY <1>1, FS_Subset

(* A step that gives v a slot, takes one from it, or does neither.         *)
LEMMA OneMoreHeld ==
  ASSUME NEW v, v \notin Held, Held' = Held \cup {v}, LiveExact, live' = live + 1
  PROVE  LiveExact'
<1>1. Cardinality(Held') = Cardinality(Held) + 1
  BY HeldFinite, FS_AddElement
<1>2. QED
  BY <1>1 DEF LiveExact, Held

LEMMA OneLessHeld ==
  ASSUME NEW v, v \in Held, Held' = Held \ {v}, LiveExact, live' = live - 1
  PROVE  LiveExact' /\ live >= 1
<1>1. Cardinality(Held') = Cardinality(Held) - 1 /\ Cardinality(Held) \in Nat /\ Cardinality(Held') \in Nat
  <2>1. IsFiniteSet(Held')
    BY HeldFinite, FS_Subset
  <2>2. QED
    BY <2>1, HeldFinite, FS_RemoveElement, FS_CardinalityType
<1>2. QED
  BY <1>1 DEF LiveExact, Held

LEMMA SameHeld ==
  ASSUME Held' = Held, LiveExact, live' = live
  PROVE  LiveExact'
  BY DEF LiveExact, Held

(* A step of v's thread between two stages that both hold, or both do not. *)
LEMMA StageMoves ==
  ASSUME NEW v \in Vms, NEW from, NEW to \in Stages, TypeOK, Goes(v, from, to),
         UNCHANGED <<owner, claimed>>
  PROVE  /\ stage[v] = from /\ stage'[v] = to /\ stage' \in [Vms -> Stages]
         /\ \A u \in Vms : u # v => stage'[u] = stage[u]
         /\ \A u \in Vms : u # v => (Holds(u)' <=> Holds(u))
  BY DEF TypeOK, Goes, Holds
(* HostInductive: IInv holds throughout.                                   *)
THEOREM HostInductive == Spec => []IInv
<1>1. Init => IInv
  <2> SUFFICES ASSUME Init PROVE IInv
    OBVIOUS
  <2>1. TypeOK /\ Spawning /\ \A v \in Vms : Staged(v) /\ Kept(v)
    <3>1. TypeOK
      BY DEF Init, TypeOK, Stages
    <3>2. Spawning
      BY VmHostAssumption DEF Init, Spawning
    <3>3. ASSUME NEW v \in Vms PROVE Staged(v) /\ Kept(v)
      BY DEF Init, Staged, Kept
    <3>4. QED
      BY <3>1, <3>2, <3>3
  <2>2. {v \in Vms : Holds(v)} = {}
    BY DEF Init, Holds
  <2>3. LiveExact
    BY <2>2, FS_EmptySet DEF LiveExact, Init
  <2>4. QED
    BY <2>1, <2>3 DEF IInv
<1>2. IInv /\ [Next]_vars => IInv'
  <2> SUFFICES ASSUME IInv, [Next]_vars PROVE IInv'
    OBVIOUS
  <2>0. TypeOK /\ LiveExact /\ Spawning /\ (\A v \in Vms : Staged(v) /\ Kept(v)) /\ limit \in Nat
    BY VmHostAssumption DEF IInv
  <2>1. ASSUME NEW v \in Vms, Admit(v) PROVE IInv'
    <3>1. /\ owner = {} /\ stage[v] = "unborn" /\ handle[v] = "none" /\ live < limit
          /\ owner' = {v}
          /\ UNCHANGED <<live, claimed, stage, built, ended, answer, done, waker, taken, handle, holder, due, told>>
      BY <2>1 DEF Admit, thread, client
    <3>2. ~claimed
      BY <2>0, <3>1 DEF Spawning
    <3>3. Held' = Held
      BY <3>1, <3>2 DEF Held, Holds
    <3>4. LiveExact'
      BY <2>0, <3>1, <3>3, SameHeld
    <3>5. TypeOK' /\ Spawning' /\ \A u \in Vms : Staged(u)' /\ Kept(u)'
      BY <2>0, <3>1, <3>2 DEF TypeOK, Spawning, Staged, Kept
    <3>6. QED
      BY <3>4, <3>5 DEF IInv
  <2>2. ASSUME Claim PROVE IInv'
    <3>1. /\ owner # {} /\ ~claimed /\ live' = live + 1 /\ claimed' = TRUE
          /\ UNCHANGED <<owner, stage, built, ended, answer, done, waker, taken, handle, holder, due, told>>
      BY <2>2 DEF Claim, thread, client
    <3>2. PICK v \in Vms : owner = {v}
      BY <2>0, <3>1 DEF TypeOK
    <3>3. stage[v] = "unborn"
      BY <2>0, <3>2 DEF Spawning
    <3>4. v \notin Held /\ Held' = Held \cup {v}
      BY <3>1, <3>2, <3>3 DEF Held, Holds
    <3>5. LiveExact'
      BY <2>0, <3>1, <3>4, OneMoreHeld
    <3>6. TypeOK' /\ Spawning' /\ \A u \in Vms : Staged(u)' /\ Kept(u)'
      BY <2>0, <3>1 DEF TypeOK, Spawning, Staged, Kept
    <3>7. QED
      BY <3>5, <3>6 DEF IInv
  <2>3. ASSUME NEW v \in Vms, Start(v) PROVE IInv'
    <3>1. PICK use \in {"await", "join", "gone"} :
            /\ handle' = [handle EXCEPT ![v] = use]
            /\ due' = [due EXCEPT ![v] = use = "await"]
      BY <2>3 DEF Start
    <3>2. /\ claimed /\ owner = {v} /\ owner' = {} /\ claimed' = FALSE
          /\ stage' = [stage EXCEPT ![v] = "started"]
          /\ UNCHANGED <<live, built, ended, answer, done, waker, taken, holder, told>>
      BY <2>3 DEF Start
    <3>3. stage[v] = "unborn" /\ handle[v] = "none"
      BY <2>0, <3>2 DEF Spawning
    <3>4. /\ stage'[v] = "started" /\ stage' \in [Vms -> Stages]
          /\ \A u \in Vms : u # v => stage'[u] = stage[u]
      BY <2>0, <3>2 DEF TypeOK, Stages
    <3>5. Held' = Held
      BY <3>2, <3>4 DEF Held, Holds
    <3>6. LiveExact'
      BY <2>0, <3>2, <3>5, SameHeld
    <3>7. TypeOK' /\ Spawning'
      BY <2>0, <3>1, <3>2, <3>4 DEF TypeOK, Spawning
    <3>8. \A u \in Vms : Staged(u)' /\ Kept(u)'
      <4>1. /\ handle'[v] = use
            /\ \A u \in Vms : u # v => handle'[u] = handle[u]
        BY <2>0, <3>1 DEF TypeOK
      <4>2. ASSUME NEW u \in Vms PROVE Staged(u)' /\ Kept(u)'
        <5>1. CASE u = v
          BY <2>0, <3>2, <3>3, <3>4, <4>1, <5>1 DEF TypeOK, Staged, Kept
        <5>2. CASE u # v
          BY <2>0, <3>2, <3>4, <4>1, <5>2 DEF TypeOK, Staged, Kept
        <5>3. QED
          BY <5>1, <5>2
      <4>3. QED
        BY <4>2
    <3>9. QED
      BY <3>6, <3>7, <3>8 DEF IInv
  <2>4. ASSUME NEW v \in Vms, FailStart(v) PROVE IInv'
    <3>1. /\ claimed /\ owner = {v} /\ owner' = {} /\ claimed' = FALSE /\ live' = live - 1
          /\ handle' = [handle EXCEPT ![v] = "gone"]
          /\ UNCHANGED <<stage, built, ended, answer, done, waker, taken, holder, due, told>>
      BY <2>4 DEF FailStart, thread
    <3>2. stage[v] = "unborn"
      BY <2>0, <3>1 DEF Spawning
    <3>3. v \in Held /\ Held' = Held \ {v}
      BY <3>1, <3>2 DEF Held, Holds
    <3>4. LiveExact' /\ live >= 1
      BY <2>0, <3>1, <3>3, OneLessHeld
    <3>5. TypeOK' /\ Spawning'
      <4>1. live' \in Nat /\ live' <= limit
        BY <2>0, <3>1, <3>4 DEF TypeOK, Spawning
      <4>2. handle' \in [Vms -> {"none", "await", "join", "gone"}]
        BY <2>0, <3>1 DEF TypeOK
      <4>3. TypeOK'
        BY <2>0, <3>1, <4>1, <4>2 DEF TypeOK
      <4>4. QED
        BY <3>1, <4>1, <4>3 DEF Spawning
    <3>6. \A u \in Vms : Staged(u)' /\ Kept(u)'
      BY <2>0, <3>1, <3>2 DEF TypeOK, Staged, Kept
    <3>7. QED
      BY <3>4, <3>5, <3>6 DEF IInv
  <2>5. ASSUME NEW v \in Vms, Build(v) PROVE IInv'
    <3>1. /\ Goes(v, "started", "working")
          /\ built' = [built EXCEPT ![v] = TRUE]
          /\ UNCHANGED <<live, owner, claimed, ended, answer, done, waker, taken, handle, holder, due, told>>
      BY <2>5 DEF Build, client
    <3>2. /\ stage[v] = "started"
          /\ stage'[v] = "working" /\ stage' \in [Vms -> Stages]
          /\ \A u \in Vms : u # v => stage'[u] = stage[u]
          /\ \A u \in Vms : u # v => (Holds(u)' <=> Holds(u))
      <4>1. UNCHANGED <<owner, claimed>> /\ "working" \in Stages
        BY <3>1 DEF Stages
      <4>2. QED
        BY <2>0, <3>1, <4>1, StageMoves
    <3>3. v \notin owner \/ stage[v] = "unborn"
      BY <2>0 DEF Spawning
    <3>4. Held' = Held
      BY <3>2, <3>3 DEF Held, Holds
    <3>5. LiveExact'
      BY <2>0, <3>1, <3>4, SameHeld
    <3>6. TypeOK' /\ Spawning'
      BY <2>0, <3>1, <3>2, <3>3, <3>5 DEF TypeOK, Spawning
    <3>7. \A u \in Vms : Staged(u)' /\ Kept(u)'
      <4>1. ASSUME NEW u \in Vms, u = v PROVE Staged(u)' /\ Kept(u)'
        BY <2>0, <3>1, <3>2, <4>1 DEF TypeOK, Staged, Kept
      <4>2. ASSUME NEW u \in Vms, u # v PROVE Staged(u)' /\ Kept(u)'
        BY <2>0, <3>1, <3>2, <4>2 DEF TypeOK, Staged, Kept
      <4>3. QED
        BY <4>1, <4>2
    <3>8. QED
      BY <3>5, <3>6, <3>7 DEF IInv
  <2>6. ASSUME NEW v \in Vms, Answered(v) PROVE IInv'
    <3>1. /\ Goes(v, "working", "stored")
          /\ ended' = [ended EXCEPT ![v] = "value"]
          /\ answer' = [answer EXCEPT ![v] = TRUE]
          /\ UNCHANGED <<live, owner, claimed, built, done, waker, taken, handle, holder, due, told>>
      BY <2>6 DEF Answered, client
    <3>2. /\ stage[v] = "working"
          /\ stage'[v] = "stored" /\ stage' \in [Vms -> Stages]
          /\ \A u \in Vms : u # v => stage'[u] = stage[u]
          /\ \A u \in Vms : u # v => (Holds(u)' <=> Holds(u))
      <4>1. UNCHANGED <<owner, claimed>> /\ "stored" \in Stages
        BY <3>1 DEF Stages
      <4>2. QED
        BY <2>0, <3>1, <4>1, StageMoves
    <3>3. v \notin owner \/ stage[v] = "unborn"
      BY <2>0 DEF Spawning
    <3>4. Held' = Held
      BY <3>2, <3>3 DEF Held, Holds
    <3>5. LiveExact'
      BY <2>0, <3>1, <3>4, SameHeld
    <3>6. TypeOK' /\ Spawning'
      BY <2>0, <3>1, <3>2, <3>3, <3>5 DEF TypeOK, Spawning
    <3>7. \A u \in Vms : Staged(u)' /\ Kept(u)'
      <4>1. ASSUME NEW u \in Vms, u = v PROVE Staged(u)' /\ Kept(u)'
        BY <2>0, <3>1, <3>2, <4>1 DEF TypeOK, Staged, Kept
      <4>2. ASSUME NEW u \in Vms, u # v PROVE Staged(u)' /\ Kept(u)'
        BY <2>0, <3>1, <3>2, <4>2 DEF TypeOK, Staged, Kept
      <4>3. QED
        BY <4>1, <4>2
    <3>8. QED
      BY <3>5, <3>6, <3>7 DEF IInv
  <2>7. ASSUME NEW v \in Vms, Panic(v) PROVE IInv'
    <3>1. /\ (Goes(v, "working", "stored") \/ Goes(v, "started", "stored"))
          /\ ended' = [ended EXCEPT ![v] = "panic"]
          /\ UNCHANGED <<live, owner, claimed, built, answer, done, waker, taken, handle, holder, due, told>>
      BY <2>7 DEF Panic, client
    <3>2. /\ stage[v] \in {"working", "started"}
          /\ stage'[v] = "stored" /\ stage' \in [Vms -> Stages]
          /\ \A u \in Vms : u # v => stage'[u] = stage[u]
          /\ \A u \in Vms : u # v => (Holds(u)' <=> Holds(u))
      <4>1. UNCHANGED <<owner, claimed>> /\ "stored" \in Stages
        BY <3>1 DEF Stages
      <4>2. QED
        BY <2>0, <3>1, <4>1, StageMoves
    <3>3. v \notin owner \/ stage[v] = "unborn"
      BY <2>0 DEF Spawning
    <3>4. Held' = Held
      BY <3>2, <3>3 DEF Held, Holds
    <3>5. LiveExact'
      BY <2>0, <3>1, <3>4, SameHeld
    <3>6. TypeOK' /\ Spawning'
      BY <2>0, <3>1, <3>2, <3>3, <3>5 DEF TypeOK, Spawning
    <3>7. \A u \in Vms : Staged(u)' /\ Kept(u)'
      <4>1. ASSUME NEW u \in Vms, u = v PROVE Staged(u)' /\ Kept(u)'
        BY <2>0, <3>1, <3>2, <4>1 DEF TypeOK, Staged, Kept
      <4>2. ASSUME NEW u \in Vms, u # v PROVE Staged(u)' /\ Kept(u)'
        BY <2>0, <3>1, <3>2, <4>2 DEF TypeOK, Staged, Kept
      <4>3. QED
        BY <4>1, <4>2
    <3>8. QED
      BY <3>5, <3>6, <3>7 DEF IInv
  <2>8. ASSUME NEW v \in Vms, Free(v) PROVE IInv'
    <3>1. /\ Goes(v, "stored", "freed")
          /\ built' = [built EXCEPT ![v] = FALSE]
          /\ UNCHANGED <<live, owner, claimed, ended, answer, done, waker, taken, handle, holder, due, told>>
      BY <2>8 DEF Free, client
    <3>2. /\ stage[v] = "stored"
          /\ stage'[v] = "freed" /\ stage' \in [Vms -> Stages]
          /\ \A u \in Vms : u # v => stage'[u] = stage[u]
          /\ \A u \in Vms : u # v => (Holds(u)' <=> Holds(u))
      <4>1. UNCHANGED <<owner, claimed>> /\ "freed" \in Stages
        BY <3>1 DEF Stages
      <4>2. QED
        BY <2>0, <3>1, <4>1, StageMoves
    <3>3. v \notin owner \/ stage[v] = "unborn"
      BY <2>0 DEF Spawning
    <3>4. Held' = Held
      BY <3>2, <3>3 DEF Held, Holds
    <3>5. LiveExact'
      BY <2>0, <3>1, <3>4, SameHeld
    <3>6. TypeOK' /\ Spawning'
      BY <2>0, <3>1, <3>2, <3>3, <3>5 DEF TypeOK, Spawning
    <3>7. \A u \in Vms : Staged(u)' /\ Kept(u)'
      <4>1. ASSUME NEW u \in Vms, u = v PROVE Staged(u)' /\ Kept(u)'
        BY <2>0, <3>1, <3>2, <4>1 DEF TypeOK, Staged, Kept
      <4>2. ASSUME NEW u \in Vms, u # v PROVE Staged(u)' /\ Kept(u)'
        BY <2>0, <3>1, <3>2, <4>2 DEF TypeOK, Staged, Kept
      <4>3. QED
        BY <4>1, <4>2
    <3>8. QED
      BY <3>5, <3>6, <3>7 DEF IInv
  <2>9. ASSUME NEW v \in Vms, GiveBack(v) PROVE IInv'
    <3>1. /\ Goes(v, "freed", "returned")
          /\ live' = live - 1
          /\ UNCHANGED <<owner, claimed, built, ended, answer, done, waker, taken, handle, holder, due, told>>
      BY <2>9 DEF GiveBack, client
    <3>2. /\ stage[v] = "freed"
          /\ stage'[v] = "returned" /\ stage' \in [Vms -> Stages]
          /\ \A u \in Vms : u # v => stage'[u] = stage[u]
          /\ \A u \in Vms : u # v => (Holds(u)' <=> Holds(u))
      <4>1. UNCHANGED <<owner, claimed>> /\ "returned" \in Stages
        BY <3>1 DEF Stages
      <4>2. QED
        BY <2>0, <3>1, <4>1, StageMoves
    <3>3. v \notin owner \/ stage[v] = "unborn"
      BY <2>0 DEF Spawning
    <3>4. v \in Held /\ Held' = Held \ {v}
      BY <3>1, <3>2, <3>3 DEF Held, Holds
    <3>5. LiveExact' /\ live >= 1
      BY <2>0, <3>1, <3>4, OneLessHeld
    <3>6. TypeOK' /\ Spawning'
      BY <2>0, <3>1, <3>2, <3>3, <3>5 DEF TypeOK, Spawning
    <3>7. \A u \in Vms : Staged(u)' /\ Kept(u)'
      <4>1. ASSUME NEW u \in Vms, u = v PROVE Staged(u)' /\ Kept(u)'
        BY <2>0, <3>1, <3>2, <4>1 DEF TypeOK, Staged, Kept
      <4>2. ASSUME NEW u \in Vms, u # v PROVE Staged(u)' /\ Kept(u)'
        BY <2>0, <3>1, <3>2, <4>2 DEF TypeOK, Staged, Kept
      <4>3. QED
        BY <4>1, <4>2
    <3>8. QED
      BY <3>5, <3>6, <3>7 DEF IInv
  <2>10. ASSUME NEW v \in Vms, Finish(v) PROVE IInv'
    <3>1. /\ Goes(v, "returned", "waking")
          /\ done' = [done EXCEPT ![v] = TRUE]
          /\ taken' = [taken EXCEPT ![v] = waker[v]]
          /\ waker' = [waker EXCEPT ![v] = {}]
          /\ UNCHANGED <<live, owner, claimed, built, ended, answer, handle, holder, due, told>>
      BY <2>10 DEF Finish, client
    <3>2. /\ stage[v] = "returned"
          /\ stage'[v] = "waking" /\ stage' \in [Vms -> Stages]
          /\ \A u \in Vms : u # v => stage'[u] = stage[u]
          /\ \A u \in Vms : u # v => (Holds(u)' <=> Holds(u))
      <4>1. UNCHANGED <<owner, claimed>> /\ "waking" \in Stages
        BY <3>1 DEF Stages
      <4>2. QED
        BY <2>0, <3>1, <4>1, StageMoves
    <3>3. v \notin owner \/ stage[v] = "unborn"
      BY <2>0 DEF Spawning
    <3>4. Held' = Held
      BY <3>1, <3>2, <3>3 DEF Held, Holds
    <3>5. LiveExact'
      BY <2>0, <3>1, <3>4, SameHeld
    <3>6. TypeOK' /\ Spawning'
      BY <2>0, <3>1, <3>2, <3>3, <3>5 DEF TypeOK, Spawning
    <3>7. \A u \in Vms : Staged(u)' /\ Kept(u)'
      <4>1. ASSUME NEW u \in Vms, u = v PROVE Staged(u)' /\ Kept(u)'
        BY <2>0, <3>1, <3>2, <4>1 DEF TypeOK, Staged, Kept
      <4>2. ASSUME NEW u \in Vms, u # v PROVE Staged(u)' /\ Kept(u)'
        BY <2>0, <3>1, <3>2, <4>2 DEF TypeOK, Staged, Kept
      <4>3. QED
        BY <4>1, <4>2
    <3>8. QED
      BY <3>5, <3>6, <3>7 DEF IInv
  <2>11. ASSUME NEW v \in Vms, Wake(v) PROVE IInv'
    <3>1. /\ Goes(v, "waking", "over")
          /\ due' = [u \in Vms |-> due[u] \/ (handle[u] = "await" /\ holder[u] \in taken[v])]
          /\ taken' = [taken EXCEPT ![v] = {}]
          /\ UNCHANGED <<live, owner, claimed, built, ended, answer, done, waker, handle, holder, told>>
      BY <2>11 DEF Wake, client
    <3>2. /\ stage[v] = "waking"
          /\ stage'[v] = "over" /\ stage' \in [Vms -> Stages]
          /\ \A u \in Vms : u # v => stage'[u] = stage[u]
          /\ \A u \in Vms : u # v => (Holds(u)' <=> Holds(u))
      <4>1. UNCHANGED <<owner, claimed>> /\ "over" \in Stages
        BY <3>1 DEF Stages
      <4>2. QED
        BY <2>0, <3>1, <4>1, StageMoves
    <3>3. v \notin owner \/ stage[v] = "unborn"
      BY <2>0 DEF Spawning
    <3>4. Held' = Held
      BY <3>1, <3>2, <3>3 DEF Held, Holds
    <3>5. LiveExact'
      BY <2>0, <3>1, <3>4, SameHeld
    <3>6. TypeOK' /\ Spawning'
      BY <2>0, <3>1, <3>2, <3>3, <3>5 DEF TypeOK, Spawning
    <3>7. \A u \in Vms : Staged(u)' /\ Kept(u)'
      <4>1. ASSUME NEW u \in Vms, u = v PROVE Staged(u)' /\ Kept(u)'
        BY <2>0, <3>1, <3>2, <4>1 DEF TypeOK, Staged, Kept
      <4>2. ASSUME NEW u \in Vms, u # v PROVE Staged(u)' /\ Kept(u)'
        BY <2>0, <3>1, <3>2, <4>2 DEF TypeOK, Staged, Kept
      <4>3. QED
        BY <4>1, <4>2
    <3>8. QED
      BY <3>5, <3>6, <3>7 DEF IInv
  <2>12. ASSUME NEW v \in Vms, Poll(v) PROVE IInv'
    <3>1. UNCHANGED <<live, owner, claimed, stage, built, ended, done, holder>>
      BY <2>12 DEF Poll, thread
    <3>2. Held' = Held
      BY <3>1 DEF Held, Holds
    <3>3. LiveExact'
      BY <2>0, <3>1, <3>2, SameHeld
    <3>4. handle[v] = "await" /\ v \notin owner
      BY <2>0, <2>12 DEF Poll, Spawning
    <3>5. \/ /\ answer[v] /\ told' = [told EXCEPT ![v] = "value"] /\ handle' = [handle EXCEPT ![v] = "gone"]
             /\ answer' = [answer EXCEPT ![v] = FALSE] /\ waker' = waker
          \/ /\ done[v] /\ told' = [told EXCEPT ![v] = "lost"] /\ handle' = [handle EXCEPT ![v] = "gone"]
             /\ UNCHANGED <<answer, waker>>
          \/ /\ ~done[v] /\ waker' = [waker EXCEPT ![v] = {holder[v]}]
             /\ UNCHANGED <<answer, handle, told>>
      BY <2>12 DEF Poll, Tell
    <3>6. TypeOK' /\ Spawning'
      <4>1. holder[v] \in Tasks
        BY <2>0 DEF TypeOK
      <4>2. /\ told' \in [Vms -> {"not", "value", "lost"}]
            /\ handle' \in [Vms -> {"none", "await", "join", "gone"}]
            /\ answer' \in [Vms -> BOOLEAN] /\ waker' \in [Vms -> SUBSET Tasks]
        <5>1. CASE answer[v] /\ told' = [told EXCEPT ![v] = "value"]
                   /\ handle' = [handle EXCEPT ![v] = "gone"]
                   /\ answer' = [answer EXCEPT ![v] = FALSE] /\ waker' = waker
          BY <2>0, <5>1 DEF TypeOK
        <5>2. CASE done[v] /\ told' = [told EXCEPT ![v] = "lost"]
                   /\ handle' = [handle EXCEPT ![v] = "gone"] /\ UNCHANGED <<answer, waker>>
          BY <2>0, <5>2 DEF TypeOK
        <5>3. CASE ~done[v] /\ waker' = [waker EXCEPT ![v] = {holder[v]}]
                   /\ UNCHANGED <<answer, handle, told>>
          <6>1. waker' \in [Vms -> SUBSET Tasks]
            BY <2>0, <4>1, <5>3 DEF TypeOK
          <6>2. QED
            BY <2>0, <5>3, <6>1 DEF TypeOK
        <5>4. QED
          BY <3>5, <5>1, <5>2, <5>3
      <4>3. holder' = holder
        BY <2>12 DEF Poll
      <4>4. TypeOK'
        BY <2>0, <3>1, <4>2, <4>3 DEF TypeOK
      <4>5. \A u \in owner : handle'[u] = handle[u]
        BY <2>0, <3>4, <3>5 DEF TypeOK
      <4>6. QED
        BY <2>0, <3>1, <4>4, <4>5 DEF Spawning
    <3>7. \A u \in Vms : Staged(u)' /\ Kept(u)'
      BY <2>0, <3>1, <3>4, <3>5 DEF TypeOK, Staged, Kept
    <3>8. QED
      BY <3>3, <3>6, <3>7 DEF IInv
  <2>13. ASSUME NEW v \in Vms, Join(v) PROVE IInv'
    <3>1. UNCHANGED <<live, owner, claimed, stage, built, ended, done, waker, holder>>
      BY <2>13 DEF Join, thread
    <3>2. Held' = Held
      BY <3>1 DEF Held, Holds
    <3>3. LiveExact'
      BY <2>0, <3>1, <3>2, SameHeld
    <3>4. handle[v] = "join" /\ v \notin owner
      BY <2>0, <2>13 DEF Join, Spawning
    <3>5. \E what \in {"value", "lost"} :
             /\ told' = [told EXCEPT ![v] = what] /\ handle' = [handle EXCEPT ![v] = "gone"]
             /\ answer' = [answer EXCEPT ![v] = FALSE]
      BY <2>13 DEF Join, Tell
    <3>6. TypeOK' /\ Spawning'
      BY <2>0, <3>1, <3>4, <3>5 DEF TypeOK, Spawning
    <3>7. \A u \in Vms : Staged(u)' /\ Kept(u)'
      BY <2>0, <3>1, <3>4, <3>5 DEF TypeOK, Staged, Kept
    <3>8. QED
      BY <3>3, <3>6, <3>7 DEF IInv
  <2>14. ASSUME NEW v \in Vms, Move(v) PROVE IInv'
    <3>1. UNCHANGED <<live, owner, claimed, stage, built, ended, done, answer, waker, handle, told>>
      BY <2>14 DEF Move, thread
    <3>2. Held' = Held
      BY <3>1 DEF Held, Holds
    <3>3. LiveExact'
      BY <2>0, <3>1, <3>2, SameHeld
    <3>4. PICK t \in Tasks : holder' = [holder EXCEPT ![v] = t]
      BY <2>14 DEF Move
    <3>6. TypeOK' /\ Spawning'
      BY <2>0, <3>1, <3>4 DEF TypeOK, Spawning
    <3>7. \A u \in Vms : Staged(u)' /\ Kept(u)'
      BY <2>0, <3>1 DEF Staged, Kept
    <3>8. QED
      BY <3>3, <3>6, <3>7 DEF IInv
  <2>15. ASSUME NEW v \in Vms, GiveUp(v) PROVE IInv'
    <3>1. UNCHANGED <<live, owner, claimed, stage, built, ended, done, answer, waker, holder, told>>
      BY <2>15 DEF GiveUp, thread
    <3>2. Held' = Held
      BY <3>1 DEF Held, Holds
    <3>3. LiveExact'
      BY <2>0, <3>1, <3>2, SameHeld
    <3>4. PICK use \in {"join", "gone"} : handle' = [handle EXCEPT ![v] = use]
      BY <2>15 DEF GiveUp
    <3>5. handle[v] = "await" /\ v \notin owner
      BY <2>0, <2>15 DEF GiveUp, Spawning
    <3>6. TypeOK' /\ Spawning'
      BY <2>0, <3>1, <3>4, <3>5 DEF TypeOK, Spawning
    <3>7. \A u \in Vms : Staged(u)' /\ Kept(u)'
      BY <2>0, <3>1, <3>4, <3>5 DEF TypeOK, Staged, Kept
    <3>8. QED
      BY <3>3, <3>6, <3>7 DEF IInv
  <2>16. ASSUME UNCHANGED vars PROVE IInv'
    <3>1. Held' = Held
      BY <2>16 DEF vars, thread, client, Held, Holds
    <3>2. LiveExact'
      BY <2>0, <2>16, <3>1, SameHeld DEF vars
    <3>3. TypeOK' /\ Spawning' /\ \A u \in Vms : Staged(u)' /\ Kept(u)'
      BY <2>0, <2>16 DEF vars, thread, client, TypeOK, Spawning, Staged, Kept
    <3>4. QED
      BY <3>2, <3>3 DEF IInv
  <2>17. QED
    BY <2>1, <2>2, <2>3, <2>4, <2>5, <2>6, <2>7, <2>8, <2>9, <2>10, <2>11, <2>12, <2>13,
       <2>14, <2>15, <2>16 DEF Next
<1>3. QED
  BY <1>1, <1>2, PTL DEF Spec

(* The types hold, and one spawn at most is between the check of the limit *)
(* and the thread's start (Host::spawn takes &mut self).                   *)
THEOREM HostTyped == Spec => []TypeOK
<1>1. IInv => TypeOK
  BY DEF IInv
<1>2. QED
  BY <1>1, HostInductive, PTL

(* The count of live VMs is exact, whatever is refused and whatever panics.*)
THEOREM LiveAlwaysExact == Spec => []LiveExact
<1>1. IInv => LiveExact
  BY DEF IInv
<1>2. QED
  BY <1>1, HostInductive, PTL

(* No more VMs exist at once than the limit.                               *)
THEOREM AlwaysBounded == Spec => []Bounded
<1>1. IInv => Bounded
  <2> SUFFICES ASSUME IInv PROVE Bounded
    OBVIOUS
  <2> DEFINE B == {v \in Vms : built[v]}
  <2>1. B \subseteq Held
    BY DEF IInv, Staged, Held, Holds
  <2>2. Cardinality(B) <= Cardinality(Held) /\ Cardinality(B) \in Nat /\ Cardinality(Held) \in Nat
    <3>1. IsFiniteSet(B)
      BY <2>1, HeldFinite, FS_Subset
    <3>2. QED
      BY <2>1, <3>1, HeldFinite, FS_Subset, FS_CardinalityType
  <2>3. live = Cardinality(Held) /\ live <= limit
    BY DEF IInv, LiveExact, Held, Spawning
  <2>4. QED
    BY <2>2, <2>3, VmHostAssumption DEF Bounded
<1>2. QED
  BY <1>1, HostInductive, PTL

(* Whoever learns that a VM has finished finds its slot free.              *)
THEOREM AlwaysFreeOnceFinished == Spec => []FreeOnceFinished
<1>1. IInv => FreeOnceFinished
  <2> SUFFICES ASSUME IInv, NEW v \in Vms, done[v] \/ stage[v] = "over" PROVE ~built[v] /\ ~Holds(v)
    BY DEF FreeOnceFinished
  <2>1. stage[v] \in {"waking", "over"}
    BY DEF IInv, Staged
  <2>2. v \notin owner
    BY <2>1 DEF IInv, Spawning
  <2>3. QED
    BY <2>1, <2>2 DEF IInv, Staged, Holds
<1>2. QED
  BY <1>1, HostInductive, PTL

(* A thread that has finished leaves no waker uncalled in its slot.        *)
THEOREM NeverAWakerLeft == Spec => []NoWakerLeft
<1>1. IInv => NoWakerLeft
  BY DEF IInv, Staged, NoWakerLeft
<1>2. QED
  BY <1>1, HostInductive, PTL

(* The host implements Promise: every step ends the work of one VM, tells  *)
(* one holder what its work did, or does neither.                          *)
THEOREM HostKeepsPromise == Spec => KeepsPromise
<1>1. Init => P!Init
  BY DEF Init, P!Init
<1>2. IInv /\ [Next]_vars => [P!Next]_<<ended, told>>
  <2> SUFFICES ASSUME IInv, [Next]_vars, ~UNCHANGED <<ended, told>> PROVE P!Next
    OBVIOUS
  <2>0. TypeOK /\ \A v \in Vms : Staged(v) /\ Kept(v)
    BY DEF IInv
  <2>1. ASSUME NEW v \in Vms, Answered(v) \/ Panic(v) PROVE P!Next
    <3>1. ended[v] = "not" /\ told' = told
      BY <2>0, <2>1 DEF Answered, Panic, Goes, Staged, client
    <3>2. \E how \in {"value", "panic"} : ended' = [ended EXCEPT ![v] = how]
      BY <2>1 DEF Answered, Panic
    <3>3. QED
      BY <3>1, <3>2 DEF P!Next, P!End
  <2>2. ASSUME NEW v \in Vms, Poll(v) PROVE P!Next
    <3>1. handle[v] = "await" /\ ended' = ended
      BY <2>2 DEF Poll
    <3>2. told[v] = "not" /\ (ended[v] = "value" <=> answer[v])
      BY <2>0, <3>1 DEF Kept
    <3>3. CASE answer[v]
      BY <2>2, <3>1, <3>2, <3>3 DEF Poll, Tell, P!Next, P!Tell
    <3>4. CASE ~answer[v]
      <4>1. done[v] /\ told' = [told EXCEPT ![v] = "lost"]
        BY <2>2, <3>1, <3>4 DEF Poll, Tell
      <4>2. ended[v] = "panic"
        BY <2>0, <3>2, <3>4, <4>1 DEF Staged, TypeOK
      <4>3. QED
        BY <3>1, <3>2, <4>1, <4>2 DEF P!Next, P!Tell
    <3>5. QED
      BY <3>3, <3>4
  <2>3. ASSUME NEW v \in Vms, Join(v) PROVE P!Next
    <3>1. handle[v] = "join" /\ stage[v] = "over" /\ ended' = ended
          /\ told' = [told EXCEPT ![v] = IF answer[v] THEN "value" ELSE "lost"]
      BY <2>3 DEF Join, Tell
    <3>2. told[v] = "not" /\ ended[v] # "not" /\ (ended[v] = "value" <=> answer[v])
      BY <2>0, <3>1 DEF Kept, Staged
    <3>3. QED
      BY <3>1, <3>2 DEF P!Next, P!Tell
  <2>4. QED
    BY <2>1, <2>2, <2>3 DEF Next, vars, thread, client, Admit, Claim, Start, FailStart, Build,
       Free, GiveBack, Finish, Wake, Move, GiveUp
<1>3. QED
  BY <1>1, <1>2, HostInductive, PTL DEF Spec, KeepsPromise, P!Spec

-----------------------------------------------------------------------------
(* The decision.                                                           *)

Ahead == LOOKAHEAD * fell

WatchInv ==
  /\ mem \in SampleType
  /\ watch.baseline \in Readings /\ watch.last \in Readings
  /\ floor > 0 => watch.last = mem.available
  /\ watch.breaches \in Nat /\ run \in Nat
  /\ floor > 0 => watch.breaches < sustained /\ watch.breaches = run
  /\ fell \in Nat
  /\ (trip = {} /\ Watched(mem) /\ FloorFor(mem) > 0 /\ fell > 0)
       => FloorFor(mem) + Ahead <= Figure(mem.available)

LEMMA Product ==
  ASSUME NEW m \in Nat, NEW n \in Nat
  PROVE  m * n \in Nat
  OBVIOUS

LEMMA FigureOf ==
  ASSUME NEW n
  PROVE  Figure({n}) = n
  BY DEF Figure

LEMMA FigureNat ==
  ASSUME NEW f \in Readings, f # {}
  PROVE  Figure(f) \in Nat /\ f = {Figure(f)}
<1>1. PICK n \in 0 .. Total : f = {n}
  BY DEF Readings
<1>2. n \in Nat
  BY OomWatchAssumption
<1>25. Figure({n}) = n
  BY FigureOf
<1>3. QED
  BY <1>1, <1>2, <1>25

LEMMA FloorNat ==
  ASSUME NEW s \in SampleType
  PROVE  FloorFor(s) \in Nat
<1>1. s.total \in Readings
  BY DEF SampleType
<1>2. s.total # {} => Figure(s.total) \in Nat
  BY <1>1, FigureNat
<1>3. s.total # {} => Figure(s.total) \div 10 \in Nat
  BY <1>2
<1>4. QED
  BY <1>2, <1>3, OomWatchAssumption DEF FloorFor, Least

LEMMA FallNat ==
  ASSUME NEW w, NEW s \in SampleType, w.last \in Readings
  PROVE  Fall(w, s) \in Nat
<1>1. s.available \in Readings
  BY DEF SampleType
<1>2. (w.last # {} => Figure(w.last) \in Nat) /\ (s.available # {} => Figure(s.available) \in Nat)
  BY <1>1, FigureNat
<1>3. QED
  BY <1>2 DEF Fall, Less

(* A watched sample that projects below the floor trips.                   *)
LEMMA WatchedTrips ==
  ASSUME NEW w, NEW s \in SampleType, w.last \in Readings, Watched(s), Answer(w, s).trip = {}, FloorFor(s) > 0
  PROVE  FloorFor(s) <= Less(Figure(s.available), LOOKAHEAD * Fall(w, s))
<1> DEFINE a == Figure(s.available)
           p == Less(a, LOOKAHEAD * Fall(w, s))
<1>1. s.available \in Readings /\ s.available # {} /\ s.swap_free = {0}
  BY DEF SampleType, Watched
<1>2. a \in Nat /\ s.available = {a}
  BY <1>1, FigureNat
<1>3. LOOKAHEAD * Fall(w, s) \in Nat
  BY FallNat, OomWatchAssumption
<1>4. p \in Nat
  BY <1>2, <1>3 DEF Less
<1>5. Projected(w, s) = {p}
  BY <1>2 DEF Projected
<1> HIDE DEF p, a
<1>6. OrZero(Projected(w, s)) = p /\ OrZero(s.swap_free) = 0
  BY <1>1, <1>5, FigureOf DEF OrZero
<1>7. FloorFor(s) \in Nat
  BY FloorNat
<1>8. Culprit(w, s)
  BY DEF Culprit, Watched
<1>9. ASSUME p < FloorFor(s) PROVE FALSE
  <2>1. Critical(w, s) /\ Acute(w, s)
    BY <1>5, <1>6, <1>9 DEF Critical, Acute, Watched
  <2>2. Counted(w, s).trip # {}
    BY <1>8, <2>1 DEF Counted
  <2>3. QED
    BY <2>2 DEF Answer, Watched
<1>10. FloorFor(s) <= p
  BY <1>4, <1>7, <1>9
<1>11. QED
  BY <1>10 DEF p, a

(* A sample's part in the count is what it does to the run.                *)
LEMMA CountIsRun ==
  ASSUME NEW w, NEW s, NEW n \in Nat, floor > 0, w.breaches = n, n < sustained
  PROVE  LET c == Counted(w, s)
             r == IF c.trip = {} /\ Critical(w, s) /\ Culprit(w, s) THEN n + 1 ELSE 0
         IN c.breaches = r /\ r \in Nat /\ r < sustained
<1>0. sustained \in Nat /\ sustained >= 2
  BY OomWatchAssumption
<1>1. CASE ~Critical(w, s) \/ ~Culprit(w, s)
  BY <1>0, <1>1 DEF Counted
<1>2. CASE Critical(w, s) /\ Culprit(w, s) /\ (Acute(w, s) \/ n + 1 >= sustained)
  <2>1. Counted(w, s) = [breaches |-> 0, trip |-> {[acute |-> Acute(w, s)]}]
    BY <1>2 DEF Counted
  <2> DEFINE t == {[acute |-> Acute(w, s)]}
  <2>15. t # {}
    OBVIOUS
  <2> HIDE DEF t
  <2>2. Counted(w, s).trip # {} /\ Counted(w, s).breaches = 0
    <3>1. Counted(w, s) = [breaches |-> 0, trip |-> t]
      BY <2>1 DEF t
    <3>2. QED
      BY <2>15, <3>1
  <2>3. QED
    BY <1>0, <2>2
<1>3. CASE Critical(w, s) /\ Culprit(w, s) /\ ~Acute(w, s) /\ ~(n + 1 >= sustained)
  <2>1. Counted(w, s) = [breaches |-> n + 1, trip |-> {}]
    BY <1>3 DEF Counted
  <2>2. Counted(w, s).trip = {} /\ Counted(w, s).breaches = n + 1
    BY <2>1
  <2>3. QED
    BY <1>0, <1>3, <2>2
<1>4. QED
  BY <1>1, <1>2, <1>3

THEOREM WatchInductive == WatchSpec => []WatchInv
<1>1. WatchInit => WatchInv
  <2> SUFFICES ASSUME WatchInit PROVE WatchInv
    OBVIOUS
  <2>1. mem \in SampleType
    BY OomWatchAssumption DEF WatchInit
  <2>2. mem.available \in Readings
    BY <2>1 DEF SampleType
  <2>3. watch.baseline = mem.available /\ watch.last = mem.available /\ watch.breaches = 0
    BY DEF WatchInit, New
  <2>4. QED
    BY <2>1, <2>2, <2>3, OomWatchAssumption DEF WatchInit, WatchInv
<1>2. WatchInv /\ [WatchNext]_watchVars => WatchInv'
  <2>1. ASSUME WatchInv, NEW s \in Samples, Step(s) PROVE WatchInv'
    <3>1. s \in SampleType /\ mem' = s /\ kernel_level' = kernel_level /\ s.available \in Readings
      BY <2>1, OomWatchAssumption DEF Step, SampleType
    <3>2. fell' = Fall(watch, s) /\ trip' = Answer(watch, s).trip
      BY <2>1 DEF Step
    <3>3. /\ watch'.baseline = watch.baseline
          /\ watch'.last = IF floor = 0 THEN watch.last ELSE s.available
          /\ watch'.breaches = Answer(watch, s).breaches
      BY <2>1 DEF Step
    <3>4. run' = IF trip' = {} /\ Critical(watch, s) /\ Culprit(watch, s) THEN run + 1 ELSE 0
      BY <2>1 DEF Step
    <3>5. fell' \in Nat
      BY <2>1, <3>1, <3>2, FallNat DEF WatchInv
    <3>6. watch'.baseline \in Readings /\ watch'.last \in Readings /\ (floor > 0 => watch'.last = mem'.available)
      BY <2>1, <3>1, <3>3 DEF WatchInv
    <3>7. watch'.breaches \in Nat /\ run' \in Nat /\ (floor > 0 => watch'.breaches < sustained /\ watch'.breaches = run')
      <4>1. CASE floor = 0
        BY <2>1, <3>2, <3>3, <3>4, <4>1 DEF WatchInv, Answer
      <4>2. CASE floor > 0
        <5>1. Answer(watch, s) = Counted(watch, s)
          BY <4>2 DEF Answer
        <5>2. watch.breaches = run /\ run \in Nat /\ run < sustained
          BY <2>1, <4>2 DEF WatchInv
        <5>3. Counted(watch, s).breaches = run' /\ run' \in Nat /\ run' < sustained
          BY <3>2, <3>4, <4>2, <5>1, <5>2, CountIsRun
        <5>4. QED
          BY <3>3, <5>1, <5>3
      <4>3. QED
        BY <4>1, <4>2, OomWatchAssumption
    <3>8. ASSUME trip' = {}, Watched(s), FloorFor(s) > 0, fell' > 0
          PROVE FloorFor(s) + LOOKAHEAD * fell' <= Figure(s.available)
      <4> DEFINE a == Figure(s.available)
                 k == LOOKAHEAD * fell'
                 f == FloorFor(s)
      <4>1. f <= Less(a, k)
        BY <2>1, <3>1, <3>2, <3>8, WatchedTrips DEF WatchInv
      <4>2. a \in Nat /\ k \in Nat /\ f \in Nat
        <5>1. a \in Nat
          BY <3>1, <3>8, FigureNat DEF Watched
        <5>2. k \in Nat
          BY <3>5, Product, OomWatchAssumption
        <5>3. QED
          BY <3>1, <5>1, <5>2, FloorNat
      <4>3. f > 0
        BY <3>8
      <4> HIDE DEF a, k, f
      <4>4. f + k <= a
        BY <4>1, <4>2, <4>3 DEF Less
      <4>5. QED
        BY <4>4 DEF a, k, f
    <3>9. (trip' = {} /\ Watched(mem)' /\ FloorFor(mem)' > 0 /\ fell' > 0) => FloorFor(mem)' + Ahead' <= Figure(mem'.available)
      BY <3>1, <3>8 DEF Watched, FloorFor, Ahead
    <3>10. QED
      BY <3>1, <3>5, <3>6, <3>7, <3>9 DEF WatchInv
  <2>2. ASSUME WatchInv, UNCHANGED watchVars PROVE WatchInv'
    BY <2>2 DEF watchVars, WatchInv, Watched, FloorFor, Ahead
  <2>3. QED
    BY <2>1, <2>2 DEF WatchNext
<1>3. QED
  BY <1>1, <1>2, PTL DEF WatchSpec

(* No run of critical samples of a culprit outgrows the policy's.          *)
THEOREM AlwaysCaughtInWindow == WatchSpec => []CaughtInWindow
<1>1. WatchInv => CaughtInWindow
  BY DEF WatchInv, CaughtInWindow
<1>2. QED
  BY <1>1, WatchInductive, PTL

(* A trip that is not acute follows a whole run.                           *)
THEOREM AlwaysFullWindow ==
  WatchSpec => [][(\E t \in trip' : ~t.acute) => run = sustained - 1]_watchVars
<1> DEFINE A == (\E t \in trip' : ~t.acute) => run = sustained - 1
<1>1. ASSUME WatchInv, NEW s \in Samples, Step(s), NEW t \in trip', ~t.acute PROVE run = sustained - 1
  <2>1. trip' = Answer(watch, s).trip
    BY <1>1 DEF Step
  <2>2. floor # 0
    BY <1>1, <2>1 DEF Answer
  <2>3. trip' = Counted(watch, s).trip
    BY <2>1, <2>2 DEF Answer
  <2>4. watch.breaches = run /\ run \in Nat /\ run < sustained /\ sustained \in Nat
    BY <1>1, <2>2, OomWatchAssumption DEF WatchInv
  <2>5. CASE watch.breaches + 1 >= sustained
    BY <2>4, <2>5
  <2>6. CASE ~(watch.breaches + 1 >= sustained)
    <3>1. CASE Critical(watch, s) /\ Culprit(watch, s) /\ Acute(watch, s)
      <4>1. t = [acute |-> TRUE]
        BY <1>1, <2>3, <3>1 DEF Counted
      <4>2. QED
        BY <1>1, <4>1
    <3>2. CASE ~(Critical(watch, s) /\ Culprit(watch, s) /\ Acute(watch, s))
      BY <1>1, <2>3, <2>6, <3>2 DEF Counted
    <3>3. QED
      BY <3>1, <3>2
  <2>7. QED
    BY <2>5, <2>6
<1>2. WatchInv /\ [WatchNext]_watchVars => [A]_watchVars
  BY <1>1 DEF WatchNext
<1>3. QED
  BY <1>2, WatchInductive, PTL DEF WatchSpec, A

(* The guard trips while what is left is still at the floor or above.      *)
THEOREM AlwaysInTime == WatchSpec => InTime
<1> DEFINE A == LET a == Figure(mem.available)
                    b == Figure(mem'.available)
                IN (/\ Watched(mem) /\ Watched(mem') /\ mem'.total = mem.total
                    /\ b < FloorFor(mem) /\ FloorFor(mem) <= a
                    /\ a - b <= LOOKAHEAD * fell)
                   => trip # {}
<1>1. ASSUME WatchInv, [WatchNext]_watchVars, mem' \in SampleType PROVE A
  <2> DEFINE a == Figure(mem.available)
             b == Figure(mem'.available)
             f == FloorFor(mem)
             k == LOOKAHEAD * fell
  <2>1. SUFFICES ASSUME Watched(mem), Watched(mem'), b < f, f <= a, a - b <= k, trip = {} PROVE FALSE
    OBVIOUS
  <2>2. mem \in SampleType /\ mem.available \in Readings /\ mem'.available \in Readings
    BY <1>1 DEF WatchInv, SampleType
  <2>3. a \in Nat /\ b \in Nat
    BY <2>1, <2>2, FigureNat DEF Watched
  <2>4. f \in Nat /\ fell \in Nat /\ k \in Nat
    BY <1>1, <2>2, FloorNat, OomWatchAssumption DEF WatchInv
  <2>5. fell = 0 => k = 0
    BY <2>4, OomWatchAssumption
  <2>6. f > 0 /\ fell > 0 => f + k <= a
    BY <1>1, <2>1 DEF WatchInv, Ahead
  <2> HIDE DEF a, b, f, k
  <2>7. QED
    BY <2>1, <2>3, <2>4, <2>5, <2>6
<1>2. WatchInv /\ WatchInv' /\ [WatchNext]_watchVars => [A]_watchVars
  BY <1>1 DEF WatchInv
<1>3. QED
  BY <1>2, WatchInductive, PTL DEF WatchSpec, InTime, A

-----------------------------------------------------------------------------
(* The handshake.                                                          *)

(* The trips whose flag is still up.                                       *)
Owed == IF tripped THEN 1 ELSE 0

(* What the trip under way has stored is its own.                          *)
StoredRight ==
  /\ stored \in Seq(Figures) /\ Len(stored) <= 3
  /\ \A i \in 1 .. Len(stored) : stored[i] = Order[i] /\ figure[Order[i]] = trips
  /\ guard = "storing" => trips > 0

FiguresFresh == \A f \in Figures : figure[f] >= Raised

ReadRight ==
  \A v \in Takers :
    /\ mine[v] <= Raised
    /\ vm[v] = "reading" => mine[v] > 0
    /\ \A i \in 1 .. Len(read[v]) : read[v][i] >= mine[v]

GuardInv == GuardOK /\ stops + Owed <= Raised /\ StoredRight /\ FiguresFresh /\ ReadRight

LEMMA OrderIs ==
  /\ Order \in Seq(Figures) /\ Len(Order) = 3
  /\ Order[1] = "resident" /\ Order[2] = "available" /\ Order[3] = "swap_free"
  BY DEF Order, Figures

LEMMA Fewer ==
  ASSUME NEW S, NEW s \in Seq(S), Len(s) < 3
  PROVE  Len(s) = 0 \/ Len(s) = 1 \/ Len(s) = 2
<1> DEFINE n == Len(s)
<1>1. n \in Nat /\ n < 3
  OBVIOUS
<1> HIDE DEF n
<1>2. n = 0 \/ n = 1 \/ n = 2
  BY <1>1
<1>3. QED
  BY <1>2 DEF n

LEMMA InitHolds == GuardInit => GuardInv
<1> SUFFICES ASSUME GuardInit PROVE GuardInv
  OBVIOUS
<1>1. GuardOK
  <2>1. figure \in [Figures -> 0 .. trips] /\ trips \in 0 .. MaxTrips /\ stops \in Nat
    BY OomGuardAssumption DEF GuardInit
  <2>2. vm \in [Takers -> {"running", "taking", "reading"}] /\ mine \in [Takers -> 0 .. trips] /\ read \in [Takers -> Seq(Nat)]
    BY DEF GuardInit
  <2>3. QED
    BY <2>1, <2>2 DEF GuardInit, GuardOK
<1>2. Raised = 0 /\ Owed = 0
  BY DEF GuardInit, Raised, Owed
<1>3. StoredRight /\ FiguresFresh /\ ReadRight
  BY <1>2 DEF GuardInit, StoredRight, FiguresFresh, ReadRight
<1>4. QED
  BY <1>1, <1>2, <1>3 DEF GuardInv, GuardInit

(* The trips raised are a number, also in the next state.                  *)
LEMMA RaisedInt ==
  ASSUME GuardOK
  PROVE  trips \in Int /\ Raised \in Int /\ stops \in Int
  BY OomGuardAssumption DEF GuardOK, Raised

-----------------------------------------------------------------------------
(* One lemma for each action that disturbs the invariant.                  *)

LEMMA SampleHolds ==
  ASSUME GuardInv, Sample
  PROVE  GuardInv'
<1>1. guard = "sampling" /\ stored = <<>> /\ Raised = trips
  BY DEF GuardInv, GuardOK, Sample, Over, Sampled, Raised
<1>2. Raised' = trips /\ Owed' = Owed
  BY <1>1, RaisedInt DEF Sample, Over, Sampled, Raised, Owed, GuardInv, vms
<1>3. trips' \in 0 .. MaxTrips /\ trips <= trips' /\ trips \in Int
  BY OomGuardAssumption DEF Sample, Over, Sampled, GuardInv, GuardOK
<1>4. GuardOK'
  <2>1. figure \in [Figures -> 0 .. trips'] /\ mine \in [Takers -> 0 .. trips']
    BY <1>3 DEF GuardInv, GuardOK
  <2>2. QED
    BY <1>1, <1>3, <2>1 DEF GuardInv, GuardOK, Sample, Over, Sampled, vms
<1>5. StoredRight'
  BY <1>1, <1>3 DEF GuardInv, StoredRight, Sample, Over, Sampled, GuardOK
<1>6. FiguresFresh' /\ ReadRight'
  BY <1>1, <1>2 DEF GuardInv, FiguresFresh, ReadRight, Sample, Over, Sampled, vms
<1>7. QED
  BY <1>1, <1>2, <1>4, <1>5, <1>6 DEF GuardInv, Sample, Over, Sampled, vms

LEMMA StoreHolds ==
  ASSUME GuardInv, StoreFigure
  PROVE  GuardInv'
<1> DEFINE f == Order[Len(stored) + 1]
<1>0. stored \in Seq(Figures) /\ guard = "storing" /\ Len(stored) < 3
  BY OrderIs DEF GuardInv, StoredRight, StoreFigure
<1>05. Len(stored) = 0 \/ Len(stored) = 1 \/ Len(stored) = 2
  BY <1>0, Fewer
<1>1. Len(stored) \in 0 .. 2 /\ stored \in Seq(Figures) /\ guard = "storing"
  BY <1>0, <1>05
<1>2. f \in Figures /\ stored' = Append(stored, f) /\ figure' = [figure EXCEPT ![f] = trips]
  BY <1>1, OrderIs DEF StoreFigure
<1>3. Raised' = Raised /\ Owed' = Owed /\ Raised <= trips
  BY <1>1, RaisedInt DEF StoreFigure, Raised, Owed, GuardInv
<1>4. GuardOK'
  BY <1>1, <1>2, RaisedInt DEF GuardInv, GuardOK, StoreFigure, vms
<1>5. StoredRight'
  <2>1. stored' \in Seq(Figures) /\ Len(stored') = Len(stored) + 1
    BY <1>1, <1>2
  <2>2. ASSUME NEW i \in 1 .. Len(stored') PROVE stored'[i] = Order[i] /\ figure'[Order[i]] = trips
    <3>1. CASE i = Len(stored) + 1
      BY <1>1, <1>2, <3>1 DEF GuardInv, GuardOK
    <3>2. CASE i \in 1 .. Len(stored)
      BY <1>1, <1>2, <3>2, OrderIs DEF GuardInv, StoredRight, GuardOK
    <3>3. QED
      BY <1>1, <2>1, <3>1, <3>2
  <2>3. QED
    BY <1>1, <2>1, <2>2 DEF StoredRight, StoreFigure, GuardInv
<1>6. FiguresFresh'
  BY <1>2, <1>3, RaisedInt DEF GuardInv, FiguresFresh, GuardOK
<1>7. ReadRight'
  BY <1>3 DEF GuardInv, ReadRight, StoreFigure, vms
<1>8. QED
  BY <1>3, <1>4, <1>5, <1>6, <1>7 DEF GuardInv, StoreFigure, vms

LEMMA RaiseHolds ==
  ASSUME GuardInv, Raise
  PROVE  GuardInv'
<1>1. guard = "storing" /\ Len(stored) = 3
  BY OrderIs DEF Raise
<1>2. Raised' = trips /\ Raised = trips - 1 /\ trips \in Int /\ stops \in Int
  BY <1>1, RaisedInt DEF Raise, Raised, GuardInv
<1>3. \A f \in Figures : figure[f] = trips
  BY <1>1, OrderIs DEF GuardInv, StoredRight, Figures
<1>4. GuardOK'
  BY DEF GuardInv, GuardOK, Raise, vms
<1>5. stops' + Owed' <= Raised'
  BY <1>2 DEF GuardInv, Owed, Raise, vms
<1>6. StoredRight'
  BY DEF GuardInv, StoredRight, Raise
<1>7. FiguresFresh' /\ ReadRight'
  BY <1>2, <1>3, RaisedInt DEF GuardInv, FiguresFresh, ReadRight, Raise, vms, GuardOK
<1>8. QED
  BY <1>4, <1>5, <1>6, <1>7 DEF GuardInv

LEMMA TakeHolds ==
  ASSUME GuardInv, NEW v \in Takers, Take(v)
  PROVE  GuardInv'
<1>1. vm[v] = "taking" /\ read[v] = <<>> /\ read' = read
  BY DEF GuardInv, GuardOK, Take
<1>2. Raised' = Raised /\ Raised \in Int /\ stops \in Nat /\ trips \in Int /\ Raised <= trips /\ Raised <= MaxTrips
  BY RaisedInt, OomGuardAssumption DEF GuardInv, GuardOK, Take, Raised, watcher
<1>3. CASE tripped
  <2>1. Stops(v) /\ tripped' = FALSE /\ Raised > 0
    BY <1>2, <1>3 DEF Take, GuardInv, Owed
  <2>2. GuardOK'
    <3>1. vm' = [vm EXCEPT ![v] = "reading"] /\ mine' = [mine EXCEPT ![v] = Raised] /\ stops' = stops + 1
      BY <2>1 DEF Stops
    <3>2. Raised \in 0 .. trips
      BY <1>2, <2>1
    <3>3. mine' \in [Takers -> 0 .. trips] /\ vm' \in [Takers -> {"running", "taking", "reading"}] /\ stops' \in Nat
      BY <1>2, <3>1, <3>2 DEF GuardInv, GuardOK
    <3>4. \A u \in Takers : vm'[u] # "reading" => read[u] = <<>> /\ mine'[u] = 0
      BY <3>1 DEF GuardInv, GuardOK
    <3>5. QED
      BY <1>1, <2>1, <3>3, <3>4 DEF GuardInv, GuardOK, Take, watcher
  <2>3. stops' + Owed' <= Raised'
    BY <1>2, <1>3, <2>1 DEF GuardInv, Owed, Stops
  <2>4. ReadRight'
    BY <1>1, <1>2, <2>1 DEF GuardInv, ReadRight, Stops, GuardOK
  <2>5. QED
    BY <1>2, <2>2, <2>3, <2>4 DEF GuardInv, StoredRight, FiguresFresh, Take, watcher
<1>4. CASE ~tripped
  <2>1. vm' = [vm EXCEPT ![v] = "running"] /\ UNCHANGED <<mine, stops>> /\ tripped' = tripped
    BY <1>4 DEF Take, GuardInv, GuardOK
  <2>2. GuardOK'
    BY <1>1, <2>1 DEF GuardInv, GuardOK, Take, watcher
  <2>3. ReadRight'
    BY <1>1, <1>2, <2>1 DEF GuardInv, ReadRight, GuardOK
  <2>4. QED
    BY <1>2, <2>1, <2>2, <2>3 DEF GuardInv, StoredRight, FiguresFresh, Take, watcher, Owed
<1>5. QED
  BY <1>3, <1>4

LEMMA ReadHolds ==
  ASSUME GuardInv, NEW v \in Takers, ReadFigure(v)
  PROVE  GuardInv'
<1> DEFINE f == Order[Len(read[v]) + 1]
<1>1. Raised' = Raised /\ Owed' = Owed /\ Raised \in Int
  BY RaisedInt DEF ReadFigure, Raised, Owed, watcher, GuardInv
<1>2. read[v] \in Seq(Nat) /\ vm[v] = "reading" /\ Len(read[v]) < 3
  BY OrderIs DEF GuardInv, GuardOK, ReadFigure
<1>25. Len(read[v]) = 0 \/ Len(read[v]) = 1 \/ Len(read[v]) = 2
  BY <1>2, Fewer
<1>26. f \in Figures
  <2>1. CASE Len(read[v]) = 0
    BY <2>1, OrderIs DEF Figures
  <2>2. CASE Len(read[v]) = 1
    BY <2>2, OrderIs DEF Figures
  <2>3. CASE Len(read[v]) = 2
    BY <2>3, OrderIs DEF Figures
  <2>4. QED
    BY <1>25, <2>1, <2>2, <2>3
<1>3. figure[f] \in Nat /\ figure[f] >= Raised
  BY <1>26, RaisedInt DEF GuardInv, GuardOK, FiguresFresh
<1>4. GuardOK'
  <2>1. Append(read[v], figure[f]) \in Seq(Nat)
    BY <1>2, <1>3
  <2>2. read' \in [Takers -> Seq(Nat)]
    BY <2>1 DEF GuardInv, GuardOK, ReadFigure
  <2>3. \A u \in Takers : vm[u] # "reading" => read'[u] = <<>> /\ mine[u] = 0
    BY <1>2 DEF GuardInv, GuardOK, ReadFigure
  <2>4. QED
    BY <2>2, <2>3 DEF GuardInv, GuardOK, ReadFigure, watcher
<1>5. ReadRight'
  <2>1. read' = [read EXCEPT ![v] = Append(read[v], figure[f])] /\ read \in [Takers -> Seq(Nat)]
    BY DEF ReadFigure, GuardInv, GuardOK
  <2>2. mine[v] \in Int /\ mine[v] <= Raised
    BY RaisedInt DEF GuardInv, ReadRight, GuardOK
  <2>3. \A i \in 1 .. Len(Append(read[v], figure[f])) : Append(read[v], figure[f])[i] >= mine[v]
    BY <1>1, <1>2, <1>3, <2>2 DEF GuardInv, ReadRight
  <2>4. QED
    BY <1>1, <2>1, <2>3 DEF GuardInv, ReadRight, ReadFigure
<1>6. QED
  BY <1>1, <1>4, <1>5 DEF GuardInv, StoredRight, FiguresFresh, ReadFigure, watcher

LEMMA FailHolds ==
  ASSUME GuardInv, NEW v \in Takers, Fail(v)
  PROVE  GuardInv'
<1>1. Raised' = Raised /\ Owed' = Owed /\ Raised \in Int /\ 0 <= Raised
  BY RaisedInt DEF Fail, Raised, Owed, watcher, GuardInv, GuardOK
<1>2. GuardOK'
  <2>1. vm' = [vm EXCEPT ![v] = "running"] /\ mine' = [mine EXCEPT ![v] = 0] /\ read' = [read EXCEPT ![v] = <<>>]
    BY DEF Fail
  <2>2. mine' \in [Takers -> 0 .. trips] /\ vm' \in [Takers -> {"running", "taking", "reading"}] /\ read' \in [Takers -> Seq(Nat)]
    BY <2>1, RaisedInt DEF GuardInv, GuardOK
  <2>3. \A u \in Takers : vm'[u] # "reading" => read'[u] = <<>> /\ mine'[u] = 0
    BY <2>1 DEF GuardInv, GuardOK
  <2>4. QED
    BY <2>2, <2>3 DEF GuardInv, GuardOK, Fail, watcher
<1>3. ReadRight'
  BY <1>1 DEF GuardInv, ReadRight, GuardOK, Fail
<1>4. QED
  BY <1>1, <1>2, <1>3 DEF GuardInv, StoredRight, FiguresFresh, Fail, watcher

(* The other steps touch nothing the invariant is about but the states of  *)
(* the thread, the keeper or a VM that starts to look.                      *)
LEMMA OthersHold ==
  ASSUME GuardInv,
         Unparked \/ Timeout \/ SayStop \/ Unpark \/ Joined \/ (\E v \in Takers : Look(v)) \/ UNCHANGED guardVars
  PROVE  GuardInv'
<1>1. UNCHANGED <<tripped, figure, trips, stored, mine, read, stops>>
  BY DEF Unparked, Timeout, SayStop, Unpark, Joined, Look, guardVars, watcher, vms
<1>2. (guard' = "storing") = (guard = "storing")
  BY DEF Unparked, Timeout, SayStop, Unpark, Joined, Look, guardVars, watcher
<1>3. Raised' = Raised /\ Owed' = Owed
  BY <1>1, <1>2 DEF Raised, Owed
<1>4. \A v \in Takers : (vm'[v] = "reading") = (vm[v] = "reading")
  BY DEF Unparked, Timeout, SayStop, Unpark, Joined, Look, guardVars, vms, GuardInv, GuardOK
<1>5. GuardOK'
  BY <1>1, <1>2, <1>4 DEF GuardInv, GuardOK, Unparked, Timeout, SayStop, Unpark, Joined, Look, guardVars, watcher, vms
<1>6. StoredRight' /\ FiguresFresh' /\ ReadRight'
  BY <1>1, <1>2, <1>3, <1>4 DEF GuardInv, StoredRight, FiguresFresh, ReadRight
<1>7. QED
  BY <1>1, <1>3, <1>5, <1>6 DEF GuardInv

(* The invariant holds in every reachable state.                           *)
THEOREM GuardInductive == GuardSpec => []GuardInv
<1>1. GuardInv /\ [GuardNext]_guardVars => GuardInv'
  BY SampleHolds, StoreHolds, RaiseHolds, TakeHolds, ReadHolds, FailHolds, OthersHold DEF GuardNext
<1>2. QED
  BY <1>1, InitHolds, PTL DEF GuardSpec

-----------------------------------------------------------------------------
(* However the thread, the keeper and the VMs interleave, every variable is *)
(* of its type (memguard.rs, Guard of memwatch.rs).                        *)
THEOREM GuardTyped == GuardSpec => []GuardOK
<1>1. GuardInv => GuardOK
  BY DEF GuardInv
<1>2. QED
  BY <1>1, GuardInductive, PTL

(* No trip fails two bodies, however many VMs see its flag (take_slow).    *)
THEOREM AlwaysOneStopPerTrip == GuardSpec => []OneStopPerTrip
<1>1. GuardInv => OneStopPerTrip
  BY RaisedInt DEF GuardInv, OneStopPerTrip, Owed
<1>2. QED
  BY <1>1, GuardInductive, PTL

(* No body fails with a figure from before its trip, although the next     *)
(* trip may be storing its own while they are read (trip, take_slow).      *)
THEOREM AlwaysFreshFigures == GuardSpec => []FreshFigures
<1>1. GuardInv => FreshFigures
  BY DEF GuardInv, ReadRight, GuardOK, FreshFigures
<1>2. QED
  BY <1>1, GuardInductive, PTL

-----------------------------------------------------------------------------
(* What the thread samples is watched as OomWatch has it: a step of the    *)
(* whole is a step of the policy, or leaves it alone (start_with).         *)
THEOREM GuardWatches == GuardSpec => WatchSpec
<1>1. GuardInit => WatchInit
  BY DEF GuardInit
<1>2. [GuardNext]_guardVars => [WatchNext]_watchVars
  <2>1. ASSUME Sample PROVE [WatchNext]_watchVars
    BY <2>1 DEF Sample, Over, Sampled, WatchNext
  <2>2. ASSUME StoreFigure \/ Raise \/ Unparked \/ Timeout PROVE UNCHANGED watchVars
    BY <2>2 DEF StoreFigure, Raise, Unparked, Timeout
  <2>3. ASSUME SayStop \/ Unpark \/ Joined PROVE UNCHANGED watchVars
    BY <2>3 DEF SayStop, Unpark, Joined, watcher
  <2>4. ASSUME NEW v \in Takers, Look(v) \/ Take(v) \/ ReadFigure(v) \/ Fail(v) PROVE UNCHANGED watchVars
    BY <2>4 DEF Look, Take, ReadFigure, Fail, watcher
  <2>5. ASSUME UNCHANGED guardVars PROVE UNCHANGED watchVars
    BY <2>5 DEF guardVars, watcher
  <2>6. QED
    BY <2>1, <2>2, <2>3, <2>4, <2>5 DEF GuardNext
<1>3. QED
  BY <1>1, <1>2, PTL DEF GuardSpec, WatchSpec

(* So what the policy promises holds while VMs take its trips and the      *)
(* guard is dropped.                                                       *)
THEOREM GuardKeepsPolicy == GuardSpec => []CaughtInWindow /\ InTime
  BY GuardWatches, AlwaysCaughtInWindow, AlwaysInTime
=============================================================================
