------------------------------ MODULE Promise ------------------------------
(***************************************************************************)
(* What a spawned VM promises whoever holds its handle, whichever way they *)
(* take the answer: the work ends once, one way, and its holder is told    *)
(* once, which way it ended (struct Vm, type Answer in                     *)
(* crates/bund2-async/src/host.rs).                                        *)
(***************************************************************************)
CONSTANT Vms

VARIABLES
  ended,    \* how the work of each ended: "not", "value" or "panic"
  told      \* what its holder was told: "not", "value" or "lost"

Init ==
  /\ ended = [v \in Vms |-> "not"]
  /\ told = [v \in Vms |-> "not"]

End(v) ==
  /\ ended[v] = "not"
  /\ \E how \in {"value", "panic"} : ended' = [ended EXCEPT ![v] = how]
  /\ UNCHANGED told

Tell(v) ==
  /\ told[v] = "not" /\ ended[v] # "not"
  /\ told' = [told EXCEPT ![v] = IF ended[v] = "value" THEN "value" ELSE "lost"]
  /\ UNCHANGED ended

Next == \E v \in Vms : End(v) \/ Tell(v)

Spec == Init /\ [][Next]_<<ended, told>>
=============================================================================
