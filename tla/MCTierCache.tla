---------------------------- MODULE MCTierCache ----------------------------
(* Small instances of TierCache. *)
EXTENDS TierCache

(* Two addresses share a slot of the declined table. *)
SharedSlot == [a \in Addresses |-> IF a = "p3" THEN 2 ELSE 1]
=============================================================================
