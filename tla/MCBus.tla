------------------------------- MODULE MCBus --------------------------------
(* Small instances of Bus, with four levels for 256 and two for 128. *)
EXTENDS Bus

(* Values at and past the bound, with a JSON value inside, and JSON whose  *)
(* text the parser reads and does not (json.from_value makes JSON of up to *)
(* 1024 levels).                                                           *)
Kinds ==
  {[json |-> FALSE, levels |-> 4, holds |-> FALSE, text |-> 0],
   [json |-> FALSE, levels |-> 5, holds |-> FALSE, text |-> 0],
   [json |-> FALSE, levels |-> 2, holds |-> TRUE, text |-> 0],
   [json |-> TRUE, levels |-> 1, holds |-> FALSE, text |-> 1],
   [json |-> TRUE, levels |-> 1, holds |-> FALSE, text |-> 6]}
=============================================================================
