-------------------------------- MODULE Wire --------------------------------
(***************************************************************************)
(* What may be written in the wire format and what can be read back        *)
(* (to_binary and from_binary in crates/bund2-value/src/wire.rs), by what  *)
(* decides it.  A value is a record                                        *)
(*   json    it is a JSON value,                                           *)
(*   levels  how deeply it nests, 1 for a value with no members,           *)
(*   holds   a JSON value lies in it below the top,                        *)
(*   text    how deeply the JSON itself nests, if it is one.               *)
(***************************************************************************)
EXTENDS Integers

CONSTANTS
  MAX_WIRE_DEPTH,   \* the levels that are written, and that are read, 256
  ParserDepth       \* the levels at which the JSON parser gives up, 128

ASSUME WireAssumption == MAX_WIRE_DEPTH \in Nat \ {0} /\ ParserDepth \in Nat

ValueType == [json : BOOLEAN, levels : Nat \ {0}, holds : BOOLEAN, text : Nat]

(* A value is refused where it is written if it nests too deep, or holds a *)
(* JSON value: one crosses only on its own, as its text.                   *)
Writable(x) == x.levels <= MAX_WIRE_DEPTH /\ (x.holds => x.json)

(* What is written of x: the text of a JSON value, or every level.         *)
Written(x) ==
  [text |-> x.json, depth |-> IF x.json THEN x.text ELSE x.levels,
   holds |-> ~x.json /\ x.holds]

(* The text is parsed; anything else is read level by level.               *)
Readable(b) ==
  IF b.text THEN b.depth < ParserDepth ELSE b.depth <= MAX_WIRE_DEPTH /\ ~b.holds
=============================================================================
