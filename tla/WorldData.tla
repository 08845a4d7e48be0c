----------------------------- MODULE WorldData ------------------------------
(***************************************************************************)
(* What a VM keeps in a world file and what it takes from one              *)
(* (crates/bund2-stdlib/src/world.rs), as values.                          *)
(*                                                                         *)
(* A VM's data is a record of functions: aliases to their targets, lambdas *)
(* to their bodies, stacks to their items, bottom first.  A world holds a  *)
(* table for each of these families, one of scripts and one of models; a   *)
(* table is {} until something creates it, and then the singleton of its   *)
(* content.                                                                *)
(***************************************************************************)
EXTENDS Integers, Sequences

CONSTANTS
  Names,       \* names of words
  Natives,     \* those that are words of the language itself
  Refused,     \* the bodies and values that the wire format cannot carry
  Unreadable,  \* those whose bytes it writes, or has written, and does not read
  Rank(_),     \* where a name comes among the rows of a table
  Main,        \* the stack a VM starts with
  MaxLinks     \* the links an alias chain is followed for, 64

ASSUME WorldDataAssumption == Natives \subseteq Names /\ MaxLinks \in Nat

Families == {"aliases", "lambdas", "stacks"}
Saver(family) ==
  CASE family = "aliases" -> "save.aliases" [] family = "lambdas" -> "save.lambdas" [] OTHER -> "save.stacks"
Loader(family) ==
  CASE family = "aliases" -> "load.aliases" [] family = "lambdas" -> "load.lambdas" [] OTHER -> "load.stacks"
NoEntry == [x \in {} |-> x]

(* A function's pairs put over another's, and one pair.                    *)
Over(f, g) == [x \in DOMAIN f \cup DOMAIN g |-> IF x \in DOMAIN f THEN f[x] ELSE g[x]]
Bind(f, x, y) == [z \in DOMAIN f \cup {x} |-> IF z = x THEN y ELSE f[z]]

NewVm == [aliases |-> NoEntry, lambdas |-> NoEntry, stacks |-> [n \in {Main} |-> <<>>]]
NoTable == [aliases |-> {}, lambdas |-> {}, stacks |-> {}, scripts |-> {}, models |-> {}]

Without(f, x) == [y \in DOMAIN f \ {x} |-> f[y]]
ItemsOf(d, n) == IF n \in DOMAIN d.stacks THEN d.stacks[n] ELSE <<>>
Has(t) == t # {}
In(t) == CHOOSE c \in t : TRUE

(* Where an alias chain lands; a cycle is left after MaxLinks + 1 links.   *)
Target(d, n) ==
  LET hop[k \in 0 .. MaxLinks + 1] ==
        IF k = 0 THEN n
        ELSE IF hop[k - 1] \in DOMAIN d.aliases THEN d.aliases[hop[k - 1]] ELSE hop[k - 1]
  IN hop[MaxLinks + 1]

(* get_lambda: the lambda bound where the name's alias chain lands.        *)
LambdaOf(d, n) ==
  {d.lambdas[m] : m \in {Target(d, n)} \cap DOMAIN d.lambdas}

(* lambda_names: a name that is also a native's is not among them.         *)
LambdaNames(d) == DOMAIN d.lambdas \ Natives

(* Mutated: one table keyed by value, which an empty stack is not in. *)
Written_NoEmpty(d, family) ==
  CASE family = "aliases" -> d.aliases
    [] family = "stacks" -> [n \in {m \in DOMAIN d.stacks : d.stacks[m] # <<>>} |-> d.stacks[n]]
    [] family = "lambdas" ->
         [n \in {m \in LambdaNames(d) : LambdaOf(d, m) # {}} |-> In(LambdaOf(d, n))]

(* The rows a save writes for a family.                                    *)
Written(d, family) ==
  CASE family = "aliases" -> d.aliases
    [] family = "stacks" -> d.stacks
    [] family = "lambdas" ->
         [n \in {m \in LambdaNames(d) : LambdaOf(d, m) # {}} |-> In(LambdaOf(d, n))]

(* Does every value of the family cross the codec?                         *)
Writable(d, family) ==
  CASE family = "aliases" -> TRUE
    [] family = "lambdas" -> \A n \in LambdaNames(d) : LambdaOf(d, n) \cap Refused = {}
    [] family = "stacks" -> \A n \in DOMAIN d.stacks : \A i \in DOMAIN d.stacks[n] : d.stacks[n][i] \notin Refused

(* Reading decodes row by row and item by item, and ends at the first that *)
(* does not decode.  A row that decodes, a table whose rows all do, and    *)
(* what of a stack comes before the end.                                   *)
Decodes(family, row) ==
  CASE family = "aliases" -> TRUE
    [] family = "lambdas" -> row \notin Unreadable
    [] family = "stacks" -> \A i \in DOMAIN row : row[i] \notin Unreadable
Legible(family, c) == \A n \in DOMAIN c : Decodes(family, c[n])
Readable(q) ==
  IF Decodes("stacks", q) THEN q
  ELSE LET bad == {i \in DOMAIN q : q[i] \in Unreadable}
       IN SubSeq(q, 1, (CHOOSE i \in bad : \A j \in bad : i <= j) - 1)

(* The rows of a table that are come to: each before it decodes.           *)
Reached(family, c) ==
  {n \in DOMAIN c : \A m \in DOMAIN c : Rank(m) < Rank(n) => Decodes(family, c[m])}

(* Those that are kept.  A stack is made before its items are decoded.     *)
Kept(family, c) ==
  CASE family = "aliases" -> c
    [] family = "lambdas" -> [n \in {m \in Reached(family, c) : c[m] \notin Unreadable} |-> c[n]]
    [] family = "stacks" -> [n \in Reached(family, c) |-> Readable(c[n])]

(* A family's rows registered over what is there, and pushed on top of it. *)
Placed(d, family, c) ==
  IF family = "stacks"
  THEN [d EXCEPT !.stacks = Over([n \in DOMAIN c |-> IF n \in DOMAIN @ THEN @[n] \o c[n] ELSE c[n]], @)]
  ELSE [d EXCEPT ![family] = Over(c, @)]

(* The data after a family of the world t is read, as far as that goes,    *)
(* and whether all of it is read: a table that nothing made is an error.   *)
Loaded(d, family, c) == Placed(d, family, Kept(family, c))
Taken(d, family, t) == IF Has(t[family]) THEN Loaded(d, family, In(t[family])) ELSE d
Sound(family, t) == Has(t[family]) /\ Legible(family, In(t[family]))

(* The data after all families are, up to the first that is not Sound.     *)
LoadAll(d, t) ==
  LET a == Taken(d, "aliases", t)
      l == IF Sound("aliases", t) THEN Taken(a, "lambdas", t) ELSE a
  IN IF Sound("aliases", t) /\ Sound("lambdas", t) THEN Taken(l, "stacks", t) ELSE l
=============================================================================
