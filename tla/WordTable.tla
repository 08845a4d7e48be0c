----------------------------- MODULE WordTable -----------------------------
(***************************************************************************)
(* The word table of an interpreter (Registry in                           *)
(* crates/bund2-api/src/lib.rs) as a value, and its operations.            *)
(*                                                                         *)
(* A table is a record                                                     *)
(*   names     the interned names; a name's symbol is its place here,      *)
(*   slots     for each symbol its bindings, generation and cached answer, *)
(*   len       how many slots have been allocated,                         *)
(*   bindings  the binding epoch, which dates every cached answer,         *)
(*   cells     the generation mirror that compiled code loads,             *)
(*   next      the next registration id.                                   *)
(* A slot's alias is {} or the singleton of a symbol, its native {} or the *)
(* singleton of a registration id, its resolved {} or the singleton of     *)
(* [at, verdict, target].                                                  *)
(***************************************************************************)
EXTENDS Integers, SequencesExt

CONSTANTS
  Names,       \* the names a program uses, without the sigil
  MaxLinks,    \* the links an alias chain is followed for, 64
  MaxGen       \* u32::MAX, where a generation saturates

ASSUME WordTableAssumption ==
  IsFiniteSet(Names) /\ MaxLinks \in Nat /\ MaxGen \in Nat \ {0}

Symbols == 1 .. Cardinality(Names)

EmptySlot ==
  [gen |-> 0, command |-> FALSE, alias |-> {}, lambda |-> FALSE, native |-> {},
   resolved |-> {}]

NewTable ==
  [names |-> <<>>, slots |-> [s \in Symbols |-> EmptySlot], len |-> 0,
   bindings |-> 0, cells |-> [s \in Symbols |-> 0], next |-> 0]

-----------------------------------------------------------------------------
(* The interner.                                                           *)

Interned(t, n) == \E s \in 1 .. Len(t.names) : t.names[s] = n

SymbolOf(t, n) == CHOOSE s \in 1 .. Len(t.names) : t.names[s] = n

Intern(t, n) == IF Interned(t, n) THEN t ELSE [t EXCEPT !.names = Append(@, n)]

-----------------------------------------------------------------------------
(* Resolution.  It reads the bindings of the slots and nothing else.       *)

Bindings(t) ==
  [s \in Symbols |->
     [command |-> t.slots[s].command, alias |-> t.slots[s].alias,
      lambda |-> t.slots[s].lambda, native |-> t.slots[s].native]]

Linked(b, s) == b[s].alias # {}
Link(b, s) == CHOOSE p \in b[s].alias : TRUE

Hop(b, s) == IF Linked(b, s) THEN Link(b, s) ELSE s

(* Where the chain from s stands after k links; it stays at its end.       *)
Along(b, s) ==
  LET hop[k \in 0 .. MaxLinks + 1] == IF k = 0 THEN s ELSE Hop(b, hop[k - 1])
  IN hop

(* The loop stops after MaxLinks + 1 links, wherever a cycle has taken it. *)
Follow(b, s) == IF Linked(b, s) THEN Along(b, s)[MaxLinks + 1] ELSE s

(* A command answers on the name's own slot, before any alias.             *)
Fresh(b, s, sigil) ==
  LET target == Follow(b, s)
  IN IF b[s].command THEN [verdict |-> "command", target |-> s]
     ELSE IF ~sigil /\ b[target].lambda THEN [verdict |-> "lambda", target |-> target]
     ELSE IF b[target].native # {} THEN [verdict |-> "native", target |-> target]
     ELSE [verdict |-> "unbound", target |-> target]

Resolve(t, s, sigil) == Fresh(Bindings(t), s, sigil)

(* The answer kept on the slot, if it was given at the present epoch.      *)
Kept(t, s) == {r \in t.slots[s].resolved : r.at = t.bindings}

ResolveTo(t, s, sigil) ==
  IF ~sigil /\ Kept(t, s) # {}
  THEN LET r == CHOOSE r \in Kept(t, s) : TRUE
       IN [verdict |-> r.verdict, target |-> r.target]
  ELSE Resolve(t, s, sigil)

(* The table after resolve_to: a plain answer is left on an allocated slot.*)
Remember(t, s, sigil) ==
  IF sigil \/ s > t.len THEN t
  ELSE LET a == ResolveTo(t, s, FALSE)
       IN [t EXCEPT !.slots[s].resolved =
             {[at |-> t.bindings, verdict |-> a.verdict, target |-> a.target]}]

(* Mutated: the fast moves one link, as the slow does after it. *)
AliasCycles_OneSpeed(t, s) ==
  LET b == Bindings(t)
      walk[i \in 0 .. 2 * Cardinality(Names)] == IF i = 0 THEN s ELSE Hop(b, walk[i - 1])
  IN \E i \in 1 .. Cardinality(Names) :
       /\ \A k \in 0 .. i - 1 : Linked(b, walk[k])
       /\ walk[i] = walk[i + 1]

(* Floyd: the slow and the fast meet before the fast falls off the chain.  *)
AliasCycles(t, s) ==
  LET b == Bindings(t)
      walk[i \in 0 .. 2 * Cardinality(Names)] == IF i = 0 THEN s ELSE Hop(b, walk[i - 1])
  IN \E i \in 1 .. Cardinality(Names) :
       /\ \A k \in 0 .. 2 * i - 1 : Linked(b, walk[k])
       /\ walk[i] = walk[2 * i]

-----------------------------------------------------------------------------
(* The writers.  Each goes through touch.                                  *)

Alloc(t, s) == [t EXCEPT !.len = IF s > @ THEN s ELSE @]

Bumped(g) == IF g < MaxGen THEN g + 1 ELSE g

Touch(t, s) ==
  LET g == Bumped(t.slots[s].gen)
  IN [Alloc(t, s) EXCEPT !.slots[s].gen = g, !.bindings = @ + 1, !.cells[s] = g]

RegisterNative(t, n) ==
  LET i == Intern(t, n)
      s == SymbolOf(i, n)
  IN Touch([i EXCEPT !.slots[s].native = {t.next}, !.next = @ + 1], s)

RegisterLambda(t, n) ==
  LET i == Intern(t, n)
      s == SymbolOf(i, n)
  IN Touch([i EXCEPT !.slots[s].lambda = TRUE], s)

RegisterCommand(t, n) ==
  LET i == Intern(t, n)
      s == SymbolOf(i, n)
  IN Touch([i EXCEPT !.slots[s].command = TRUE], s)

RegisterAlias(t, n, target) ==
  LET i == Intern(Intern(t, target), n)
      s == SymbolOf(i, n)
  IN Touch([i EXCEPT !.slots[s].alias = {SymbolOf(i, target)}], s)

UnregisterAlias(t, n) ==
  IF ~Interned(t, n) THEN t
  ELSE LET s == SymbolOf(t, n) IN Touch([t EXCEPT !.slots[s].alias = {}], s)

(* A symbol whose slot was never allocated is left alone.                  *)
UnregisterLambda(t, n) ==
  IF ~Interned(t, n) \/ SymbolOf(t, n) > t.len THEN t
  ELSE LET s == SymbolOf(t, n) IN Touch([t EXCEPT !.slots[s].lambda = FALSE], s)

(* The test seam: the generation 2^32 rewrites would leave.                *)
SaturateGeneration(t, s) ==
  [Alloc(t, s) EXCEPT !.slots[s].gen = MaxGen, !.cells[s] = MaxGen]

-----------------------------------------------------------------------------
(* Mutated: a slot at the last generation is planned too. *)
InlineSite_Saturated(t, n, sigil) ==
  IF sigil \/ ~Interned(t, n) THEN {}
  ELSE LET s == SymbolOf(t, n)
           k == t.slots[s]
       IN IF Follow(Bindings(t), s) # s \/ s > t.len \/ k.command \/ k.lambda
          THEN {}
          ELSE {[sym |-> s, registration |-> i, generation |-> k.gen,
                 aliased |-> k.alias # {}] : i \in k.native}

(* What a compiler may inline at a call of n: {} or the singleton of the   *)
(* site, the registration it may inline and the generation to guard on;    *)
(* aliased, a history, says its own slot had an alias at the time.         *)
InlineSite(t, n, sigil) ==
  IF sigil \/ ~Interned(t, n) THEN {}
  ELSE LET s == SymbolOf(t, n)
           k == t.slots[s]
       IN IF \/ Follow(Bindings(t), s) # s
             \/ s > t.len
             \/ k.command \/ k.lambda \/ k.native = {}
             \/ k.gen = MaxGen
          THEN {}
          ELSE {[sym |-> s, registration |-> i, generation |-> k.gen,
                 aliased |-> k.alias # {}] : i \in k.native}

(* The guard compiled into the site: the cell still has the generation.    *)
GuardPasses(t, site) == t.cells[site.sym] = site.generation
=============================================================================
