------------------------------- MODULE Words -------------------------------
(***************************************************************************)
(* One interpreter's word table under a running program: words are bound,  *)
(* aliased, unbound and called in any order, and a compiler plans to       *)
(* inline one call site and runs the inlined fragment while its guard      *)
(* passes (Interp::inline_site and dispatch in crates/bund2-interp/src/    *)
(* lib.rs, the registry's writers in crates/bund2-api/src/lib.rs).         *)
(***************************************************************************)
EXTENDS WordTable

CONSTANTS
  Natives, Commands, Lambdas,  \* the names a program binds as each
  Aliases,                     \* the <<alias, target>> pairs it binds
  Sites,                       \* the names a compiled body calls
  MaxBindings                  \* bound: the writes of a run

ASSUME WordsAssumption ==
  /\ Natives \cup Commands \cup Lambdas \cup Sites \subseteq Names
  /\ Aliases \subseteq Names \X Names

VARIABLES
  table,    \* the word table
  site      \* {} or the singleton of the inlined site

vars == <<table, site>>

Init == table = NewTable /\ site = {}

Writes(t) ==
  /\ t.bindings <= MaxBindings
  /\ table' = t
  /\ UNCHANGED site

BindNative == \E n \in Natives : Writes(RegisterNative(table, n))
BindCommand == \E n \in Commands : Writes(RegisterCommand(table, n))
BindLambda == \E n \in Lambdas : Writes(RegisterLambda(table, n))
BindAlias == \E p \in Aliases : Writes(RegisterAlias(table, p[1], p[2]))
UnbindAlias == \E p \in Aliases : Writes(UnregisterAlias(table, p[1]))
UnbindLambda == \E n \in Lambdas : Writes(UnregisterLambda(table, n))
Saturate == \E n \in Sites : Interned(table, n) /\ Writes(SaturateGeneration(table, SymbolOf(table, n)))

(* A call looks the name up without interning it, and resolves.            *)
Call ==
  \E n \in Names, sigil \in BOOLEAN :
    /\ Interned(table, n)
    /\ Writes(Remember(table, SymbolOf(table, n), sigil))

(* A body is compiled with a call of n in it.                              *)
Inline ==
  \E n \in Sites, sigil \in BOOLEAN :
    /\ InlineSite(table, n, sigil) # {}
    /\ site' = InlineSite(table, n, sigil)
    /\ UNCHANGED table

Next ==
  \/ BindNative \/ BindCommand \/ BindLambda \/ BindAlias
  \/ UnbindAlias \/ UnbindLambda \/ Saturate \/ Call \/ Inline

Spec == Init /\ [][Next]_vars

-----------------------------------------------------------------------------
(* An answer dispatch takes from a slot is the one it would work out now:  *)
(* every write that can change what any name means, through any chain of   *)
(* aliases, has made every kept answer stale.                              *)
CacheSound ==
  \A s \in 1 .. Len(table.names) : ResolveTo(table, s, FALSE) = Resolve(table, s, FALSE)

(* A fragment whose guard passes runs what an ordinary call of the name    *)
(* would run: the native of its own slot, by the registration it was       *)
(* compiled for.                                                           *)
RunsAsCalled(x) ==
  /\ Resolve(table, x.sym, FALSE) = [verdict |-> "native", target |-> x.sym]
  /\ table.slots[x.sym].native = {x.registration}

(* The guard is enough for a site whose own slot carried no alias when it  *)
(* was planned: one generation dates everything such a call depends on.    *)
GuardSound ==
  \A x \in site : (~x.aliased /\ GuardPasses(table, x)) => RunsAsCalled(x)

(* The alias word warns of a cycle exactly when the chain never ends.      *)
Endless(b, s) ==
  LET hop[k \in 0 .. Cardinality(Names)] == IF k = 0 THEN s ELSE Hop(b, hop[k - 1])
  IN Linked(b, hop[Cardinality(Names)])

CycleTold ==
  \A s \in 1 .. Len(table.names) : AliasCycles(table, s) <=> Endless(Bindings(table), s)
=============================================================================
