------------------------------- MODULE Bridge -------------------------------
(***************************************************************************)
(* Bridges (crates/bund2-stdlib/src/kb/bridge.rs): where a query re-enters *)
(* the program.  A bridge, or the question an `ask` puts, runs a lambda on *)
(* a scratch stack, reads the value it left there, and brings the caller's *)
(* stack back.  The lambda is any sequence of the words of Stacks, and a   *)
(* query in it may run bridges of its own, so activations nest; one that   *)
(* fails ends as one that does not (scoped_frame of                        *)
(* crates/bund2-interp/src/lib.rs: the frame's exit action runs either     *)
(* way).                                                                   *)
(*                                                                         *)
(* made is a history: the stacks that program words have created and not   *)
(* dropped.                                                                *)
(***************************************************************************)
EXTENDS Stacks

CONSTANT MaxBridges   \* bound: bridges running at once

VARIABLES
  pool,      \* the scratch name kept for each depth
  active,    \* the bridges running, outermost first: [name, prev]
  made

bridgeVars == <<stacks, bench, contexts, crossing, pool, active, made>>

Scratch == {active[i].name : i \in DOMAIN active}

(* fresh_name answers a name that occurs nowhere.                          *)
Unused ==
  {f \in FreshNames :
     /\ f \notin StackNames(stacks) \cup ToSet(pool) \cup ToSet(bench) \cup ToSet(contexts)
     /\ \A n \in StackNames(stacks) : f \notin ToSet(Get(stacks, n).items)}

BridgeInit ==
  /\ Init
  /\ pool = <<>>
  /\ active = <<>>
  /\ made = {Main}

(* Mutated: a name the program has taken since is not noticed. *)
ScratchPool_Unchecked(d) ==
  IF d > Len(pool) THEN {Append(pool, f) : f \in Unused} ELSE {pool}

(* scratch_name: the pool once depth d has a name no stack goes by.        *)
ScratchPool(d) ==
  IF d > Len(pool) THEN {Append(pool, f) : f \in Unused}
  ELSE IF Has(stacks, pool[d]) THEN {[pool EXCEPT ![d] = f] : f \in Unused}
  ELSE {pool}

(* Depth::enter and the way into scoped_call: the body's frame is pushed   *)
(* with the way back, and the scratch stack is current.                    *)
BridgeBegins ==
  LET d == Len(active) + 1
  IN /\ d <= MaxBridges
     /\ pool' \in ScratchPool(d)
     /\ active' = Append(active, [name |-> pool'[d], prev |-> Here])
     /\ Leaves(ToStack(stacks, pool'[d]))
     /\ Quiet
     /\ UNCHANGED made

(* No Rust stack is left: the call is refused before it switches.          *)
BridgeRefused ==
  LET d == Len(active) + 1
  IN /\ d <= MaxBridges
     /\ pool' \in ScratchPool(d)
     /\ UNCHANGED <<stacks, bench, contexts, crossing, active, made>>

(* Mutated: only the guard brings the caller's stack back. *)
Returned_GuardOnly(s, a, fresh) ==
  LET read == PullFrom(s, a.name)
      off == IF read.current.name = a.name THEN ToStack(read, a.prev) ELSE read
  IN DropNamed(off, a.name, fresh)

(* The frame's exit action, then the rest of run: pull_from, the guard     *)
(* against a Vm that did not come back, drop_stack.                        *)
Returned(s, a, fresh) ==
  LET back == ToStack(s, a.prev)
      read == PullFrom(back, a.name)
      off == IF read.current.name = a.name THEN ToStack(read, a.prev) ELSE read
  IN DropNamed(off, a.name, fresh)

BridgeEnds ==
  /\ active # <<>>
  /\ LET a == active[Len(active)]
     IN /\ \E fresh \in Fresh : Leaves(Returned(stacks, a, fresh))
        /\ made' = (made \cup {a.prev}) \ {a.name}
  /\ active' = PopBack(active)
  /\ Quiet
  /\ UNCHANGED pool

(* A word of the program, inside a bridge or outside.                      *)
ProgramWord ==
  /\ Next
  /\ made' = (made \cap StackNames(stacks)') \cup (StackNames(stacks)' \ StackNames(stacks))
  /\ UNCHANGED <<pool, active>>

BridgeNext == ProgramWord \/ BridgeBegins \/ BridgeRefused \/ BridgeEnds

BridgeSpec == BridgeInit /\ [][BridgeNext]_bridgeVars

-----------------------------------------------------------------------------
(* Properties.                                                             *)

(* Whatever a lambda does, and although it may drop its scratch stack, the *)
(* caller's, or the whole ring, the caller's stack is current again when   *)
(* its bridge has ended, and the scratch stack is gone (bridge.rs: "the    *)
(* current stack is the same before and after a bridge or a question").    *)
CallerBack ==
  [][Len(active') < Len(active) =>
       LET a == active[Len(active)]
       IN stacks'.current.name = a.prev /\ ~Has(stacks', a.name)]_bridgeVars

(* Apart from the scratch stacks of the bridges that run, the stacks are   *)
(* exactly those the program made: no bridge leaves one behind, and none   *)
(* drops one that the program made under a name of the pool                *)
(* (scratch_name: "If a stack of that name already exists, the program     *)
(* made it").                                                              *)
OnlyTheProgramsStacks == StackNames(stacks) \ Scratch = made \ Scratch

(* The ring turns as the reference's deque whoever turns it: the program,  *)
(* a lambda, or a bridge that goes to its scratch stack (stacks.rs: "the   *)
(* others after it in the reference's cyclic order").  Steps that drop the *)
(* current stack are left out: they make the next name of the ring         *)
(* current, where the reference's deque takes the previous one.            *)
BridgesTurnAsReference ==
  [][\/ UNCHANGED stacks.order \/ Reference!Next
     \/ DropStack \/ EndContext \/ BridgeEnds]_bridgeVars
=============================================================================
