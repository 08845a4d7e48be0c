-------------------------------- MODULE Jit ---------------------------------
(***************************************************************************)
(* A compiled body (crates/bund2-jit/src/lower.rs): what the code that     *)
(* emit_into lays down does, value by value, until it returns.             *)
(*                                                                         *)
(* Number literals and the results of inlined sites are held in registers  *)
(* and pushed before anything could look for them.  A site runs its        *)
(* fragment's ops instead of calling; whenever what it was compiled        *)
(* against no longer holds, the held values are pushed and the rest of the *)
(* body is applied value by value, and the code never comes back.  A call  *)
(* that produces nothing may be made with values held below its operands.  *)
(* Everything else is a call of the interpreter.                           *)
(*                                                                         *)
(* Bodies run by the interpreter on the way are run as in Tier0.  Whether  *)
(* a body is worth compiling is the tier's business: any is here.          *)
(***************************************************************************)
EXTENDS Natives

CONSTANTS
  Bodies,                   \* the bodies that may be compiled
  Machines,                 \* the interpreters that may run one
  Crossable                 \* the natives the compiler is told it may cross

(* A name bound anew since the compiler saw it shows by its generation,    *)
(* while that counts.                                                      *)
SeenBy(b, m) ==
  \A n \in Names :
    /\ b.gen[n] <= m.gen[n]
    /\ (b.gen[n] = m.gen[n] /\ b.gen[n] < MaxGen) => b.native[n] = m.native[n]

(* The natives that produce nothing on the stack and read no more of it    *)
(* than they take, which the compiler asks of one it may cross.            *)
MayCross == {"return", "+.", "nl", "stacks_left", "exit", "oops", "bind+", "bindnl"}

ASSUME JitAssumption ==
  /\ Half \in Nat \ {0} /\ MaxGen \in Nat
  /\ LambdaOf \in [Names -> Seq(Values)] /\ Bodies \subseteq Seq(Values)
  /\ Crossable \subseteq MayCross
  /\ \A m \in Machines :
       /\ IsVm(m.vm) /\ ~m.vm.exit
       /\ m.built.native \in [Names -> BOOLEAN] /\ m.built.gen \in [Names -> Nat]
       /\ SeenBy(m.built, m.vm)

VARIABLES
  body,      \* the values of the body
  built,     \* what the compiler saw of the names: [native, gen]
  sunk,      \* whether the machine stack is beneath the floor of compiled code
  vm,        \* the interpreter
  regs,      \* the numbers held, the deepest first
  at,        \* the next value of the body
  todo,      \* what is left of the bodies called
  frame,     \* where the body's frame says it is
  mode,      \* "entry", "code", "residual" or "tier0"
  called,    \* whether the code has yet to look at the collecting mode again
  verdict    \* "none", "ok", "failed", "exited" or "reported"

code == <<body, built, sunk>>
vars == <<code, vm, regs, at, todo, frame, mode, called, verdict>>

(* What held values are on the stack, and the interpreter once they are.   *)
Numbers(rs) == [i \in DOMAIN rs |-> Number(rs[i])]
Synced(m, rs) == PushAll(m, Numbers(rs))

-----------------------------------------------------------------------------
(* Fragments: a guard, and ops over a file of registers that a pop rotates.*)

Pop == [op |-> "pop", a |-> 0, b |-> 0]
Keep == [op |-> "push", a |-> 0, b |-> 0]
KeepBool == [op |-> "bool", a |-> 0, b |-> 0]
Arith(op, a, b) == [op |-> op, a |-> a, b |-> b]
OnStack(op) == <<[op |-> op, a |-> 0, b |-> 0]>>
TopAreInt(ops) == [ints |-> TRUE, needs |-> 2, ops |-> ops]
DepthOf(n, ops) == [ints |-> FALSE, needs |-> n, ops |-> ops]

(* Mutated: the operands are taken the other way round.                    *)
Fragments_Swapped ==
  [n \in {"+", "-", "<", "swap_one", "dup_one", "drop"} |->
     CASE n = "+" -> TopAreInt(<<Pop, Pop, Arith("add", 1, 2), Keep>>)
       [] n = "-" -> TopAreInt(<<Pop, Pop, Arith("sub", 1, 2), Keep>>)
       [] n = "<" -> TopAreInt(<<Pop, Pop, Arith("lt", 2, 1), KeepBool>>)
       [] n = "swap_one" -> DepthOf(2, OnStack("swap"))
       [] n = "dup_one" -> DepthOf(1, OnStack("dup"))
       [] n = "drop" -> DepthOf(1, OnStack("drop"))]

Fragments ==
  [n \in {"+", "-", "<", "swap_one", "dup_one", "drop"} |->
     CASE n = "+" -> TopAreInt(<<Pop, Pop, Arith("add", 1, 2), Keep>>)
       [] n = "-" -> TopAreInt(<<Pop, Pop, Arith("sub", 2, 1), Keep>>)
       [] n = "<" -> TopAreInt(<<Pop, Pop, Arith("lt", 2, 1), KeepBool>>)
       [] n = "swap_one" -> DepthOf(2, OnStack("swap"))
       [] n = "dup_one" -> DepthOf(1, OnStack("dup"))
       [] n = "drop" -> DepthOf(1, OnStack("drop"))]

Admits(m, fr) ==
  /\ Depth(m) >= fr.needs
  /\ fr.ints => \A k \in 1 .. fr.needs : Peek(m, k).kind = "int"

(* Ops that reach for the stack find their operands only there.            *)
TakesRegisters(fr) ==
  fr.ints /\ \A i \in DOMAIN fr.ops : fr.ops[i].op \in {"pop", "push", "add", "sub"}

(* One op, on [vm, regs, file].                                            *)
Computed(op, x, y) ==
  CASE op = "add" -> Wrap(x + y)
    [] op = "sub" -> Wrap(x - y)
    [] op = "lt" -> IF x < y THEN 1 ELSE 0

Emitted(s, o) ==
  CASE o.op = "pop" /\ s.regs # <<>> ->
         [s EXCEPT !.regs = Front(@), !.file = <<Last(s.regs), @[1]>>]
    [] o.op = "pop" /\ s.regs = <<>> ->
         [s EXCEPT !.vm = Drop(@, 1), !.file = <<Peek(s.vm, 1).n, @[1]>>]
    [] o.op = "push" -> [s EXCEPT !.regs = Append(@, s.file[1])]
    [] o.op = "bool" -> [s EXCEPT !.vm = Push(@, Of("bool", s.file[1]))]
    [] o.op \in {"add", "sub", "lt"} ->
         [s EXCEPT !.file[1] = Computed(o.op, s.file[o.a], s.file[o.b])]
    [] o.op = "swap" ->
         [s EXCEPT !.vm = PushAll(Drop(@, 2), <<Peek(@, 1), Peek(@, 2)>>)]
    [] o.op = "dup" -> [s EXCEPT !.vm = Push(@, Peek(@, 1))]
    [] o.op = "drop" -> [s EXCEPT !.vm = Drop(@, 1)]

Ran(fr, m, rs) ==
  LET ran[i \in 0 .. Len(fr.ops)] ==
        IF i = 0 THEN [vm |-> m, regs |-> rs, file |-> <<0, 0>>]
        ELSE Emitted(ran[i - 1], fr.ops[i])
  IN ran[Len(fr.ops)]

-----------------------------------------------------------------------------
(* The plan, made of what the compiler saw.  A name whose generation has   *)
(* stopped counting could be bound anew unseen, and is called.             *)

Sure(n) == built.native[n] /\ built.gen[n] < MaxGen
IsCall(v) == v \in Names \cup Commands
Inlined(v) == v \in DOMAIN Fragments /\ Sure(v)
IsLiteral(v) == v \in {"1", "3"}
Takes(n) == IF n \in {"return", "+."} THEN 1 ELSE 0
Crosses(v) == v \in Crossable /\ Sure(v)

(* The last value is the body's tail when it is a call left to be made.    *)
Tail0 == body # <<>> /\ IsCall(Last(body)) /\ ~Inlined(Last(body))
Here == body[at]
TailHere == at = Len(body) /\ Tail0
Fresh(n) == vm.gen[n] = built.gen[n]

-----------------------------------------------------------------------------
Init ==
  /\ body \in Bodies /\ \E m \in Machines : vm = m.vm /\ built = m.built
  /\ sunk \in BOOLEAN
  /\ regs = <<>> /\ at = 1 /\ todo = <<>> /\ frame = 0
  /\ mode = "entry" /\ called = FALSE /\ verdict = "none"

(* The entry declines beneath the floor, and in the collecting mode.       *)
Enter ==
  /\ mode = "entry"
  /\ mode' = (IF sunk \/ vm.autoadd THEN "tier0" ELSE "code")
  /\ UNCHANGED <<code, vm, regs, at, todo, frame, called, verdict>>

(* The code is at a value; what it called has run and left it in force.    *)
At == mode = "code" /\ verdict = "none" /\ todo = <<>> /\ ~called /\ at <= Len(body)

(* The rest of the body is applied from a value on.                        *)
ToResidual == vm' = Synced(vm, regs) /\ regs' = <<>> /\ mode' = "residual"

Promote ==
  /\ At /\ IsLiteral(Here)
  /\ regs' = Append(regs, Literals[Here].n) /\ at' = at + 1
  /\ UNCHANGED <<code, vm, todo, frame, mode, called, verdict>>

GuardsHold(n) == Fresh(n) /\ ~vm.autoadd

FromRegisters(fr) == TakesRegisters(fr) /\ Len(regs) >= fr.needs

(* What lies below a site's operands is pushed; its result is held.        *)
InlineHeld ==
  /\ At /\ Inlined(Here) /\ FromRegisters(Fragments[Here]) /\ GuardsHold(Here)
  /\ LET excess == Len(regs) - Fragments[Here].needs
         ran == Ran(Fragments[Here], Synced(vm, SubSeq(regs, 1, excess)),
                    SubSeq(regs, excess + 1, Len(regs)))
     IN vm' = ran.vm /\ regs' = ran.regs
  /\ at' = at + 1 /\ UNCHANGED <<code, todo, frame, mode, called, verdict>>

InlineStack ==
  /\ At /\ Inlined(Here) /\ ~FromRegisters(Fragments[Here])
  /\ Admits(Synced(vm, regs), Fragments[Here]) /\ GuardsHold(Here)
  /\ LET ran == Ran(Fragments[Here], Synced(vm, regs), <<>>)
     IN vm' = ran.vm /\ regs' = ran.regs
  /\ at' = at + 1 /\ UNCHANGED <<code, todo, frame, mode, called, verdict>>

Refused ==
  /\ At /\ Inlined(Here)
  /\ \/ ~GuardsHold(Here)
     \/ ~FromRegisters(Fragments[Here]) /\ ~Admits(Synced(vm, regs), Fragments[Here])
  /\ ToResidual /\ UNCHANGED <<code, at, todo, frame, called, verdict>>

-----------------------------------------------------------------------------
(* Calls of the interpreter.  Each moves the frame past its value; an exit *)
(* requested is an error at once.                                          *)

Answered(r) == verdict' = (IF Ended(r) = "running" THEN "none" ELSE Ended(r))

Applied(m) ==
  LET r == Apply(m, Here, at + 1) IN
    /\ vm' = r.vm /\ Answered(r) /\ todo' = After(r, <<>>)
    /\ frame' = at + 1 /\ at' = at + 1

Call ==
  /\ At /\ ~Inlined(Here) /\ ~IsLiteral(Here)
  /\ TailHere \/ ~Crosses(Here)
  /\ Applied(Synced(vm, regs)) /\ regs' = <<>>
  /\ called' = ~TailHere /\ UNCHANGED <<code, mode>>

(* The operands of a crossed call are pushed and the values below held.    *)
(* They are pushed after it fails, and given up if it left the stack.      *)
Held == SubSeq(regs, 1, Len(regs) - Min({Takes(Here), Len(regs)}))
Operands == SubSeq(regs, Len(Held) + 1, Len(regs))

Crossing == At /\ ~Inlined(Here) /\ ~TailHere /\ Crosses(Here)

Cross ==
  /\ Crossing /\ Fresh(Here)
  /\ LET r == Apply(Synced(vm, Operands), Here, at + 1)
         steady == r.vm.epoch = vm.epoch
     IN /\ todo' = After(r, <<>>)
        /\ IF Ended(r) # "running"
           THEN vm' = Synced(r.vm, Held) /\ regs' = <<>> /\ Answered(r)
           ELSE IF steady THEN vm' = r.vm /\ regs' = Held /\ Answered(r)
           ELSE vm' = r.vm /\ regs' = <<>> /\ verdict' = "reported"
  /\ frame' = at + 1 /\ at' = at + 1 /\ called' = TRUE /\ UNCHANGED <<code, mode>>

CrossStale ==
  /\ Crossing /\ ~Fresh(Here)
  /\ ToResidual /\ UNCHANGED <<code, at, todo, frame, called, verdict>>

(* A body that was called runs, whoever drains it.                         *)
Callee ==
  /\ verdict = "none" /\ todo # <<>>
  /\ LET r == Apply(vm, Head(todo), frame) IN
       vm' = r.vm /\ Answered(r) /\ todo' = After(r, Tail(todo))
  /\ UNCHANGED <<code, regs, at, frame, mode, called>>

(* Back from a call: on in the code, or in the residual if it collects.    *)
Back ==
  /\ mode = "code" /\ verdict = "none" /\ called /\ todo = <<>>
  /\ called' = FALSE
  /\ IF vm.autoadd THEN ToResidual ELSE UNCHANGED <<vm, regs, mode>>
  /\ UNCHANGED <<code, at, todo, frame, verdict>>

(* The residual and tier 0 apply the values one by one.                    *)
Value ==
  /\ mode \in {"residual", "tier0"} /\ verdict = "none" /\ todo = <<>> /\ at <= Len(body)
  /\ Applied(vm) /\ UNCHANGED <<code, regs, mode, called>>

(* What is held is pushed last.  A tail call's body is asked of whoever    *)
(* drives the code, and has run by then.                                   *)
Return ==
  /\ mode # "entry" /\ verdict = "none" /\ todo = <<>> /\ at > Len(body) /\ ~called
  /\ vm' = Synced(vm, regs) /\ regs' = <<>> /\ verdict' = "ok"
  /\ UNCHANGED <<code, at, todo, frame, mode, called>>

Next ==
  \/ Enter \/ Promote \/ InlineHeld \/ InlineStack \/ Refused
  \/ Call \/ Cross \/ CrossStale \/ Callee \/ Back \/ Value \/ Return

Spec == Init /\ [][Next]_vars

-----------------------------------------------------------------------------
(* The interpreter as the program has to find it: everything held is on    *)
(* the stack; and a body is over as soon as its last value is.             *)
Seen == Synced(vm, regs)
Outcome ==
  IF verdict = "none" THEN IF todo = <<>> /\ at > Len(body) THEN "done" ELSE "running"
  ELSE IF verdict = "ok" THEN "done" ELSE verdict

Reference == INSTANCE Tier0 WITH vm <- Seen, outcome <- Outcome

(* Two steps of a crossed call are not tier 0's.  One is reported as a     *)
(* fault of Bund2's own: the callee left the stack the held values are of. *)
Reported == verdict' = "reported" /\ vm'.epoch # vm.epoch

(* The other goes unnoticed: a callee that fails with operands still in    *)
(* place finds the held values pushed above them, and not below.  Nothing  *)
(* else differs.                                                           *)
Disordered ==
  /\ verdict' = "failed" /\ Reference!Ended(Reference!Result) = "failed"
  /\ LET left == Reference!Result.vm
         items == Items(left)
     IN \E i, j \in 0 .. Len(items) :
          /\ i < j /\ SubSeq(items, i + 1, j) = Numbers(Held)
          /\ vm' = [left EXCEPT !.stack[left.current] =
                      SubSeq(items, 1, i) \o SubSeq(items, j + 1, Len(items)) \o Numbers(Held)]

(* Whatever the body, the words bound since it was compiled, the values it *)
(* finds and the bodies it calls, each of its steps is tier 0's step or    *)
(* none at all: the values, their order and the stack they are on, what a  *)
(* word that looks around sees and where it is told the body is, the mode, *)
(* the exit and the error.  But for the two steps above.                   *)
AsTier0 ==
  /\ Reference!Init
  /\ [][Reference!Next \/ Reported \/ Disordered]_<<body, Seen, todo, at, Outcome>>
=============================================================================
