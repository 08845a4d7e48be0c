------------------------------ MODULE Natives ------------------------------
(***************************************************************************)
(* One value applied (Interp::apply and Interp::dispatch in                *)
(* crates/bund2-interp/src/lib.rs), and the natives a body may call.       *)
(*                                                                         *)
(* The words are the ones a code generator has to tell apart: those it may *)
(* inline, those it may call with values held back, those that read what   *)
(* they do not take, and those that change what it relied on.  Numbers are *)
(* narrowed to 2 * Half values and wrap; all text is one text, and a list  *)
(* keeps what was given to it.                                             *)
(***************************************************************************)
EXTENDS Integers, Sequences, SequencesExt

CONSTANTS
  Half,        \* numbers run from -Half to Half - 1
  MaxGen,      \* where a name's generation stops counting
  LambdaOf     \* the body a name is bound to when it is not a native

(* Values.                                                                 *)

Wrap(n) == ((n + Half) % (2 * Half)) - Half
Of(kind, n) == [kind |-> kind, n |-> n, given |-> <<>>]
Number(n) == Of("int", Wrap(n))
Bool(b) == Of("bool", IF b THEN 1 ELSE 0)
Text == Of("text", 0)
Name(n) == Of(n, 0)
AreInt(x, y) == x.kind = "int" /\ y.kind = "int"

IsText(x) == x.kind \notin {"int", "bool", "list"}   \* calls and contexts are

Literals ==
  [v \in {"1", "3", "text", "list"} |->
     CASE v = "1" -> Number(1) [] v = "3" -> Number(3)
       [] v = "text" -> Text [] v = "list" -> Of("list", 0)]
Contexts == {"@main", "@other"}
Commands == {":", ";"}
Stacks == {"main", "other"}
StackOf(c) == IF c = "@main" THEN "main" ELSE "other"
Other(s) == IF s = "main" THEN "other" ELSE "main"

(* The interpreter: its stacks, the current one and how often it changed,  *)
(* the workbench, the collecting mode, whether each name is bound to its   *)
(* native and how often it was bound anew, whether an exit was requested,  *)
(* and what a word that looks around saw last.                             *)
Items(m) == m.stack[m.current]
Push(m, x) == [m EXCEPT !.stack[m.current] = Append(@, x)]
PushAll(m, xs) == [m EXCEPT !.stack[m.current] = @ \o xs]
Depth(m) == Len(Items(m))
Drop(m, k) == [m EXCEPT !.stack[m.current] = SubSeq(@, 1, Len(@) - k)]
Peek(m, k) == Items(m)[Depth(m) - k + 1]          \* 1 is the top
To(m, s) == [m EXCEPT !.current = s, !.epoch = @ + (IF m.current = s THEN 0 ELSE 1)]
Rebound(m, n) == [m EXCEPT !.native[n] = ~@, !.gen[n] = IF @ < MaxGen THEN @ + 1 ELSE @]

Answer(m, ok) == [vm |-> m, filed |-> <<>>, ok |-> ok]
File(m, lambda) == [vm |-> m, filed |-> lambda, ok |-> TRUE]
Fine(m) == Answer(m, TRUE)
Refuse(m) == Answer(m, FALSE)

-----------------------------------------------------------------------------
(* The natives.  `ip` is where the body says it is.                        *)

(* Two operands are taken whatever they turn out to be.                    *)
Binary(m, answer) == IF Depth(m) < 2 THEN Refuse(m) ELSE answer

(* What x and y come to, x from the top, if anything.                      *)
NumericOp(op, x, y) ==
  CASE AreInt(x, y) -> <<Number(IF op = "add" THEN x.n + y.n ELSE x.n - y.n)>>
    [] x.kind = "int" /\ IsText(y) -> <<Text>>
    [] IsText(x) -> <<Text>>
    [] op = "add" /\ x.kind = "list" ->
         <<[x EXCEPT !.given = @ \o (IF y.kind = "list" THEN y.given ELSE <<y>>)]>>
    [] op = "add" /\ x.kind = "bool" /\ y.kind = "list" -> <<[y EXCEPT !.given = Append(@, x)]>>
    [] OTHER -> <<>>

Computing(m, op) ==
  LET results == NumericOp(op, Peek(m, 1), Peek(m, 2))
  IN Answer(PushAll(Drop(m, 2), results), results # <<>>)

(* Whether the top is less than what is beneath it.                        *)
Less(m) ==
  LET x == Peek(m, 1)
      y == Peek(m, 2)
  IN IF AreInt(x, y) THEN Fine(Push(Drop(m, 2), Bool(x.n < y.n))) ELSE Refuse(Drop(m, 2))

(* The sum with the workbench: what it is short of is asked first, and then *)
(* nothing is taken.                                                       *)
SumBench(m) ==
  IF Depth(m) < 1 \/ m.bench = <<>> THEN Refuse(m)
  ELSE LET results == NumericOp("add", Last(m.bench), Peek(m, 1))
       IN Answer([Drop(m, 1) EXCEPT !.bench = Front(@) \o results], results # <<>>)

SwapOne(m) == Binary(m, Fine(PushAll(Drop(m, 2), <<Peek(m, 1), Peek(m, 2)>>)))

DupOne(m) == IF Depth(m) < 1 THEN Refuse(m) ELSE Fine(Push(m, Peek(m, 1)))

DropWord(m) == IF Depth(m) < 1 THEN Refuse(m) ELSE Fine(Drop(m, 1))

ReturnWord(m) ==
  IF Depth(m) < 1 THEN Refuse(m)
  ELSE Fine([Drop(m, 1) EXCEPT !.bench = Append(@, Peek(m, 1))])

AutoaddEnable(m) ==
  IF m.autoadd \/ Depth(m) < 1 THEN Refuse(m) ELSE Fine([m EXCEPT !.autoadd = TRUE])

AutoaddDisable(m) ==
  IF ~m.autoadd \/ Depth(m) < 1 THEN Refuse(m) ELSE Fine([m EXCEPT !.autoadd = FALSE])

(* `look` is any word that reads the stack and the frames, `oops` any that *)
(* fails before it takes anything, and bind+ and bindnl bind `+` and `nl`  *)
(* to a lambda, or back to the native.                                     *)
Native(m, n, ip) ==
  CASE n = "+" -> Binary(m, Computing(m, "add"))
    [] n = "-" -> Binary(m, Computing(m, "sub"))
    [] n = "<" -> Binary(m, Less(m))
    [] n = "swap_one" -> SwapOne(m)
    [] n = "dup_one" -> DupOne(m)
    [] n = "drop" -> DropWord(m)
    [] n = "return" -> ReturnWord(m)
    [] n = "+." -> SumBench(m)
    [] n = "nl" -> Fine(m)
    [] n = "look" -> Fine([m EXCEPT !.seen = [stack |-> Items(m), ip |-> ip]])
    [] n = "oops" -> Refuse(m)
    [] n = "stacks_left" -> Fine(To(m, Other(m.current)))
    [] n = "exit" -> Fine([m EXCEPT !.exit = TRUE])
    [] n = "bind+" -> Fine(Rebound(m, "+"))
    [] n = "bindnl" -> Fine(Rebound(m, "nl"))
    [] n = ":" -> AutoaddEnable(m)
    [] n = ";" -> AutoaddDisable(m)

Names == {"+", "-", "<", "swap_one", "dup_one", "drop", "return", "+.", "nl", "look",
          "stacks_left", "exit", "oops", "bind+", "bindnl", "f"}

-----------------------------------------------------------------------------
(* One value is applied.                                                   *)

(* In the collecting mode a value is appended to the list on top, or takes *)
(* the place of what is no list.                                           *)
Collected(into, x) == IF into.kind = "list" THEN [into EXCEPT !.given = Append(@, x)] ELSE x

Collect(m, x) ==
  IF Depth(m) < 1 THEN Refuse(m) ELSE Fine(Push(Drop(m, 1), Collected(Peek(m, 1), x)))

Dispatch(m, n, ip) ==
  CASE n \in Commands -> Native(m, n, ip)
    [] n \notin Commands /\ m.autoadd -> Collect(m, Name(n))
    [] n \notin Commands /\ ~m.autoadd /\ ~m.native[n] -> File(m, LambdaOf[n])
    [] OTHER -> Native(m, n, ip)

Apply(m, v, ip) ==
  CASE v \in Contexts -> IF m.autoadd THEN Fine(Push(m, Name(v))) ELSE Fine(To(m, StackOf(v)))
    [] v \in DOMAIN Literals ->
         IF m.autoadd THEN Collect(m, Literals[v]) ELSE Fine(Push(m, Literals[v]))
    [] OTHER -> Dispatch(m, v, ip)

(* What comes of a value applied.  An error and an exit end the body and   *)
(* the ones it called.                                                     *)
After(r, rest) == IF r.ok /\ ~r.vm.exit THEN r.filed \o rest ELSE <<>>
Ended(r) == IF ~r.ok THEN "failed" ELSE IF r.vm.exit THEN "exited" ELSE "running"

-----------------------------------------------------------------------------
(* What a body may be made of, and what an interpreter is; `f` is bound to *)
(* a lambda for good.                                                      *)

Values == Names \cup Commands \cup Contexts \cup DOMAIN Literals

IsSeq(q) == q \in Seq({q[i] : i \in DOMAIN q})
IsItem(x) ==
  /\ x = [kind |-> x.kind, n |-> x.n, given |-> x.given]
  /\ x.kind = "int" => x.n \in Int
IsStack(q) == IsSeq(q) /\ \A i \in 1 .. Len(q) : IsItem(q[i])

IsVm(m) ==
  /\ m = [stack |-> m.stack, current |-> m.current, epoch |-> m.epoch, bench |-> m.bench,
          autoadd |-> m.autoadd, native |-> m.native, gen |-> m.gen, exit |-> m.exit,
          seen |-> m.seen]
  /\ m.stack = [s \in Stacks |-> m.stack[s]] /\ \A s \in Stacks : IsStack(m.stack[s])
  /\ m.current \in Stacks /\ m.epoch \in Nat
  /\ m.autoadd \in BOOLEAN /\ m.exit \in BOOLEAN
  /\ m.native \in [Names -> BOOLEAN] /\ ~m.native["f"] /\ m.gen \in [Names -> Nat]
=============================================================================
