------------------------------- MODULE Tier0 --------------------------------
(***************************************************************************)
(* A body as tier 0 runs it (Interp::apply_step in                         *)
(* crates/bund2-interp/src/lib.rs): one value after another, and a body a  *)
(* value calls before the value that follows.                              *)
(***************************************************************************)
EXTENDS Natives

VARIABLES
  body,        \* the values of the body
  vm,          \* the interpreter
  todo,        \* what is left of the bodies called, the innermost first
  at,          \* the next value of the body
  outcome      \* "running", "done", "failed", or "exited"

vars == <<body, vm, todo, at, outcome>>

-----------------------------------------------------------------------------
Init ==
  /\ todo = <<>> /\ at = 1
  /\ outcome = IF body = <<>> THEN "done" ELSE "running"

Now == IF todo # <<>> THEN Head(todo) ELSE body[at]
Result == Apply(vm, Now, IF todo # <<>> THEN at ELSE at + 1)

Next ==
  /\ outcome = "running"
  /\ vm' = Result.vm
  /\ todo' = After(Result, IF todo # <<>> THEN Tail(todo) ELSE <<>>)
  /\ at' = IF todo # <<>> THEN at ELSE at + 1
  /\ outcome' = IF Ended(Result) = "running" /\ todo' = <<>> /\ at' > Len(body)
                THEN "done" ELSE Ended(Result)
  /\ UNCHANGED body

Spec == Init /\ [][Next]_vars
=============================================================================
