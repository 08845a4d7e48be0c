------------------------------ MODULE FrameLoop ------------------------------
(***************************************************************************)
(* The interpreter's frame loop (Interp in crates/bund2-interp/src/lib.rs).*)
(*                                                                         *)
(* A body runs as a frame on a heap list, so that calls nest on the heap   *)
(* and not on the machine stack: a word that calls a word files a tail     *)
(* request, and the loop that ran the word pushes the frame.  A native     *)
(* that must see what a body left runs it synchronously instead: it calls  *)
(* back, and an inner loop runs the frames down to the floor it found.  A  *)
(* body may be compiled; then it runs as a Rust call, hands the body its   *)
(* last value filed back to where it was entered, and keeps a shadow frame *)
(* for whoever reads the list.                                             *)
(*                                                                         *)
(* Bodies are any bodies: what a value does is chosen when it is applied,  *)
(* and a body is how many values it has left.  Natives are any natives:    *)
(* they call back, catch failures or pass them on, file requests and fail. *)
(* As with every word of the repository, one that has filed a request does *)
(* nothing after it but return or fail; so a body never starts while its   *)
(* caller's request waits.                                                 *)
(***************************************************************************)
EXTENDS Naturals, Sequences, SequencesExt, FiniteSetsExt

CONSTANTS
  Names,      \* the stacks
  MaxBody,    \* bound on the values of a body
  MaxFrames,  \* bound on the frames
  RustRoom    \* how many calls deep the machine stack may get

None == "none"    \* no exit action, no answer

ASSUME FrameLoopAssumption ==
  /\ None \notin Names /\ Names # {}
  /\ MaxBody \in Nat /\ MaxFrames \in Nat /\ RustRoom \in Nat

VARIABLES
  frames,     \* the list of frames, each with the values left and the stack
              \* its exit action returns to
  pending,    \* the tail request: none, or the body to run
  requested,  \* the cell that mirrors it for compiled code
  current,    \* the current stack
  exiting,    \* whether an exit was requested
  rust,       \* the Rust calls, the innermost last
  answer,     \* what the innermost call has just been answered
  shadow      \* the shadow frame of the compiled body that runs, or 0

vars == <<frames, pending, requested, current, exiting, rust, answer, shadow>>

Bodies == 0..MaxBody
Frame(n, exit) == [left |-> n, exit |-> exit]
Top == Last(rust)
Native(filed) == [kind |-> "native", filed |-> filed]
Natives == {Native(FALSE), Native(TRUE)}

(* A synchronous call, or the program itself: a value applied, perhaps, a  *)
(* body started, and the loop down to the floor.                           *)
Call(kind, at, floor, back) ==
  [kind |-> kind, at |-> at, floor |-> floor, back |-> back]
Calls == {"program", "apply", "eval", "scoped"}
Drives(kinds, places) == rust # <<>> /\ Top.kind \in kinds /\ Top.at \in places
At(place) == Append(Front(rust), [Top EXCEPT !.at = place])
Runs(kind) == rust # <<>> /\ Top.kind = kind

Program == Call("program", "next", 0, None)

Init ==
  /\ frames = <<>> /\ pending = <<>> /\ requested = FALSE
  /\ current \in Names /\ exiting = FALSE
  /\ rust = <<Program>> /\ answer = None /\ shadow = 0

-----------------------------------------------------------------------------
(* Steps that several handlers share.                                      *)

Request(n) == pending' = <<n>> /\ requested' = TRUE
ClearRequest == pending' = <<>> /\ requested' = FALSE
KeepRequest == UNCHANGED <<pending, requested>>

(* Mutated: a synchronous call does not look whether its body exited.      *)
ExitGate_Open == "ok"

(* Once an exit is requested, every step refuses and every synchronous     *)
(* call ends in a refusal.                                                 *)
ExitGate == IF exiting THEN "err" ELSE "ok"

StackOk(calls) == Len(calls) < RustRoom

(* Frames above the floor are popped, their exit actions run on the way.   *)
StackAfter(floor) ==
  LET above == {i \in (floor + 1)..Len(frames) : frames[i].exit # None}
  IN  IF above = {} THEN current ELSE frames[Min(above)].exit

(* Mutated: one frame too many is popped.                                  *)
Unwind_Past(floor) ==
  /\ frames' = SubSeq(frames, 1, IF Len(frames) < floor THEN Len(frames) ELSE floor - 1)
  /\ current' = StackAfter(floor)

Unwind(floor) ==
  /\ frames' = SubSeq(frames, 1, IF Len(frames) < floor THEN Len(frames) ELSE floor)
  /\ current' = StackAfter(floor)

(* One value is applied, by the innermost of `calls`.                      *)
ApplyStep(calls) ==
  /\ UNCHANGED exiting
  /\ \/ /\ exiting
        /\ answer' = "err" /\ rust' = calls /\ KeepRequest /\ UNCHANGED current
     \/ /\ ~exiting /\ answer' \in {"ok", "err"}     \* a literal, a name unbound
        /\ rust' = calls /\ KeepRequest /\ UNCHANGED current
     \/ /\ ~exiting /\ answer' = "ok"                \* a context
        /\ current' \in Names /\ rust' = calls /\ KeepRequest
     \/ /\ ~exiting /\ answer' = "ok"                \* a word bound to a lambda
        /\ \E n \in Bodies : Request(n)
        /\ rust' = calls /\ UNCHANGED current
     \/ /\ ~exiting /\ answer' = None
        /\ rust' = Append(calls, Native(FALSE)) /\ KeepRequest /\ UNCHANGED current

(* A body of n values starts, for the innermost of `calls`: the memory     *)
(* guard refuses it, or the tier runs it, or it gets a frame.              *)
PushFrame(calls, list, outer, n, exit) ==
  \/ answer' = "err" /\ rust' = calls /\ frames' = list /\ shadow' = outer
  \/ /\ exit = None /\ n > 0 /\ StackOk(calls) /\ Len(list) < MaxFrames
     /\ \E tail \in BOOLEAN :
          rust' = Append(calls, [kind |-> "compiled", left |-> n, tail |-> tail,
                                 floor |-> Len(list), outer |-> outer])
     /\ answer' = None /\ frames' = list /\ shadow' = 0
  \/ /\ Len(list) < MaxFrames
     /\ frames' = Append(list, Frame(n, exit))
     /\ answer' = "ok" /\ rust' = calls /\ shadow' = outer

(* What the last value filed is started, if it filed anything.             *)
TakePending(calls) ==
  \/ /\ pending = <<>>
     /\ answer' = "ok" /\ rust' = calls /\ KeepRequest /\ UNCHANGED <<frames, shadow>>
  \/ /\ pending # <<>>
     /\ ClearRequest
     /\ PushFrame(calls, frames, shadow, Head(pending), None)

(* The innermost call returns.                                             *)
Return(v) == rust' = Front(rust) /\ answer' = v

(* How an error leaves a call.  The program of a session that fails is     *)
(* reported, and the next one starts with what is left; an exit ends all.  *)
Fails ==
  CASE Top.kind # "program" -> Return("err")
    [] Top.kind = "program" /\ exiting -> rust' = <<>> /\ answer' = None
    [] OTHER -> rust' = At("next") /\ answer' = None

-----------------------------------------------------------------------------
(* The program, and the calls that run bodies.                             *)

ProgramStep ==
  /\ Drives({"program"}, {"next"})
  /\ ApplyStep(At("value")) /\ UNCHANGED <<frames, shadow>>

(* The value of a program or of an apply was applied, or failed.           *)
Applied ==
  /\ Drives({"program", "apply"}, {"value"}) /\ UNCHANGED <<current, exiting>>
  /\ \/ answer = "ok" /\ TakePending(At("body"))
     \/ answer = "err" /\ Fails /\ KeepRequest /\ UNCHANGED <<frames, shadow>>

(* The last value of a compiled body leaves what it filed.                 *)
AppliedLast ==
  /\ Drives({"filing"}, {"value"}) /\ answer # None
  /\ Return(IF answer = "err" THEN "err" ELSE ExitGate)
  /\ KeepRequest /\ UNCHANGED <<frames, current, exiting, shadow>>

Started ==
  /\ Drives(Calls, {"body", "push"}) /\ answer = "ok"
  /\ rust' = At("loop") /\ answer' = None
  /\ KeepRequest /\ UNCHANGED <<frames, current, exiting, shadow>>

(* Mutated: a call on another stack that is refused stays there.           *)
NotStarted_Stays ==
  /\ Drives(Calls, {"body"}) /\ answer = "err"
  /\ Fails /\ KeepRequest /\ UNCHANGED <<exiting, shadow>>
  /\ \/ Top.kind \in {"program", "eval"} /\ UNCHANGED <<frames, current>>
     \/ Top.kind \in {"apply", "scoped"} /\ Unwind(Top.floor)

(* The body of a call was refused, or failed where it was started.         *)
NotStarted ==
  /\ Drives(Calls, {"body"}) /\ answer = "err"
  /\ Fails /\ KeepRequest /\ UNCHANGED <<exiting, shadow>>
  /\ \/ Top.kind \in {"program", "eval"} /\ UNCHANGED <<frames, current>>
     \/ Top.kind = "apply" /\ Unwind(Top.floor)
     \/ /\ Top.kind = "scoped"
        /\ frames' = SubSeq(frames, 1, Top.floor) /\ current' = Top.back

FrameStep ==
  /\ Drives(Calls, {"loop"}) /\ Len(frames) > Top.floor /\ Last(frames).left > 0
  /\ frames' = [frames EXCEPT ![Len(frames)].left = @ - 1]
  /\ ApplyStep(At("step")) /\ UNCHANGED shadow

FrameDone ==
  /\ Drives(Calls, {"loop"}) /\ Len(frames) > Top.floor /\ Last(frames).left = 0
  /\ Unwind(Len(frames) - 1)
  /\ KeepRequest /\ UNCHANGED <<exiting, rust, answer, shadow>>

Stepped ==
  /\ Drives(Calls, {"step"}) /\ answer = "ok"
  /\ TakePending(At("push")) /\ UNCHANGED <<current, exiting>>

StepFailed ==
  /\ Drives(Calls, {"step", "push"}) /\ answer = "err"
  /\ Unwind(Top.floor) /\ Fails /\ KeepRequest /\ UNCHANGED <<exiting, shadow>>

LoopEnds ==
  /\ Drives(Calls, {"loop"}) /\ Len(frames) <= Top.floor
  /\ \/ Top.kind = "program" /\ rust' = At("next") /\ answer' = None
     \/ Top.kind # "program" /\ Return(ExitGate)
  /\ KeepRequest /\ UNCHANGED <<frames, current, exiting, shadow>>

-----------------------------------------------------------------------------
(* Natives.  One that was answered may go on whatever the answer was.      *)

Works == Runs("native") /\ ~Top.filed

Files ==
  /\ Works /\ \E n \in Bodies : Request(n)
  /\ rust' = Append(Front(rust), Native(TRUE))
  /\ answer' = None /\ UNCHANGED <<frames, current, exiting, shadow>>

Switches ==
  /\ Works /\ current' \in Names /\ answer' = None
  /\ KeepRequest /\ UNCHANGED <<frames, exiting, rust, shadow>>

RequestsExit ==
  /\ Works /\ exiting' = TRUE /\ answer' = None
  /\ KeepRequest /\ UNCHANGED <<frames, current, rust, shadow>>

(* A synchronous call the machine stack has no room for, or, for a body,   *)
(* after an exit.                                                          *)
CallRefused ==
  /\ Works /\ (exiting \/ ~StackOk(rust)) /\ answer' = "err"
  /\ KeepRequest /\ UNCHANGED <<frames, current, exiting, rust, shadow>>

EvalLambda ==
  /\ Works /\ ~exiting /\ StackOk(rust)
  /\ \E n \in Bodies :
       PushFrame(Append(rust, Call("eval", "body", Len(frames), None)),
                 frames, shadow, n, None)
  /\ KeepRequest /\ UNCHANGED <<current, exiting>>

ScopedCall ==
  /\ Works /\ StackOk(rust) /\ current' \in Names
  /\ \E n \in Bodies :
       PushFrame(Append(rust, Call("scoped", "body", Len(frames), current)),
                 frames, shadow, n, current)
  /\ KeepRequest /\ UNCHANGED exiting

Apply ==
  /\ Works /\ StackOk(rust)
  /\ ApplyStep(Append(rust, Call("apply", "value", Len(frames), None)))
  /\ UNCHANGED <<frames, shadow>>

Returns ==
  /\ Runs("native") /\ Return("ok")
  /\ KeepRequest /\ UNCHANGED <<frames, current, exiting, shadow>>

(* Mutated: a failing native leaves what it filed.                         *)
NativeFails_Keeps ==
  /\ Runs("native") /\ Return("err") /\ KeepRequest
  /\ UNCHANGED <<frames, current, exiting, shadow>>

(* A native fails, or panics: what it filed is forgotten.                  *)
NativeFails ==
  /\ Runs("native") /\ Return("err") /\ ClearRequest
  /\ UNCHANGED <<frames, current, exiting, shadow>>

-----------------------------------------------------------------------------
(* Compiled bodies.                                                        *)

LastValue == Top.tail /\ Top.left = 1

(* A value that was inlined reads and writes nothing here.                 *)
Inlined ==
  /\ Runs("compiled") /\ answer = None /\ Top.left > 0 /\ ~LastValue
  /\ rust' = Append(Front(rust), [Top EXCEPT !.left = @ - 1])
  /\ KeepRequest /\ UNCHANGED <<frames, current, exiting, answer, shadow>>

(* A guard refuses: the rest is applied value by value, the last as well.  *)
Residual ==
  /\ Runs("compiled") /\ answer = None /\ Top.tail
  /\ rust' = Append(Front(rust), [Top EXCEPT !.tail = FALSE])
  /\ KeepRequest /\ UNCHANGED <<frames, current, exiting, answer, shadow>>

(* Any other value is applied by the interpreter, which finds the body's   *)
(* frame on the list, past that value.                                     *)
Applies ==
  /\ Runs("compiled") /\ answer = None /\ Top.left > 0
  /\ shadow' = (IF shadow = 0 THEN Len(frames) + 1 ELSE shadow)
  /\ frames' = (IF shadow = 0 THEN Append(frames, Frame(Top.left - 1, None))
                ELSE [frames EXCEPT ![shadow].left = Top.left - 1])
  /\ LET calls == Append(Front(rust), [Top EXCEPT !.left = @ - 1])
         kind  == IF LastValue THEN "filing" ELSE "apply"
     IN  \/ StackOk(rust) /\ ApplyStep(Append(calls, Call(kind, "value", Len(frames'), None)))
         \/ /\ ~StackOk(rust) /\ rust' = calls /\ answer' = "err"
            /\ KeepRequest /\ UNCHANGED <<current, exiting>>

GoesOn ==
  /\ Runs("compiled") /\ answer = "ok" /\ ~exiting /\ answer' = None
  /\ KeepRequest /\ UNCHANGED <<frames, current, exiting, rust, shadow>>

(* The shadow frame goes with the body, unless it hands a body back.       *)
WithoutShadow == IF shadow = 0 THEN frames ELSE SubSeq(frames, 1, Top.floor)

CompiledFails ==
  /\ Runs("compiled") /\ (answer = "err" \/ (answer = "ok" /\ exiting))
  /\ ClearRequest /\ Return("err")
  /\ frames' = WithoutShadow /\ shadow' = Top.outer /\ UNCHANGED <<current, exiting>>

CompiledEnds ==
  /\ Runs("compiled") /\ answer = None /\ Top.left = 0
  /\ UNCHANGED <<current, exiting>>
  /\ \/ /\ pending # <<>>
        /\ ClearRequest
        /\ PushFrame(Front(rust), frames, Top.outer, Head(pending), None)
     \/ /\ pending = <<>>
        /\ Return("ok") /\ KeepRequest
        /\ frames' = WithoutShadow /\ shadow' = Top.outer

Next ==
  \/ ProgramStep \/ Applied \/ AppliedLast \/ Started \/ NotStarted
  \/ FrameStep \/ FrameDone \/ Stepped \/ StepFailed \/ LoopEnds
  \/ Files \/ Switches \/ RequestsExit \/ CallRefused
  \/ EvalLambda \/ ScopedCall \/ Apply \/ Returns \/ NativeFails
  \/ Inlined \/ Residual \/ Applies \/ GoesOn \/ CompiledFails \/ CompiledEnds

Spec == Init /\ [][Next]_vars

-----------------------------------------------------------------------------
(* The lists are lists of frames and of calls, and the request at most one *)
(* body.                                                                   *)
TypeOK ==
  /\ frames \in Seq([left : Bodies, exit : Names \cup {None}])
  /\ \A i \in DOMAIN rust :
       \/ rust[i] \in Natives
       \/ rust[i] \in [kind : {"compiled"}, left : Bodies, tail : BOOLEAN,
                       floor : Nat, outer : Nat]
       \/ rust[i] \in [kind : Calls \cup {"filing"}, floor : Nat, back : Names \cup {None},
                       at : {"next", "value", "body", "loop", "step", "push"}]
  /\ pending \in Seq(Bodies) /\ Len(pending) <= 1
  /\ requested \in BOOLEAN /\ current \in Names /\ exiting \in BOOLEAN
  /\ answer \in {None, "ok", "err"} /\ shadow \in 0..MaxFrames

(* Compiled code is told of a request exactly when there is one, and when  *)
(* a value is about to be applied none waits: none outlives a failure, to  *)
(* be run by whoever comes next, and none is overwritten.                  *)
MirrorTrue == requested = (pending # <<>>)
Applying == Drives(Calls, {"next", "loop"}) \/ Works
            \/ (Runs("compiled") /\ answer = None /\ Top.left > 0)
NoneStale == Applying => pending = <<>>
RequestKept == MirrorTrue /\ NoneStale

(* No step changes a frame below the floor of a call in progress: however  *)
(* deep calls nest, and however they end, each finds the frames it left.   *)
OwnFrames ==
  [][\A i \in DOMAIN rust :
       rust[i] \notin Natives =>
         /\ Len(frames') >= rust[i].floor
         /\ \A k \in 1..rust[i].floor : frames'[k] = frames[k]]_vars

(* A call on another stack ends on the stack it came from, whether its     *)
(* body ran, failed at any depth, or was refused before it had a frame.    *)
BackAgain ==
  [][Runs("scoped") /\ Len(rust') < Len(rust) => current' = Top.back]_vars

(* After an exit is requested, no native is told that what it ran is done. *)
ExitStops ==
  [][Drives(Calls, {"body", "loop", "step", "push", "value"})
     /\ exiting' /\ Len(rust') < Len(rust) => answer' # "ok"]_vars

=============================================================================
