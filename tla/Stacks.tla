------------------------------- MODULE Stacks -------------------------------
(***************************************************************************)
(* The stack layer of the language: the multi-stack of a VM, its           *)
(* workbench, the open contexts, and the words that work on them           *)
(* (crates/bund2-stdlib/src/stack.rs, endcontext of conditional.rs), one   *)
(* action per word.  A word takes its operands from the current stack, so  *)
(* what a program writes before it, `"name" to_stack`, is two steps here:  *)
(* Literal and then the word.                                              *)
(*                                                                         *)
(* `crossing` is compiled code in the middle of a call it keeps values in  *)
(* registers across (bund2-jit/src/lower.rs): it loaded the epoch cell     *)
(* before the call and compares it after.  moved is a history: whether     *)
(* another stack has been current since.                                   *)
(***************************************************************************)
EXTENDS StackOps

CONSTANTS
  Strings,      \* the values that are strings, each a possible stack name
  FreshNames,   \* those of them the VM generates for an emptied ring
  Counts,       \* the values that are integers
  CountOf(_),   \* the integer such a value is
  Datum,        \* any other value: a list, a boolean
  NoData,       \* the value NODATA, the marker a fold stops at
  MaxItems,     \* bound: values on one stack
  MaxLoad,      \* bound: values on the stacks and the workbench, and capacities
  MaxBusyLoad,  \* bound: the same with a context open or a compiled call in flight
  MaxBench,     \* bound: values on the workbench
  MaxStacks,    \* bound: stacks in the ring
  MaxContexts,  \* bound: contexts open at once
  MaxCrossings  \* bound: compiled calls in flight, at most one

ASSUME NamesAreStrings == FreshNames \subseteq Strings /\ Main \in Strings
ASSUME CountsAreIntegers == \A c \in Counts : CountOf(c) \in Int

Values == Strings \cup Counts \cup {Datum, NoData}

VARIABLES
  stacks,     \* the multi-stack, a record of StackOps
  bench,      \* the items of the workbench
  contexts,   \* for each open context, the stack to come back to
  crossing    \* [on, epoch, moved]

vars == <<stacks, bench, contexts, crossing>>

Items == stacks.current.items
Depth == Len(Items)
Here == stacks.current.name
Popped == PullCurrent(stacks)
PoppedTwo == PullCurrent(Popped)

(* The operands of a word, the top one first.                              *)
Operand(v) == Depth >= 1 /\ Items[Depth] = v
Operands(v, w) == Depth >= 2 /\ Items[Depth] = v /\ Items[Depth - 1] = w

(* The names the ring may get if the current stack, its last, is dropped.  *)
Fresh == {f \in FreshNames : f \notin StackNames(stacks) \/ Len(stacks.order) > 1}

(* The places on the stacks of s that hold a value.                         *)
Filled(s) == UNION {{n} \X DOMAIN Get(s, n).items : n \in StackNames(s)}

Capped(s) == {n \in StackNames(s) : Get(s, n).cap # {}}

Load(s) == Cardinality(Filled(s)) + Cardinality(Capped(s)) + Len(bench)
Busy == contexts # <<>> \/ crossing.on

Fits(s) ==
  /\ Len(s.order) <= MaxStacks
  /\ \A n \in StackNames(s) : Len(Get(s, n).items) <= MaxItems
  /\ Load(s) <= IF Busy THEN MaxBusyLoad ELSE MaxLoad

Cross(s) ==
  crossing' = [crossing EXCEPT !.moved = @ \/ (crossing.on /\ s.current.name # Here)]

(* A word leaves the multi-stack s; the rest is as it was.                 *)
Leaves(s) ==
  /\ stacks' = s
  /\ Fits(s)
  /\ Cross(s)

Quiet == UNCHANGED <<bench, contexts>>

Init ==
  /\ stacks = NewStacks
  /\ bench = <<>>
  /\ contexts = <<>>
  /\ crossing = [on |-> FALSE, epoch |-> 0, moved |-> FALSE]

-----------------------------------------------------------------------------
(* Literals and the words on the current stack.                            *)

Literal == \E v \in Values : Leaves(PushCurrent(stacks, v)) /\ Quiet

(* A word pulls its operands before it casts them: one that fails on them  *)
(* has spent one, or the two of a word that takes two.                     *)
Refused ==
  /\ \/ Depth >= 1 /\ Leaves(Popped)
     \/ Depth >= 2 /\ Leaves(PoppedTwo)
  /\ Quiet

DropWord == Depth >= 1 /\ Leaves(Popped) /\ Quiet

DupOne == Depth >= 1 /\ Leaves(PushCurrent(stacks, Items[Depth])) /\ Quiet

SwapOne ==
  /\ Depth >= 2
  /\ Leaves(PushCurrent(PushCurrent(PoppedTwo, Items[Depth]), Items[Depth - 1]))
  /\ Quiet

Times(c) == 1 .. CountOf(c)

Natural(i) == IF i < 0 THEN 0 ELSE i

(* n rotations, none if n is negative.                                     *)
RightTimes(q, n) ==
  LET r[i \in 0 .. Natural(n)] == IF i = 0 THEN q ELSE RotateRight(r[i - 1]) IN r[Natural(n)]
LeftTimes(q, n) ==
  LET r[i \in 0 .. Natural(n)] == IF i = 0 THEN q ELSE RotateLeft(r[i - 1]) IN r[Natural(n)]

(* The current stack's items rotated as often as c says.                   *)
Turned(s, c) == OnCurrent(s, [s.current EXCEPT !.items = RightTimes(@, CountOf(c))])
TurnedBack(s, c) == OnCurrent(s, [s.current EXCEPT !.items = LeftTimes(@, CountOf(c))])

DupMany ==
  \E c \in Counts :
    /\ Operand(c) /\ Depth >= 2
    /\ Leaves(OnCurrent(Popped, PushEach(Popped.current, [i \in Times(c) |-> Items[Depth - 1]])))
    /\ Quiet

(* Rotate right, exchange, rotate back, on the current stack of s.         *)
SwapAt(s, c) ==
  LET top == Top(s.current)
      down == Turned(s, c)
      other == Top(down.current)
      back == TurnedBack(PushCurrent(PullCurrent(down), top), c)
  IN PushCurrent(PullCurrent(back), other)

SwapN ==
  \E c \in Counts :
    /\ Operand(c) /\ Depth >= 3
    /\ Leaves(SwapAt(Popped, c)) /\ Quiet

Clear == Leaves(ClearStack(stacks, Here)) /\ Quiet

RotateCurrentLeft == Leaves(RotateItemsLeft(stacks)) /\ Quiet
RotateCurrentRight == Leaves(RotateItemsRight(stacks)) /\ Quiet

CurrentWord == Leaves(PushCurrent(stacks, Here)) /\ Quiet

(* Down to a NODATA, which is consumed, or to the bottom.                  *)
BeneathMarker(q) ==
  LET marks == {i \in 1 .. Len(q) : q[i] = NoData}
  IN IF marks = {} THEN <<>> ELSE SubSeq(q, 1, (CHOOSE i \in marks : \A j \in marks : j <= i) - 1)

Folded(k) == Push([k EXCEPT !.items = BeneathMarker(@)], Datum)

Fold == Leaves(OnCurrent(stacks, Folded(stacks.current))) /\ Quiet

-----------------------------------------------------------------------------
(* The words that name a stack.                                            *)

ToCurrent ==
  \E n \in Strings :
    /\ Operand(n)
    /\ Leaves(IF Has(stacks, n) THEN ToStack(Popped, n) ELSE Popped)
    /\ Quiet

ToStackWord == \E n \in Strings : Operand(n) /\ Leaves(ToStack(Popped, n)) /\ Quiet

EnsureStackWord == \E n \in Strings : Operand(n) /\ Leaves(EnsureStack(Popped, n)) /\ Quiet

EnsureWithCapacity ==
  \E n \in Strings, c \in Counts :
    /\ Operands(n, c)
    /\ Leaves(EnsureStackWithCapacity(PoppedTwo, n, Natural(CountOf(c))))
    /\ Quiet

StackExists == \E n \in Strings : Operand(n) /\ Leaves(PushCurrent(Popped, Datum)) /\ Quiet

DupOneIn ==
  \E n \in Strings :
    /\ Operand(n)
    /\ LET k == Get(Popped, n) IN
       Leaves(IF DepthOf(Popped, n) = 0 THEN Popped
              ELSE PushEachTo(PullFrom(Popped, n), n, <<Top(k), Top(k)>>))
    /\ Quiet

DupManyIn ==
  \E n \in Strings, c \in Counts :
    /\ Operands(n, c)
    /\ LET k == Get(PoppedTwo, n) IN
       Leaves(IF DepthOf(PoppedTwo, n) = 0 THEN PoppedTwo
              ELSE PushEachTo(PullFrom(PoppedTwo, n), n,
                              <<Top(k)>> \o [i \in Times(c) |-> Top(k)]))
    /\ Quiet

DropIn == \E n \in Strings : Operand(n) /\ Leaves(PullFrom(Popped, n)) /\ Quiet

DropStack ==
  \E fresh \in Fresh : Leaves(DropNamed(stacks, Here, fresh)) /\ Quiet

SwapIn ==
  \E n \in Strings, c \in Counts :
    /\ Operands(n, c)
    /\ Leaves(IF DepthOf(PoppedTwo, n) < 2 THEN PoppedTwo
              ELSE ToStack(SwapAt(ToStack(PoppedTwo, n), c), Here))
    /\ Quiet

ClearIn == \E n \in Strings : Operand(n) /\ Leaves(ClearStack(Popped, n)) /\ Quiet

(* Mutated: the snapshot is taken and the stack is not drained. *)
Move_Copies ==
  \E n \in Strings :
    /\ Operand(n)
    /\ Leaves(PushEachTo(Popped, n, Reverse(Popped.current.items)))
    /\ Quiet

(* Drained into a snapshot first: pushing to a new stack switches to it.   *)
Move ==
  \E n \in Strings :
    /\ Operand(n)
    /\ Leaves(PushEachTo(ClearStack(Popped, Here), n, Reverse(Popped.current.items)))
    /\ Quiet

MoveFrom ==
  \E from \in Strings, to \in Strings :
    /\ Operands(from, to)
    /\ Leaves(IF ~Has(PoppedTwo, from) THEN PoppedTwo
              ELSE PushEachTo(ClearStack(PoppedTwo, from), to,
                              Reverse(Get(PoppedTwo, from).items)))
    /\ Quiet

RotateStackLeft ==
  \E n \in Strings :
    Operand(n) /\ Leaves(ToStack(RotateItemsLeft(ToStack(Popped, n)), Here)) /\ Quiet

(* Mutated: comes back first and rotates the stack it started on. *)
RotateStackRight_Home ==
  \E n \in Strings :
    Operand(n) /\ Leaves(RotateItemsRight(ToStack(ToStack(Popped, n), Here))) /\ Quiet

RotateStackRight ==
  \E n \in Strings :
    Operand(n) /\ Leaves(ToStack(RotateItemsRight(ToStack(Popped, n)), Here)) /\ Quiet

StacksLeft == Leaves(RotateStacksLeft(stacks)) /\ Quiet
StacksRight == Leaves(RotateStacksRight(stacks)) /\ Quiet

FoldStack ==
  \E n \in Strings :
    /\ Operand(n)
    /\ LET e == EnsureStack(Popped, n) IN Leaves(Put(e, n, Folded(Get(e, n))))
    /\ Quiet

-----------------------------------------------------------------------------
(* The workbench: Benched takes v there, Unbenched takes its top away.     *)

Benched(v) == Len(bench) < MaxBench /\ bench' = Append(bench, v) /\ UNCHANGED contexts
Unbenched == bench' = PopBack(bench) /\ UNCHANGED contexts

Take ==
  /\ bench # <<>>
  /\ Leaves(PushCurrent(stacks, bench[Len(bench)]))
  /\ Unbenched

Return == Depth >= 1 /\ Leaves(Popped) /\ Benched(Items[Depth])

ReturnTo ==
  \E n \in Strings :
    /\ Operand(n)
    /\ Leaves(IF bench = <<>> THEN Popped ELSE PushTo(Popped, n, bench[Len(bench)]))
    /\ Unbenched

ReturnFrom ==
  \E n \in Strings :
    /\ Operand(n)
    /\ Leaves(PullFrom(Popped, n))
    /\ IF DepthOf(Popped, n) = 0 THEN Quiet ELSE Benched(Top(Get(Popped, n)))

-----------------------------------------------------------------------------
(* Contexts: `( name` opens one, endcontext closes the innermost.          *)

Context ==
  \E n \in Strings :
    /\ Len(contexts) < MaxContexts /\ Load(stacks) <= MaxBusyLoad
    /\ contexts' = Append(contexts, Here)
    /\ Leaves(ToStack(stacks, n))
    /\ UNCHANGED bench

EndContext ==
  /\ contexts # <<>>
  /\ \E fresh \in Fresh :
       Leaves(ToStack(DropNamed(IF Depth > 0 THEN Popped ELSE stacks, Here, fresh),
                      contexts[Len(contexts)]))
  /\ contexts' = PopBack(contexts)
  /\ IF Depth > 0 THEN Len(bench) < MaxBench /\ bench' = Append(bench, Items[Depth])
     ELSE UNCHANGED bench

-----------------------------------------------------------------------------
(* A compiled call that values stay in registers across.                   *)

CrossBegin ==
  /\ ~crossing.on /\ MaxCrossings > 0 /\ Load(stacks) <= MaxBusyLoad
  /\ crossing' = [on |-> TRUE, epoch |-> stacks.cell, moved |-> FALSE]
  /\ UNCHANGED <<stacks, bench, contexts>>

CrossEnd ==
  /\ crossing.on
  /\ crossing' = [on |-> FALSE, epoch |-> 0, moved |-> FALSE]
  /\ UNCHANGED <<stacks, bench, contexts>>

OnTheCurrentStack ==
  \/ Literal \/ Refused \/ DropWord \/ DupOne \/ SwapOne \/ DupMany \/ SwapN
  \/ Clear \/ RotateCurrentLeft \/ RotateCurrentRight \/ CurrentWord \/ Fold
  \/ StackExists

OnANamedStack ==
  \/ DupOneIn \/ DupManyIn \/ DropIn \/ ClearIn \/ Move \/ MoveFrom \/ FoldStack
  \/ Take \/ Return \/ ReturnTo \/ ReturnFrom

OnTheRing ==
  \/ ToCurrent \/ ToStackWord \/ EnsureStackWord \/ EnsureWithCapacity \/ DropStack
  \/ StacksLeft \/ StacksRight \/ Context

(* Words that go to another stack and come back.                           *)
Visiting == SwapIn \/ RotateStackLeft \/ RotateStackRight

Next ==
  \/ OnTheCurrentStack \/ OnANamedStack \/ OnTheRing \/ Visiting \/ EndContext
  \/ CrossBegin \/ CrossEnd

Spec == Init /\ [][Next]_vars

-----------------------------------------------------------------------------
(* Properties.                                                             *)

(* However the words are mixed, a stack is in exactly one of the two       *)
(* places, the ring lists each stack once, and the one held out of the map *)
(* is the ring's front (stacks.rs: settle, and the comments on current,    *)
(* others and order).                                                      *)
OneRing == RingIsTheStacks(stacks)

(* Compiled code that finds the epoch it loaded before a call still in the *)
(* cell after it may put its registers on the current stack: no other      *)
(* stack has been current in between, not even for a while (lower.rs, the  *)
(* compare after a crossed call; stacks.rs, epoch).  At MaxEpoch the       *)
(* saturated counter answers nothing.                                      *)
SteadyEpoch ==
  crossing.on /\ crossing.epoch = stacks.cell /\ stacks.cell < MaxEpoch
    => ~crossing.moved

(* Bund2's ring is the reference's deque seen from its other end: creation *)
(* appends, selection turns, in the same cyclic order, so stacks_left and  *)
(* stacks_right reach the stacks they reach there (stacks.rs:              *)
(* add_as_current, F89).                                                   *)
Reference == INSTANCE ReferenceRing WITH deque <- RotateLeft(stacks.order), Names <- Strings

(* What a word that visited n, its operands spent in s, leaves of the      *)
(* other stacks.                                                           *)
Back(s, n) ==
  /\ stacks'.current.name = Here
  /\ StackNames(stacks') \ {n} = StackNames(s) \ {n}
  /\ \A m \in StackNames(s) \ {n} : Get(stacks', m) = Get(s, m)

(* swap_in and rotate_stack_* come back: the stack they started on is      *)
(* current again, with the values the operands left on it unless it is the *)
(* one visited; every other stack holds what it held and has the capacity  *)
(* it had; none is made and none dropped but the visited one, which may    *)
(* have to be made (stack.rs: "switching back").                           *)
VisitorsReturn ==
  [][\A n \in Strings :
       /\ Operand(n) /\ (RotateStackLeft \/ RotateStackRight) => Back(Popped, n)
       /\ (\E c \in Counts : Operands(n, c)) /\ SwapIn => Back(PoppedTwo, n)]_vars

Where(q, v) == {i \in 1 .. Len(q) : q[i] = v}

Count(q, v) == Cardinality(Where(q, v))

(* The places of v on the stacks of s: which stack, and where on it.       *)
Places(s, v) == UNION {{n} \X Where(Get(s, n).items, v) : n \in StackNames(s)}

(* How many copies of v the stacks of s and the workbench b hold.          *)
Held(s, b, v) == Cardinality(Places(s, v)) + Count(b, v)

Same(s) == \A v \in Values : Held(stacks', bench', v) = Held(s, bench, v)

Uncapped == Capped(stacks) = {}

(* Draining a stack into another, exchanging, rotating and the traffic     *)
(* with the workbench lose and make no value beyond the operands spent, as *)
(* long as no stack has a capacity: not when the target is the source, not *)
(* when it has to be created, which switches to it (stack.rs: move,        *)
(* move_from, swap, swap_in, take, return; F70).                           *)
NothingLost ==
  [][Uncapped =>
       /\ Move \/ SwapN \/ ReturnTo \/ ReturnFrom \/ RotateStackLeft \/ RotateStackRight
            => Same(Popped)
       /\ MoveFrom \/ SwapIn => Same(PoppedTwo)
       /\ Take \/ Return \/ SwapOne => Same(stacks)]_vars
=============================================================================
