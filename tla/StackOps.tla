------------------------------ MODULE StackOps ------------------------------
(***************************************************************************)
(* The multi-stack of a Bund VM as a value, and the operations the VM has  *)
(* on it (crates/bund2-interp/src/stacks.rs and the stack half of the Vm   *)
(* implementation in crates/bund2-interp/src/lib.rs).                      *)
(*                                                                         *)
(* A stack is [name, items, cap]; items is bottom first, cap is {} or the  *)
(* singleton of the capacity.  A multi-stack is a record                   *)
(*   current  the current stack, held out of the map,                      *)
(*   others   every other stack, by name,                                  *)
(*   order    the ring of names, the current one first,                    *)
(*   epoch    the count of changes of which stack is current,              *)
(*   cell     the copy of epoch that compiled code loads.                  *)
(*                                                                         *)
(* Each operation is a function of the multi-stack, so that the words of   *)
(* the language, which call several of them, are their composition.        *)
(***************************************************************************)
EXTENDS Integers, SequencesExt

CONSTANTS
  Main,       \* the stack a VM starts with, "main"
  MaxEpoch    \* u64::MAX, where the epoch saturates

ASSUME MaxEpochIsNat == MaxEpoch \in Nat

-----------------------------------------------------------------------------
(* Sequences.                                                              *)

ItemsOf(q) == {q[i] : i \in 1 .. Len(q)}

Distinct(q) == \A i, j \in 1 .. Len(q) : q[i] = q[j] => i = j

RotateLeft(q) == IF q = <<>> THEN q ELSE Append(Tail(q), Head(q))

RotateRight(q) ==
  IF q = <<>> THEN q ELSE <<q[Len(q)]>> \o SubSeq(q, 1, Len(q) - 1)

PopBack(q) == IF q = <<>> THEN q ELSE SubSeq(q, 1, Len(q) - 1)

FirstAt(q, x) ==
  CHOOSE i \in 1 .. Len(q) : q[i] = x /\ \A j \in 1 .. i - 1 : q[j] # x

(* The ring turned until x is in front; the loop stops at the first x.     *)
TurnedTo(q, x) ==
  LET i == FirstAt(q, x) IN SubSeq(q, i, Len(q)) \o SubSeq(q, 1, i - 1)

(* order.retain(|n| n != x), on a ring that holds x at most once.          *)
Retain(q, x) ==
  IF x \notin ItemsOf(q) THEN q
  ELSE LET i == FirstAt(q, x) IN SubSeq(q, 1, i - 1) \o SubSeq(q, i + 1, Len(q))

-----------------------------------------------------------------------------
(* One stack.                                                              *)

NamedStack(n) == [name |-> n, items |-> <<>>, cap |-> {}]

IsFull(k) == \E c \in k.cap : Len(k.items) >= c

(* A push onto a full stack drops the NEWEST value first.                  *)
Push(k, v) ==
  [k EXCEPT !.items = Append(IF IsFull(k) THEN PopBack(@) ELSE @, v)]

(* One push after another, first to last.                                  *)
PushEach(k, q) ==
  LET pushed[i \in 0 .. Len(q)] == IF i = 0 THEN k ELSE Push(pushed[i - 1], q[i])
  IN [k EXCEPT !.items = pushed[Len(q)].items]

Pull(k) == [k EXCEPT !.items = PopBack(@)]

Top(k) == k.items[Len(k.items)]

-----------------------------------------------------------------------------
(* The multi-stack.                                                        *)

NewStacks ==
  [current |-> NamedStack(Main), others |-> [n \in {} |-> NamedStack(n)],
   order |-> <<Main>>, epoch |-> 0, cell |-> 0]

StackNames(s) == {s.current.name} \cup DOMAIN s.others

Has(s, n) == n \in StackNames(s)

Get(s, n) == IF n = s.current.name THEN s.current ELSE s.others[n]

(* get_mut: the stack named n replaced by k, wherever it is held.          *)
Put(s, n, k) ==
  IF n = s.current.name THEN [s EXCEPT !.current = k]
  ELSE IF n \in DOMAIN s.others THEN [s EXCEPT !.others[n] = k]
  ELSE s

Insert(f, n, k) == [m \in DOMAIN f \cup {n} |-> IF m = n THEN k ELSE f[m]]
Delete(f, n) == [m \in DOMAIN f \ {n} |-> f[m]]

Create(s, n) ==
  IF Has(s, n) THEN s ELSE [s EXCEPT !.others = Insert(@, n, NamedStack(n))]

(* The stack the ring's front names comes into current, created if it is   *)
(* not there; the outgoing one returns to the map only if keepOld.         *)
Settle(s, keepOld) ==
  LET front == IF s.order = <<>> THEN Main ELSE s.order[1]
      incoming == IF front \in DOMAIN s.others THEN s.others[front] ELSE NamedStack(front)
      rest == Delete(s.others, front)
  IN IF keepOld /\ s.current.name = front THEN s
     ELSE [s EXCEPT !.current = incoming,
                    !.others = IF keepOld THEN Insert(rest, s.current.name, s.current)
                               ELSE rest]

BumpEpoch(s) ==
  LET e == IF s.epoch < MaxEpoch THEN s.epoch + 1 ELSE s.epoch
  IN [s EXCEPT !.epoch = e, !.cell = e]

(* The bump of drop_named and to_stack: only if the front's name changed.  *)
BumpIfMoved(before, s) ==
  IF s.order[1] # before.order[1] THEN BumpEpoch(s) ELSE s

(* Mutated: the new name goes on the front and the ring is not turned. *)
AddAsCurrent_FrontOnly(s, n) ==
  BumpEpoch(Settle([s EXCEPT !.order = <<n>> \o @], TRUE))

(* Mutated: the current stack is not brought in. *)
AddAsCurrent_Unsettled(s, n) == BumpEpoch([s EXCEPT !.order = <<n>> \o RotateLeft(@)])

AddAsCurrent(s, n) ==
  BumpEpoch(Settle([s EXCEPT !.order = <<n>> \o RotateLeft(@)], TRUE))

(* Mutated: the front moves and the epoch does not. *)
DropNamed_NoBump(s, n, fresh) ==
  LET kept == Retain(s.order, n)
      gone == [s EXCEPT !.others = Delete(@, n),
                        !.order = IF kept = <<>> THEN <<fresh>> ELSE kept]
  IN Settle(gone, s.current.name # n)

(* fresh is the generated name the ring gets if the drop empties it.       *)
DropNamed(s, n, fresh) ==
  LET kept == Retain(s.order, n)
      gone == [s EXCEPT !.others = Delete(@, n),
                        !.order = IF kept = <<>> THEN <<fresh>> ELSE kept]
  IN BumpIfMoved(s, Settle(gone, s.current.name # n))

TurnRing(s, q) ==
  IF Len(s.order) > 1 THEN BumpEpoch(Settle([s EXCEPT !.order = q], TRUE)) ELSE s

RotateStacksLeft(s) == TurnRing(s, RotateLeft(s.order))
RotateStacksRight(s) == TurnRing(s, RotateRight(s.order))

ToStack(s, n) ==
  LET c == Create(s, n)
  IN IF n \notin ItemsOf(c.order) THEN AddAsCurrent(c, n)
     ELSE BumpIfMoved(c, Settle([c EXCEPT !.order = TurnedTo(@, n)], TRUE))

-----------------------------------------------------------------------------
(* What the VM builds from them.                                           *)

EnsureStack(s, n) ==
  LET c == Create(s, n)
  IN IF n \in ItemsOf(c.order) THEN c ELSE AddAsCurrent(c, n)

(* Only the first capacity given to a stack is recorded.                   *)
EnsureStackWithCapacity(s, n, c) ==
  LET e == EnsureStack(s, n)
      k == Get(e, n)
  IN IF k.cap = {} THEN Put(e, n, [k EXCEPT !.cap = {c}]) ELSE e

PushTo(s, n, v) == LET e == EnsureStack(s, n) IN Put(e, n, Push(Get(e, n), v))

PushEachTo(s, n, q) ==
  IF q = <<>> THEN s
  ELSE LET e == EnsureStack(s, n) IN Put(e, n, PushEach(Get(e, n), q))

PullFrom(s, n) == IF Has(s, n) THEN Put(s, n, Pull(Get(s, n))) ELSE s

DepthOf(s, n) == IF Has(s, n) THEN Len(Get(s, n).items) ELSE 0

ClearStack(s, n) ==
  IF Has(s, n) THEN Put(s, n, [Get(s, n) EXCEPT !.items = <<>>]) ELSE s

OnCurrent(s, k) == [s EXCEPT !.current = k]
PushCurrent(s, v) == OnCurrent(s, Push(s.current, v))
PullCurrent(s) == OnCurrent(s, Pull(s.current))
RotateItemsLeft(s) == OnCurrent(s, [s.current EXCEPT !.items = RotateLeft(@)])
RotateItemsRight(s) == OnCurrent(s, [s.current EXCEPT !.items = RotateRight(@)])

-----------------------------------------------------------------------------
(* The names a stack may have and the shape of a well-formed multi-stack.  *)

(* Every stack is in exactly one place, under its own name, and the ring   *)
(* lists each exactly once with the current one in front.                  *)
RingIsTheStacks(s) ==
  /\ s.order # <<>>
  /\ s.current.name = s.order[1]
  /\ s.current.name \notin DOMAIN s.others
  /\ ItemsOf(s.order) = StackNames(s)
  /\ Distinct(s.order)
  /\ \A n \in DOMAIN s.others : s.others[n].name = n
=============================================================================
