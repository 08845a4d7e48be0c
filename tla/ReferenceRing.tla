--------------------------- MODULE ReferenceRing ---------------------------
(***************************************************************************)
(* The deque of stack names of the implementation Bund2 follows,           *)
(* rust_multistack, as the comments of bund2-interp/src/stacks.rs quote    *)
(* it: the current stack is at the BACK, a new stack is appended there,    *)
(* and selecting a stack turns the deque left until it is at the back.     *)
(* Bund2 keeps the current stack at the front of its own ring; Stacks      *)
(* implements this deque under the mapping that moves the front to the     *)
(* back.                                                                   *)
(***************************************************************************)
EXTENDS Integers, Sequences

CONSTANTS Main, Names

VARIABLE deque

Back == deque[Len(deque)]

In(q, n) == \E i \in 1 .. Len(q) : q[i] = n

TurnLeft(q) == Append(Tail(q), Head(q))
TurnRight(q) == <<q[Len(q)]>> \o SubSeq(q, 1, Len(q) - 1)

AtBack(q, n) ==
  LET i == CHOOSE i \in 1 .. Len(q) : q[i] = n
  IN SubSeq(q, i + 1, Len(q)) \o SubSeq(q, 1, i)

(* Selecting n, which appends it if there is no such stack.                *)
Selected(q, n) == IF In(q, n) THEN AtBack(q, n) ELSE Append(q, n)

Init == deque = <<Main>>

Select == \E n \in Names : deque' = Selected(deque, n)
Ensure == \E n \in Names : ~In(deque, n) /\ deque' = Append(deque, n)
Visit == \E n \in Names : deque' = AtBack(Selected(deque, n), Back)
Turn == deque' = TurnLeft(deque) \/ deque' = TurnRight(deque)

Next == Select \/ Ensure \/ Visit \/ Turn

Spec == Init /\ [][Next]_deque
=============================================================================
