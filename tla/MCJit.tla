------------------------------- MODULE MCJit --------------------------------
(* Bodies of up to three values of any kind, and longer ones of the words  *)
(* that hold values back.                                                  *)
EXTENDS Jit

Kinds == Values \ {";", "@main"}

(* What holds values, crosses, and changes what the code was built on.     *)
Holding == {"1", "3", "+", "<", "+.", "nl", "f"}

MCBodies == UNION {[1 .. n -> Kinds] : n \in 1 .. 3} \cup [1 .. 4 -> Holding]

(* What the names are bound to when they are not natives; `f` never is.    *)
MCLambdaOf == [n \in Names |-> IF n = "f" THEN <<"look", "bindnl">> ELSE <<"3">>]

Bound(fresh) ==
  [native |-> [n \in Names |-> n # "f"],
   gen |-> [n \in Names |-> IF fresh THEN 0 ELSE MaxGen]]

Machine(items, bench, names) ==
  [stack |-> [s \in Stacks |-> IF s = "main" THEN items ELSE <<>>],
   current |-> "main", epoch |-> 0, bench |-> bench, autoadd |-> FALSE,
   native |-> names.native, gen |-> names.gen, exit |-> FALSE,
   seen |-> [stack |-> <<>>, ip |-> 0]]

Collecting(m) == [m EXCEPT !.autoadd = TRUE]

(* Empty, with text on top, with numbers; as the compiler saw the names,   *)
(* or with one bound anew since; with the generations at their end.        *)
MCMachines ==
  LET new == Bound(TRUE)
      end == Bound(FALSE)
      two == Machine(<<Number(1), Number(-2)>>, <<Number(1)>>, new)
  IN  {[vm |-> m, built |-> new] :
         m \in {Machine(<<>>, <<>>, new), Machine(<<Number(1), Text>>, <<>>, new), two,
                Rebound(two, "nl"), Rebound(two, "+"), Collecting(two)}}
      \cup {[vm |-> m, built |-> end] :
              m \in {Machine(<<Number(1)>>, <<>>, end),
                     Rebound(Machine(<<Number(1)>>, <<>>, end), "+")}}
=============================================================================
