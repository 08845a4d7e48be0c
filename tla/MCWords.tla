------------------------------ MODULE MCWords ------------------------------
(* Small instances of Words and Vocabularies. *)
EXTENDS Vocabularies

TwoAliases == {<<"a", "b">>, <<"b", "a">>, <<"b", "b">>, <<"b", "c">>}

(* Every value calls b, and the copies may be exchanged.                   *)
AllB == [c \in Calls |-> "b"]
Plain == [c \in Calls |-> FALSE]
Copies == Permutations(Calls)

=============================================================================
