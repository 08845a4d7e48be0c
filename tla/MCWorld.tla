------------------------------ MODULE MCWorld -------------------------------
(* A small instance of World: each file is new, or has been saved to with  *)
(* one script, which bootstraps the other file, or was left by an older    *)
(* process with a body, a stack item and a model that are not read, each   *)
(* after one that is.                                                      *)
EXTENDS World, TLC

Saved(text) ==
  [aliases |-> {"m" :> "n"}, lambdas |-> {"n" :> "x"}, stacks |-> {"s" :> <<"y">>},
   scripts |-> {"boot" :> text}, models |-> {}]

Older ==
  [aliases |-> {NoEntry}, lambdas |-> {("m" :> "x") @@ ("n" :> "old")},
   stacks |-> {("main" :> <<"y", "json">>) @@ ("s" :> <<"y">>)},
   scripts |-> {}, models |-> {<<"y", "json">>}]

MCWorlds(f) == IF f = "w" THEN {Saved("other")} ELSE {NoTable, Saved("again"), Older}

MCRank(n) == CASE n \in {"m", "main"} -> 1 [] n \in {"n", "s"} -> 2

MCDoes(t) ==
  CASE t = "define" -> [word |-> "edit", name |-> "n", body |-> "x"]
    [] t = "again" -> [word |-> "bootstrap", file |-> "w"]
    [] t = "other" -> [word |-> "bootstrap", file |-> "u"]
    [] t = "fail" -> [word |-> "fail"]
=============================================================================
