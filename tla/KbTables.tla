------------------------------ MODULE KbTables ------------------------------
(***************************************************************************)
(* The tables of an activation and the completion stack                    *)
(* (crates/bund2-stdlib/src/kb/table.rs).                                  *)
(*                                                                         *)
(* tb is a record: all, the tables in the order their variants first led;  *)
(* stack, the completion stack, oldest entry first; added, the answers     *)
(* added to any of them.  An instance, a call or an answer with the difs   *)
(* on its variables, is a sequence of templates that share their           *)
(* variables, so that two instances are variants when they are equal.      *)
(***************************************************************************)
EXTENDS Integers, Sequences, SequencesExt

NoTables == [all |-> <<>>, stack |-> <<>>, added |-> 0]
Nowhere == 0   \* under no not, if or findall

TableOf(tb, variant) == {t \in DOMAIN tb.all : tb.all[t].call = variant}
Evaluating(tb, t) == tb.all[t].status = "evaluating"

(* A new variant leads; leader is the height of its choicepoint, neg the   *)
(* height of the innermost not, if or findall around it.                   *)
Lead(tb, variant, key, leader, neg) ==
  [tb EXCEPT
     !.all = Append(@, [call |-> variant, key |-> key, answers |-> <<>>,
                        status |-> "evaluating", entry |-> Len(tb.stack) + 1]),
     !.stack = Append(@, [table |-> Len(tb.all) + 1, root |-> Len(tb.stack) + 1,
                          leader |-> leader, neg |-> neg])]

(* Mutated: the entries join from the variant's own entry on. *)
JoinsFrom_Own(tb, t) == tb.all[t].entry

(* The join rule: from the root of the variant's SCC.                      *)
JoinsFrom(tb, t) == tb.stack[tb.all[t].entry].root

(* E54: a merge would reach below a not, an if or a findall.               *)
Unstratified(tb, t, neg) ==
  LET root == JoinsFrom(tb, t)
      below(n) == n > tb.stack[root].leader
  IN  below(neg) \/ \E i \in root .. Len(tb.stack) : below(tb.stack[i].neg)

(* Every entry from the root to the top joins the root's SCC.              *)
Merge(tb, t) ==
  LET root == JoinsFrom(tb, t)
  IN  [tb EXCEPT !.stack = [i \in DOMAIN @ |-> IF i < root THEN @[i] ELSE [@[i] EXCEPT !.root = root]]]

IsRoot(tb, t) == Evaluating(tb, t) /\ tb.stack[tb.all[t].entry].root = tb.all[t].entry

Complete(tb, root) ==
  LET done == {tb.stack[i].table : i \in root .. Len(tb.stack)}
  IN  [tb EXCEPT !.all = [t \in DOMAIN @ |-> IF t \in done THEN [@[t] EXCEPT !.status = "complete"] ELSE @[t]],
                 !.stack = SubSeq(@, 1, root - 1)]

AddAnswer(tb, t, answer) ==
  IF Contains(tb.all[t].answers, answer) THEN tb
  ELSE [tb EXCEPT !.all[t].answers = Append(@, answer), !.added = @ + 1]
=============================================================================
