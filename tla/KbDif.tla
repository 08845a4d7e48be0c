------------------------------- MODULE KbDif --------------------------------
(***************************************************************************)
(* dif: disequalities that wait on variables                               *)
(* (crates/bund2-stdlib/src/kb/dif.rs).                                    *)
(*                                                                         *)
(* s is any record with bind and trail, the posted pairs, and log, the     *)
(* attachments in the order they were made, each a variable with the place *)
(* of a posted pair.  What a variable's binding wakes is read from log, so *)
(* that cutting posted and log back undoes both (DifMark).                 *)
(***************************************************************************)
EXTENDS KbTerms

Attached(s, v) == {s.log[i][2] : i \in {j \in DOMAIN s.log : s.log[j][1] = v}}
DifIdle(s) == s.log = <<>>

Holds == [verdict |-> "holds", on |-> <<>>]
Fails == [verdict |-> "fails", on |-> <<>>]

(* The trial: it suspends on each variable it bound, and on the variable   *)
(* that one was bound to, if any.                                          *)
Check(s, a, b) ==
  LET target(t) == IF IsVar(t) THEN <<t[2]>> ELSE <<>>
      on(u, bound) == FlattenSeq([i \in DOMAIN bound |-> <<bound[i]>> \o target(Deref(u.bind, Var(bound[i])))])
      judged(u, bound) == IF bound = <<>> THEN Fails ELSE [verdict |-> "suspends", on |-> on(u, bound)]
      tried(u) == IF u.ok THEN judged(u.s, Since(u.s, Len(s.trail))) ELSE Holds
  IN  tried(Unify(s, a, b, {}))

Attach(s, id, vs) ==
  FoldLeft(LAMBDA r, v : IF id \in Attached(r, v) THEN r ELSE [r EXCEPT !.log = Append(@, <<v, id>>)],
           s, vs)

PostDif(s, a, b) ==
  LET judged(c) ==
        IF c.verdict # "suspends" THEN [ok |-> c.verdict = "holds", s |-> s]
        ELSE Ok(Attach([s EXCEPT !.posted = Append(@, <<a, b>>)], Len(s.posted) + 1, c.on))
  IN  judged(Check(s, a, b))

(* One woken dif judged again; suspended, it moves to its new variables.   *)
WakeOne(s, id) ==
  LET judged(c) == [ok |-> c.verdict # "fails", s |-> Attach(s, id, c.on)]
  IN  judged(Check(s, s.posted[id][1], s.posted[id][2]))

(* In the order they were posted; the first that fails ends it.            *)
Wake(s, bound) ==
  LET woken == SelectSeq([i \in DOMAIN s.posted |-> i],
                 LAMBDA id : \E i \in DOMAIN bound : id \in Attached(s, bound[i]))
  IN  FoldLeft(LAMBDA r, id : Then(r, LAMBDA t : WakeOne(t, id)), Ok(s), woken)

VarsIn(s, ts) == ToSet(VarsOf([i \in DOMAIN ts |-> Resolved(s.bind, ts[i])]))
Suspended(s, p) == Check(s, p[1], p[2]).verdict = "suspends"

(* What an answer reports as _residual. *)
Residual(s) == SelectSeq(s.posted, LAMBDA p : Suspended(s, p))

(* The attributes of a term, as a table's variant carries them.            *)
Touching(s, t) ==
  IF DifIdle(s) THEN <<>>
  ELSE SelectSeq(s.posted, LAMBDA p : VarsIn(s, p) \cap VarsIn(s, <<t>>) # {} /\ Suspended(s, p))
=============================================================================
