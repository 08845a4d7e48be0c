------------------------------ MODULE KbTerms -------------------------------
(***************************************************************************)
(* Terms, the arena, the trail and unification of the knowledge bases      *)
(* (term.rs and unify.rs in crates/bund2-stdlib/src/kb).                   *)
(*                                                                         *)
(* A term is a tuple tagged by its kind.  Only variables need a place in   *)
(* the arena: `bind` is the sequence of its variables, each Unbound or     *)
(* what it is bound to, an older variable having a smaller index; every    *)
(* other cell is never written again, so it is kept as a value.  A         *)
(* template numbers its variables by first occurrence, so two templates    *)
(* are variants exactly when they are equal.                               *)
(***************************************************************************)
EXTENDS Integers, Sequences, SequencesExt

Var(n) == <<"var", n>>
Atom(a) == <<"atom", a>>
Int_(i) == <<"int", i>>
Nil == <<"nil">>
Link(h, t) == <<"cons", h, t>>
Struct(f, args) == IF args = <<>> THEN Atom(f) ELSE <<"struct", f, args>>
Opaque(v) == <<"opaque", v>>
Unbound == <<"unbound">>

IsVar(t) == t[1] = "var"
Args(t) == CASE t[1] = "struct" -> t[3]
             [] t[1] = "cons" -> <<t[2], t[3]>>
             [] OTHER -> <<>>
SameShape(a, b) ==
  CASE a[1] = "struct" -> b[1] = "struct" /\ a[2] = b[2] /\ Len(a[3]) = Len(b[3])
    [] a[1] = "cons" -> b[1] = "cons"
    [] OTHER -> a = b
Functor(t) == IF t[1] \in {"atom", "struct"} THEN t[2] ELSE ""

(* A sequence given by a rule, as the value it is. *)
Built(f) == f \o <<>>

(* What an operation makes of a state s, and whether it succeeded.         *)
Ok(s) == [ok |-> TRUE, s |-> s]
No(s) == [ok |-> FALSE, s |-> s]
Then(r, Op(_)) == IF r.ok THEN Op(r.s) ELSE r

(* A list of the language, and its items when its spine ends in Nil.       *)
RECURSIVE ListOf(_)
ListOf(ts) == IF ts = <<>> THEN Nil ELSE Link(Head(ts), ListOf(Tail(ts)))

RECURSIVE Deref(_, _)
Deref(bind, t) ==
  IF IsVar(t) /\ bind[t[2]] # Unbound THEN Deref(bind, bind[t[2]]) ELSE t

RECURSIVE Spine(_, _)
Spine(bind, l) ==
  LET onto(item, rest) == [items |-> <<item>> \o rest.items, end |-> rest.end]
      from(t) == IF t[1] = "cons" THEN onto(t[2], Spine(bind, t[3])) ELSE [items |-> <<>>, end |-> t]
  IN  from(Deref(bind, l))

(* The term with its bindings followed, as it is read back or copied.      *)
RECURSIVE Resolved(_, _)
Resolved(bind, t) ==
  LET from(d) ==
        CASE d[1] = "struct" -> <<"struct", d[2], Built([i \in DOMAIN d[3] |-> Resolved(bind, d[3][i])])>>
          [] d[1] = "cons" -> Link(Resolved(bind, d[2]), Resolved(bind, d[3]))
          [] OTHER -> d
  IN  from(Deref(bind, t))

(* The variables of resolved terms, by first occurrence. *)
RECURSIVE Leaves(_)
Leaves(t) == IF IsVar(t) THEN <<t[2]>> ELSE FlattenSeq(Built([i \in DOMAIN Args(t) |-> Leaves(Args(t)[i])]))
Distinct(s) == FoldLeft(LAMBDA acc, x : IF Contains(acc, x) THEN acc ELSE Append(acc, x), <<>>, s)
VarsOf(ts) == Distinct(FlattenSeq(Built([i \in DOMAIN ts |-> Leaves(ts[i])])))

(* The term with each variable n replaced by f[n]. *)
RECURSIVE Replaced(_, _)
Replaced(t, f) ==
  CASE IsVar(t) -> f[t[2]]
    [] t[1] = "struct" -> <<"struct", t[2], Built([i \in DOMAIN t[3] |-> Replaced(t[3][i], f)])>>
    [] t[1] = "cons" -> Link(Replaced(t[2], f), Replaced(t[3], f))
    [] OTHER -> t
AllReplaced(ts, f) == Built([i \in DOMAIN ts |-> Replaced(ts[i], f)])

(* A copy into the template store: terms that share their variables, each  *)
(* variable numbered by its first occurrence.                              *)
Template(bind, ts) ==
  LET nth(vs) == [n \in ToSet(vs) |-> Var(CHOOSE i \in DOMAIN vs : vs[i] = n)]
      numbered(rs) == AllReplaced(rs, nth(VarsOf(rs)))
  IN  numbered(Built([i \in DOMAIN ts |-> Resolved(bind, ts[i])]))

(* A copy of templates into the main store: fresh variables at its end.    *)
Fresh(bind, k) == bind \o [i \in 1..k |-> Unbound]
Renamed(bind, ts) == AllReplaced(ts, [n \in ToSet(VarsOf(ts)) |-> Var(Len(bind) + n)])

-----------------------------------------------------------------------------
(* The trail: the variables bound, newest last.  s is any record that has  *)
(* the fields bind and trail.                                              *)
Bind(s, v, t) == [s EXCEPT !.bind[v[2]] = t, !.trail = Append(@, v[2])]

Since(s, mark) == SubSeq(s.trail, mark + 1, Len(s.trail))

UndoTo(s, mark) ==
  LET undo(gone) ==
        [s EXCEPT !.bind = [n \in DOMAIN @ |-> IF n \in gone THEN Unbound ELSE @[n]],
                  !.trail = SubSeq(@, 1, mark)]
  IN  undo(ToSet(Since(s, mark)))

(* On failure nothing done since the mark stays bound.                     *)
OrUndone(r, mark) == IF r.ok THEN r ELSE No(UndoTo(r.s, mark))

Occurs(bind, v, t) == Contains(Leaves(Resolved(bind, t)), v[2])

(* unify_pairs: a worklist of pairs.  The younger of two variables is      *)
(* bound to the older; the occurs check is skipped for the variables in    *)
(* `once`, which stand once in a renamed clause's head.                    *)
RECURSIVE UnifyPairs(_, _, _)
UnifyPairs(s, pairs, once) ==
  LET assign(v, w) ==
        IF ~IsVar(w) /\ v[2] \notin once /\ Occurs(s.bind, v, w) THEN No(s)
        ELSE UnifyPairs(Bind(s, v, w), Tail(pairs), once)
      bound(a, b) == IsVar(a) /\ (~IsVar(b) \/ a[2] > b[2])
      order(a, b) == IF bound(a, b) THEN <<a, b>> ELSE <<b, a>>
      assigned(p) == assign(p[1], p[2])
      unify(a, b) ==
        CASE a = b -> UnifyPairs(s, Tail(pairs), once)
          [] a # b /\ (IsVar(a) \/ IsVar(b)) -> assigned(order(a, b))
          [] a # b /\ ~IsVar(a) /\ ~IsVar(b) /\ SameShape(a, b) ->
               UnifyPairs(s, [i \in DOMAIN Args(a) |-> <<Args(a)[i], Args(b)[i]>>] \o Tail(pairs), once)
          [] OTHER -> No(s)
  IN  IF pairs = <<>> THEN Ok(s)
      ELSE unify(Deref(s.bind, Head(pairs)[1]), Deref(s.bind, Head(pairs)[2]))

Unify(s, a, b, once) == OrUndone(UnifyPairs(s, <<<<a, b>>>>, once), Len(s.trail))
=============================================================================
