-------------------------------- MODULE KbFd --------------------------------
(***************************************************************************)
(* Finite domains: the constraint goals, their propagators and the queue   *)
(* that runs them (crates/bund2-stdlib/src/kb/fd).                         *)
(*                                                                         *)
(* A domain is the set of its values within MinInt..MaxInt, which stand    *)
(* for the ends of i64, with Inf or Sup among them when it is unbounded    *)
(* below or above.  s is a record as in KbDif that also has doms, every    *)
(* domain a variable was given in order (its last is the one it has),      *)
(* props, watch, the pairs of a variable and a propagator, and queue.      *)
(***************************************************************************)
EXTENDS KbDif, FiniteSetsExt

CONSTANTS MaxInt, Sup   \* Sup: beyond what any sum of bounds reaches

ASSUME KbFdAssumption == MaxInt \in Nat /\ Sup \in Nat /\ MaxInt + 1 < Sup

MinInt == -MaxInt - 1

Inf == -Sup
AnyInt == (MinInt .. MaxInt) \cup {Inf, Sup}
Infinite(b) == b \in {Inf, Sup}

(* interval, with a bound outside the range mapped: an end beyond its own  *)
(* side is infinite, one beyond the other side leaves nothing.             *)
Interval(lo, hi) ==
  IF lo > MaxInt \/ hi < MinInt \/ lo > hi THEN {}
  ELSE {x \in MinInt .. MaxInt : lo <= x /\ x <= hi}
       \cup (IF lo < MinInt THEN {Inf} ELSE {}) \cup (IF hi > MaxInt THEN {Sup} ELSE {})

Abs(n) == IF n < 0 THEN -n ELSE n
Single(d) == Cardinality(d) = 1 /\ d \cap {Inf, Sup} = {}
Sentinel(positive) == IF positive THEN Sup ELSE Inf
Mul(a, b) ==
  IF a = 0 \/ b = 0 THEN 0
  ELSE IF Infinite(a) \/ Infinite(b) THEN Sentinel((a > 0) = (b > 0))
  ELSE a * b
DivFloor(a, b) ==
  IF Infinite(a) THEN Sentinel((a > 0) = (b > 0)) ELSE IF b > 0 THEN a \div b ELSE (-a) \div (-b)
DivCeil(a, b) == IF Infinite(a) THEN DivFloor(a, b) ELSE -DivFloor(-a, b)

-----------------------------------------------------------------------------
(* The store.                                                              *)

FdIdle(s) == s.doms = <<>> /\ s.props = <<>>
Entries(s, v) == SelectSeq(s.doms, LAMBDA e : e[1] = v)
Has(s, v) == Entries(s, v) # <<>>
Watching(s, v) == LET w == SelectSeq(s.watch, LAMBDA e : e[1] = v) IN [i \in DOMAIN w |-> w[i][2]]

Dom(s, t) ==
  LET of(d) == CASE d[1] = "int" -> Interval(d[2], d[2])
                 [] IsVar(d) -> IF Has(s, d[2]) THEN Last(Entries(s, d[2]))[2] ELSE AnyInt
                 [] OTHER -> {}
  IN  of(Deref(s.bind, t))
IsIntTerm(s, t) == Deref(s.bind, t)[1] \in {"int", "var"}

SetDom(s, v, d) == [s EXCEPT !.doms = Append(@, <<v, d>>)]
Enqueue(s, v) ==
  [s EXCEPT !.queue = @ \o SelectSeq(Watching(s, v), LAMBDA id : ~Contains(s.queue, id))]

Constrain(s, v) == IF IsVar(v) /\ ~Has(s, v[2]) THEN SetDom(s, v[2], AnyInt) ELSE s

Narrowed(s, v, new) == Enqueue(SetDom(s, v, new), v)

(* A variable left with one value is bound to it, without waking anything: *)
(* settle sees it on the trail.                                            *)
Narrow(s, t, d) ==
  LET only(new) == Int_(CHOOSE x \in new : TRUE)
      change(v, new) ==
        IF Single(new) THEN Bind(Narrowed(s, v[2], new), v, only(new)) ELSE Narrowed(s, v[2], new)
      cut(v, cur) ==
        CASE cur \subseteq d -> Ok(Constrain(s, v))
          [] cur \cap d = {} -> No(s)
          [] OTHER -> Ok(change(v, cur \cap d))
      of(v) == CASE v[1] = "int" -> [ok |-> v[2] \in d, s |-> s]
                 [] IsVar(v) -> cut(v, Dom(s, v))
                 [] OTHER -> No(s)
  IN  of(Deref(s.bind, t))

(* Several narrowings, each a term with its domain, until one fails.       *)
NarrowAll(s, ps) == FoldLeft(LAMBDA r, p : Then(r, LAMBDA q : Narrow(q, p[1], p[2])), Ok(s), ps)

AddWatch(s, v, id) ==
  IF Contains(Watching(s, v), id) THEN s ELSE [s EXCEPT !.watch = Append(@, <<v, id>>)]

TermsOf(p) ==
  CASE p.kind = "lin" -> [i \in DOMAIN p.terms |-> p.terms[i][2]]
    [] OTHER -> p.of

PostProp(s, p) ==
  LET id == Len(s.props) + 1
      watch(r, v) == IF IsVar(v) THEN AddWatch(Constrain(r, v), v[2], id) ELSE r
      add(r, t) == watch(r, Deref(r.bind, t))
  IN  [FoldLeft(add, [s EXCEPT !.props = Append(@, p)], TermsOf(p)) EXCEPT !.queue = Append(@, id)]

(* Mutated: a variable bound to another leaves its propagators behind. *)
BoundTo_Watch(s, v, to) == Narrow(Enqueue(s, to[2]), to, Last(Entries(s, v))[2])

(* v was bound to the variable `to`: its propagators and its domain move.  *)
BoundTo(s, v, to) ==
  LET moved == FoldLeft(LAMBDA r, id : AddWatch(r, to[2], id), s, Watching(s, v))
  IN  Narrow(Enqueue(moved, to[2]), to, Last(Entries(s, v))[2])

Bound(s, v) ==
  LET to(t) == CASE t[1] = "int" -> IF t[2] \in Last(Entries(s, v))[2] THEN Ok(Enqueue(s, v)) ELSE No(s)
                 [] IsVar(t) -> BoundTo(s, v, t)
                 [] OTHER -> No(s)
  IN  IF Has(s, v) THEN to(Deref(s.bind, Var(v))) ELSE Ok(s)

-----------------------------------------------------------------------------
(* The propagators.                                                        *)

Total(q) == FoldLeft(LAMBDA a, b : a + b, 0, q)

(* What the domains of a propagator's terms make of each other, in rounds: *)
(* narrowings, each a term with a domain, from ds, the domain of each of   *)
(* its terms.                                                              *)
Nothing(t) == <<<<t, {}>>>>

(* The sum of terms plus k is at most 0, by bounds.                        *)
AtMostZero(terms, k, ds) ==
  LET least(c, d) == Mul(c, IF c > 0 THEN Min(d) ELSE Max(d))
      limit(c, room) == IF c > 0 THEN Interval(Inf, DivFloor(room, c)) ELSE Interval(DivCeil(room, c), Sup)
      room(min, acc) == IF min = Inf THEN -acc ELSE min - acc
      cut(i, min, acc) == <<terms[i][2], limit(terms[i][1], room(min, acc))>>
      told(mins, open) == SelectSeq([i \in DOMAIN terms |-> i], LAMBDA i : open = 0 \/ (open = 1 /\ mins[i] = Inf))
      tell(is, mins, acc) == [j \in DOMAIN is |-> cut(is[j], mins[is[j]], acc)]
      by(mins, open, acc) == IF open = 0 /\ acc > 0 THEN Nothing(terms[1][2]) ELSE tell(told(mins, open), mins, acc)
      sum(mins) == by(mins, Cardinality({i \in DOMAIN mins : mins[i] = Inf}),
                      k + Total(SelectSeq(mins, LAMBDA m : m # Inf)))
  IN  sum([i \in DOMAIN terms |-> least(terms[i][1], ds[i])])

Opposite(terms) == [i \in DOMAIN terms |-> <<-terms[i][1], terms[i][2]>>]

(* Checked when every term is fixed; the one value removed when one is not.*)
NotZero(terms, k, ds) ==
  LET open == {i \in DOMAIN ds : ~Single(ds[i])}
      remove(t, c, rest) == IF rest % Abs(c) = 0 THEN <<<<t, AnyInt \ {DivFloor(-rest, c)}>>>> ELSE <<>>
      but(i, rest) == remove(terms[i][2], terms[i][1], rest)
      by(rest) ==
        CASE open = {} -> IF rest = 0 THEN Nothing(terms[1][2]) ELSE <<>>
          [] Cardinality(open) = 1 -> but(Max(open), rest)
          [] OTHER -> <<>>
  IN  by(k + Total([i \in DOMAIN ds |-> IF i \in open THEN 0 ELSE terms[i][1] * Max(ds[i])]))

(* A product is within its factors' corners; a fixed factor other than 0   *)
(* divides the product's bounds, the second factor first.                  *)
Corners(x, y) ==
  LET hull(ns) == Interval(Min(ns), Max(ns))
  IN  hull({Mul(p, q) : p \in {Min(x), Max(x)}, q \in {Min(y), Max(y)}})
Quotient(v, z) ==
  IF v > 0 THEN Interval(DivCeil(Min(z), v), DivFloor(Max(z), v)) ELSE Interval(DivCeil(Max(z), v), DivFloor(Min(z), v))
Product(ts, round, ds) ==
  LET other(d) == IF Single(d) /\ d # {0} THEN Quotient(Max(d), ds[3]) ELSE AnyInt
  IN  IF round = 1 THEN <<<<ts[3], Corners(ds[1], ds[2])>>>>
      ELSE <<<<ts[round - 1], other(ds[4 - round])>>>>

(* Each of x and z = |x| bounds the other, by the sign x is known to have. *)
Absolute(ts, round, x, z) ==
  LET larger(m, n) == IF m > n THEN m ELSE n
      whole(e) == IF round = 1 THEN Interval(0, larger(-Min(e), Max(e))) ELSE Interval(-Max(e), Max(e))
      side(e) ==
        CASE Min(x) >= 0 -> Interval(Min(e), Max(e))
          [] Max(x) <= 0 /\ Min(x) < 0 -> Interval(-Max(e), -Min(e))
          [] OTHER -> whole(e)
  IN  <<<<ts[3 - round], side(IF round = 1 THEN x ELSE z)>>>>

Extreme(ts, round, ds, max) ==
  LET of(m, n) == IF (m < n) = max THEN n ELSE m
      hull(d, e) == Interval(of(Min(d), Min(e)), of(Max(d), Max(e)))
      within(d) == IF max THEN Interval(Inf, Max(d)) ELSE Interval(Min(d), Sup)
  IN  IF round = 1 THEN <<<<ts[3], hull(ds[1], ds[2])>>>>
      ELSE [i \in 1 .. 2 |-> <<ts[i], within(ds[3])>>]

(* Each fixed value is removed from the others, a round for each.          *)
Distinctly(ts, i, d) ==
  LET others == SelectSeq([j \in DOMAIN ts |-> j], LAMBDA j : j # i)
  IN  IF Single(d) THEN [j \in DOMAIN others |-> <<ts[others[j]], AnyInt \ d>>] ELSE <<>>

(* An equation is both of its halves. *)
Rounds(p) ==
  CASE p.kind = "lin" -> IF p.rel = "eq" THEN 2 ELSE 1
    [] p.kind \in {"abs", "min", "max"} -> 2
    [] p.kind = "times" -> 3
    [] p.kind = "distinct" -> Len(p.of)

Cuts(p, round, ds) ==
  CASE p.kind = "lin" /\ p.rel = "ne" -> NotZero(p.terms, p.k, ds)
    [] p.kind = "lin" /\ p.rel # "ne" ->
         AtMostZero(IF round = 1 THEN p.terms ELSE Opposite(p.terms), IF round = 1 THEN p.k ELSE -p.k, ds)
    [] p.kind = "times" -> Product(p.of, round, ds)
    [] p.kind = "abs" -> Absolute(p.of, round, ds[1], ds[2])
    [] p.kind \in {"min", "max"} -> Extreme(p.of, round, ds, p.kind = "max")
    [] p.kind = "distinct" -> Distinctly(p.of, round, ds[round])

Propagate(s, p) ==
  LET doms(r, ts) == [i \in DOMAIN ts |-> Dom(r, ts[i])]
      narrow(r, round) == NarrowAll(r, Cuts(p, round, doms(r, TermsOf(p))))
  IN  FoldLeft(LAMBDA r, i : Then(r, LAMBDA t : narrow(t, i)), Ok(s), [i \in 1 .. Rounds(p) |-> i])

-----------------------------------------------------------------------------
(* Reading a constraint goal.  A linear form is its terms, each a          *)
(* coefficient and a variable, and a constant; [bad] is a refusal.         *)

Lin(terms, k) == [terms |-> terms, k |-> k]
Plus(a, b) == Lin(a.terms \o b.terms, a.k + b.k)
Scaled(a, c) == Lin([i \in DOMAIN a.terms |-> <<c * a.terms[i][1], a.terms[i][2]>>], c * a.k)

NewVar(s) == [s EXCEPT !.bind = Append(@, Unbound), !.doms = Append(@, <<Len(s.bind) + 1, AnyInt>>)]

(* A variable for a form, unless it is one already.                        *)
VarFor(s, l) ==
  LET z == Var(Len(s.bind) + 1)
      equation == [kind |-> "lin", terms |-> Append(l.terms, <<-1, z>>), k |-> l.k, rel |-> "eq"]
  IN  IF l.k = 0 /\ Len(l.terms) = 1 /\ l.terms[1][1] = 1 THEN [s |-> s, v |-> l.terms[1][2]]
      ELSE [s |-> PostProp(NewVar(s), equation), v |-> z]

(* A variable z for what is not linear, with the propagator that makes it. *)
Introduced(s, kind, lins) ==
  LET with(x, vs) == [s |-> x.s, vs |-> Append(vs, x.v)]
      z(r) == Var(Len(r.s.bind) + 1)
      post(r) == [ok |-> TRUE, lin |-> Lin(<<<<1, z(r)>>>>, 0),
                  s |-> PostProp(NewVar(r.s), [kind |-> kind, of |-> Append(r.vs, z(r))])]
  IN  post(FoldLeft(LAMBDA r, l : with(VarFor(r.s, l), r.vs), [s |-> s, vs |-> <<>>], lins))

(* + - * and their like over forms already read; two constants fold.       *)
Functions1 == {"-", "abs"}
Functions2 == {"+", "-", "*", "min", "max"}
Combined(s, f, ls) ==
  LET done(l) == [ok |-> TRUE, s |-> s, lin |-> l]
      constant(i) == ls[i].terms = <<>>
      fold(ks) == CASE f = "abs" -> Abs(ks[1]) [] f = "min" -> Min({ks[1], ks[2]}) [] f = "max" -> Max({ks[1], ks[2]})
      linear == CASE Len(ls) = 1 -> Scaled(ls[1], -1)
                  [] f = "+" -> Plus(ls[1], ls[2])
                  [] f = "-" /\ Len(ls) = 2 -> Plus(ls[1], Scaled(ls[2], -1))
                  [] f = "*" /\ constant(1) -> Scaled(ls[2], ls[1].k)
                  [] f = "*" /\ ~constant(1) -> Scaled(ls[1], ls[2].k)
  IN  CASE f \in {"+", "-"} \/ (f = "*" /\ (constant(1) \/ constant(2))) -> done(linear)
        [] f \in {"abs", "min", "max"} /\ (\A i \in DOMAIN ls : constant(i)) ->
             done(Lin(<<>>, fold([i \in DOMAIN ls |-> ls[i].k])))
        [] OTHER -> Introduced(s, IF f = "*" THEN "times" ELSE f, ls)

RECURSIVE Linear(_, _)
Linear(s, t) ==
  LET read(l) == [ok |-> TRUE, s |-> s, lin |-> l]
      refused == [ok |-> FALSE, s |-> s, lin |-> Lin(<<>>, 0)]
      onto(ls, r) == [ok |-> r.ok, s |-> r.s, lins |-> Append(ls, r.lin)]
      all(as) == FoldLeft(LAMBDA r, a : IF r.ok THEN onto(r.lins, Linear(r.s, a)) ELSE r,
                          [ok |-> TRUE, s |-> s, lins |-> <<>>], as)
      combine(f, r) == IF r.ok THEN Combined(r.s, f, r.lins) ELSE refused
      of(d) ==
        CASE d[1] = "int" -> read(Lin(<<>>, d[2]))
          [] IsVar(d) -> read(Lin(<<<<1, d>>>>, 0))
          [] d[1] = "struct" /\ d[2] \in (IF Len(d[3]) = 1 THEN Functions1 ELSE Functions2) /\ Len(d[3]) <= 2 ->
               combine(d[2], all(d[3]))
          [] OTHER -> refused
  IN  of(Deref(s.bind, t))

(* Each variable once, an INT folded into the constant.                    *)
Collected(s, l) ==
  LET sum(ts, t) == Total([i \in DOMAIN ts |-> IF ts[i][2] = t THEN ts[i][1] ELSE 0])
      consts(ts) == Total([i \in DOMAIN ts |-> IF IsVar(ts[i][2]) THEN 0 ELSE ts[i][1] * ts[i][2][2]])
      named(ns) == [i \in DOMAIN ns |-> Var(ns[i])]
      once(ts) == named(VarsOf([i \in DOMAIN ts |-> ts[i][2]]))
      form(ts, vs) == Lin([i \in DOMAIN vs |-> <<sum(ts, vs[i]), vs[i]>>], l.k + consts(ts))
      of(ts) == form(ts, SelectSeq(once(ts), LAMBDA v : sum(ts, v) # 0))
  IN  of(Built([i \in DOMAIN l.terms |-> <<l.terms[i][1], Deref(s.bind, l.terms[i][2])>>]))

Relations == {"#=", "#<>", "#<", "#<=", "#>", "#>="}

(* Post a relation: a form and how it compares with 0.                     *)
Relation(s, name, a, b) ==
  LET less(p, q, strict) == Plus(Plus(p, Scaled(q, -1)), Lin(<<>>, strict))
      form(x, y) == IF name \in {"#>", "#>="} THEN less(y, x, IF name = "#>" THEN 1 ELSE 0)
                    ELSE less(x, y, IF name = "#<" THEN 1 ELSE 0)
      rel == CASE name = "#=" -> "eq" [] name = "#<>" -> "ne" [] OTHER -> "le"
      holds(k) == CASE rel = "eq" -> k = 0 [] rel = "ne" -> k # 0 [] rel = "le" -> k <= 0
      post(t, l) == IF l.terms = <<>> THEN [ok |-> holds(l.k), s |-> t]
                    ELSE Ok(PostProp(t, [kind |-> "lin", terms |-> l.terms, k |-> l.k, rel |-> rel]))
      right(x, y) == IF y.ok THEN [bad |-> FALSE] @@ post(y.s, Collected(y.s, form(x, y.lin))) ELSE [bad |-> TRUE]
      left(x) == IF x.ok THEN right(x.lin, Linear(x.s, b)) ELSE [bad |-> TRUE]
  IN  left(Linear(s, a))

(* A bound of an interval, and a LIST of variables and INTs.               *)
BoundOf(s, t) ==
  LET of(d) == CASE d[1] = "int" -> {d[2]} [] d = Atom("inf") -> {Inf} [] d = Atom("sup") -> {Sup} [] OTHER -> {}
  IN  of(Deref(s.bind, t))
BoundsOk(s, lo, hi) ==
  \E l \in BoundOf(s, lo), h \in BoundOf(s, hi) : l <= h
The(S) == CHOOSE x \in S : TRUE
IntervalOf(s, lo, hi) == Interval(The(BoundOf(s, lo)), The(BoundOf(s, hi)))
IsList(s, l) == Spine(s.bind, l).end = Nil
AllVariables(s, l) == IsList(s, l) /\ \A x \in ToSet(Spine(s.bind, l).items) : IsIntTerm(s, x)
=============================================================================
