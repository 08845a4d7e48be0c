-------------------------------- MODULE MCKb --------------------------------
(***************************************************************************)
(* The programs the engine runs, each chosen for what it makes meet.       *)
(***************************************************************************)
EXTENDS KbSaturate

T(f, args) == Struct(f, args)
V(n) == Var(n)
a == Atom("a")
b == Atom("b")
c == Atom("c")
I(n) == Int_(n)
L(ts) == ListOf(ts)
P(x) == T("p", <<x>>)
Q(x) == T("q", <<x>>)
True_ == Atom("true")
False_ == Atom("false")

(* A clause as its terms, the head first, and the names of its variables.  *)
Clause(ts, names) == [ts |-> ts, names |-> names]
Rules(rs) == [i \in DOMAIN rs |-> Clause(rs[i], NoScope)]
Facts(f, argss) == [i \in DOMAIN argss |-> Clause(<<T(f, argss[i])>>, NoScope)]
Unary(f, xs) == <<f, 1>> :> Facts(f, [i \in DOMAIN xs |-> <<xs[i]>>])
Edges(es) == <<"edge", 2>> :> Facts("edge", es)
Edge(x, y) == T("edge", <<x, y>>)
Path(x, y) == T("path", <<x, y>>)

Base == [preds |-> [x \in {} |-> <<>>], tabled |-> {}, askable |-> {}, cap |-> 0, goal |-> True_,
         lambdas |-> NoScope, says |-> {}, askFails |-> FALSE, known |-> <<>>, trips |-> FALSE,
         limit |-> NoLimit, skip |-> 0, lambdaFails |-> FALSE, family |-> "order", universe |-> {},
         order |-> <<>>, views |-> NoScope]
Asks(preds, goal) == [Base EXCEPT !.preds = preds, !.goal = goal]

-----------------------------------------------------------------------------
(* In order: control, dif, bridges, questions.                             *)

Append_ == <<"app", 3>> :> Rules(<<
  <<T("app", <<Nil, V(1), V(1)>>)>>,
  <<T("app", <<Link(V(1), V(2)), V(3), Link(V(1), V(4))>>), T("app", <<V(2), V(3), V(4)>>)>> >>)

Few == Unary("p", <<I(1), I(2), I(3)>>) @@ Unary("q", <<I(2), I(3)>>)

(* A clause keyed by each kind of first argument, and one by a variable.   *)
Mixed == <<"m", 2>> :> Facts("m", << <<I(1), a>>, <<V(1), b>>, <<Nil, c>>, <<Link(V(1), V(2)), c>>,
                                     <<T("f", <<V(1)>>), a>>, <<a, V(1)>>, <<Opaque("o"), a>> >>)

(* Two clause instances, the inner one with a lambda of its own.           *)
Doubles == [x \in {"outer", "inner"} |->
              [reads |-> IF x = "outer" THEN <<"X", "Z">> ELSE <<"X">>,
               left |-> IF x = "outer" THEN [p \in {I(1), I(2)} \X {I(2), I(4)} |-> I(p[1][2] + p[2][2])]
                        ELSE [p \in [1 .. 1 -> {I(1), I(2)}] |-> I(2 * p[1][2])]]]
Bridged ==
  Unary("p", <<I(1), I(2)>>)
  @@ <<"dbl", 2>> :> <<Clause(<<T("dbl", <<V(1), V(2)>>), T("is", <<V(2), Opaque("inner")>>)>>, [X |-> V(1)])>>
  @@ <<"s", 2>> :> <<Clause(<<T("s", <<V(1), V(2)>>), P(V(1)), T("dbl", <<V(1), V(3)>>), T("is", <<V(2), Opaque("outer")>>)>>,
                            [X |-> V(1), Z |-> V(3)])>>
Tests == [x \in {"even", "upto", "bad", "list?"} |->
            [reads |-> <<"X">>,
             left |-> [p \in [1 .. 1 -> {I(1), I(2)}] |->
                         CASE x = "even" -> IF p[1] = I(2) THEN True_ ELSE False_
                           [] x = "upto" -> IF p[1] = I(2) THEN L(<<I(1), I(2)>>) ELSE L(<<I(1)>>)
                           [] x = "bad" -> Raised
                           [] x = "list?" -> I(7)]]]
Tested(goal) ==
  [Asks(Unary("p", <<I(1), I(2)>>) @@ <<"t", 2>> :> <<Clause(<<T("t", <<V(1), V(2)>>), goal>>, [X |-> V(1)])>>,
        L(<<P(V(1)), T("t", <<V(1), V(2)>>)>>)) EXCEPT !.lambdas = Tests]

Askable ==
  [Asks(Unary("p", <<a, b, c>>) @@ Unary("q", <<a>>) @@ Unary("r", <<b, c>>),
        L(<<P(V(1)), Q(V(1)), T("or", <<True_, Q(c)>>), T("r", <<V(1)>>)>>))
     EXCEPT !.askable = {<<"q", 1>>}, !.says = BOOLEAN]

InOrder ==
  << Asks(Append_, T("app", <<V(1), V(2), L(<<a, b>>)>>)),
     Asks(Append_, L(<<T("app", <<L(<<a>>), V(1), V(2)>>), T("=", <<V(1), L(<<b>>)>>)>>)),
     Asks(Few, L(<<P(V(1)), T("not", <<Q(V(1)), T("dif", <<V(1), I(3)>>)>>)>>)),
     Asks(Few, L(<<T("once", <<P(V(1)), Q(V(1))>>), T("or", <<T("=", <<V(2), V(1)>>), Q(V(2)), Atom("fail")>>)>>)),
     Asks(Few, L(<<P(V(1)), T("if", <<Q(V(1)), T("or", <<T("=", <<V(2), a>>), T("=", <<V(2), b>>)>>), T("=", <<V(2), c>>)>>)>>)),
     Asks(Few, T("findall", <<T("pair", <<V(1), V(2)>>), L(<<T("call", <<Atom("p"), V(1)>>), T("not", <<Q(V(1))>>)>>), V(3)>>)),
     Asks(Few, L(<<T("findall", <<V(1), T("if", <<Q(V(1)), P(V(1)), Atom("fail")>>), V(2)>>), T("in", <<V(3), V(2)>>),
                   T("call", <<T("dif", <<V(3)>>), I(9)>>), T("call", <<Q(V(3))>>)>>)),
     Asks(Mixed, T("m", <<V(1), V(2)>>)), Asks(Mixed, T("m", <<I(1), V(1)>>)), Asks(Mixed, T("m", <<Nil, V(1)>>)),
     Asks(Mixed, T("m", <<L(<<b>>), V(1)>>)), Asks(Mixed, T("m", <<T("f", <<b>>), V(1)>>)), Asks(Mixed, T("m", <<a, V(1)>>)),
     Asks(Mixed, T("m", <<T("g", <<b>>), V(1)>>)),
     Asks(Few, L(<<T("dif", <<T("f", <<V(1), V(2)>>), T("f", <<V(3), I(2)>>)>>), P(V(1)), Q(V(2)), Q(V(3))>>)),
     Asks(Few, L(<<T("dif", <<V(1), V(2)>>), T("dif", <<V(2), T("g", <<V(3)>>)>>), T("=", <<V(1), T("g", <<V(4)>>)>>),
                   T("or", <<T("=", <<V(2), T("g", <<V(4)>>)>>), T("=", <<V(2), T("g", <<V(5)>>)>>)>>)>>)),
     Asks(Few, L(<<T("dif", <<V(1), T("g", <<V(2)>>)>>), T("=", <<V(1), T("g", <<V(3)>>)>>), T("or", <<T("=", <<V(3), V(2)>>), T("=", <<V(3), a>>)>>)>>)),
     Asks(Few, L(<<T("or", <<T("dif", <<V(1), V(2)>>), True_>>), P(V(1)), P(V(2))>>)),
     Asks(Few, T("=", <<V(1), T("f", <<V(1)>>)>>)),
     [Asks(Bridged, T("s", <<V(1), V(2)>>)) EXCEPT !.lambdas = Doubles],
     Tested(L(<<T("test", <<Opaque("even")>>), T("=", <<V(2), V(1)>>)>>)), Tested(T("in", <<V(2), Opaque("upto")>>)),
     Askable, [Askable EXCEPT !.known = <<[goal |-> Q(b), yes |-> TRUE]>>, !.limit = 2, !.askFails = TRUE],
     [Askable EXCEPT !.preds = Unary("p", <<a, b, a>>) @@ Unary("r", <<V(1)>>)],
     [Asks(Few, L(<<P(V(1)), P(V(2))>>)) EXCEPT !.skip = 2, !.limit = 3, !.lambdaFails = TRUE] >>

-----------------------------------------------------------------------------
(* Stopped: by the guard, the cap, or a refusal.                           *)

Loop == <<"n", 1>> :> Rules(<< <<T("n", <<I(0)>>)>>, <<T("n", <<T("s", <<V(1)>>)>>), T("n", <<V(1)>>)>> >>)
Refusals ==
  << T("call", <<V(1)>>), V(1), I(3), Nil, Link(True_, V(1)), T("call", <<I(1), a>>), Atom("call"),
     T("in", <<V(1), a>>), T("test", <<a>>), T("is", <<V(1), V(2)>>), T("in", <<V(1), I(2), I(1)>>),
     T("in", <<V(1), a, I(1)>>), T("ins", <<V(1), I(1), I(2)>>), T("fd_dom", <<V(1), L(<<I(1)>>)>>),
     T("all_different", <<L(<<a>>)>>), T("#=", <<V(1), T("+", <<a, I(1)>>)>>), T("label", <<L(<<V(1)>>)>>),
     T("labeling", <<L(<<a>>), L(<<I(1)>>)>>), T("unknown", <<a>>), Q(V(1)) >>
Stopped ==
  Built([i \in DOMAIN Refusals |-> [Asks(Few, L(<<P(I(1)), Refusals[i]>>)) EXCEPT !.askable = {<<"q", 1>>}, !.preds = Unary("p", <<I(1)>>)]])
  \o << [Asks(Loop, T("n", <<V(1)>>)) EXCEPT !.cap = 12, !.trips = TRUE],
        [Asks(Loop, L(<<T("in", <<V(1), I(0), I(3)>>), T("#<", <<V(1), I(3)>>), T("label", <<L(<<V(1)>>)>>), T("n", <<V(2)>>)>>)) EXCEPT !.cap = 11],
        Tested(L(<<T("test", <<Opaque("upto")>>)>>)), Tested(T("is", <<V(2), Opaque("bad")>>)),
        Tested(T("in", <<V(2), Opaque("list?")>>)) >>

-----------------------------------------------------------------------------
(* Over a finite universe: tables, negation, dif, finite domains.          *)

LeftPath == <<"path", 2>> :> Rules(<< <<Path(V(1), V(2)), Path(V(1), V(3)), Edge(V(3), V(2))>>, <<Path(V(1), V(2)), Edge(V(1), V(2))>> >>)
RightPath == <<"path", 2>> :> Rules(<< <<Path(V(1), V(2)), Edge(V(1), V(3)), Path(V(3), V(2))>>, <<Path(V(1), V(2)), Edge(V(1), V(2))>> >>)
Cycle == Edges(<< <<a, b>>, <<b, a>>, <<b, c>> >>)
Line == Edges(<< <<a, b>>, <<b, c>> >>)
Nodes == Unary("node", <<a, b, c>>)
Over_(preds, tabled, goal) ==
  [Asks(preds, goal) EXCEPT !.tabled = tabled, !.family = "model", !.universe = {a, b, c}]

(* Three predicates in one component, entered in an order in which the     *)
(* first answer of one comes when the others' clauses have run.            *)
Mutual ==
  Unary("u", <<a>>) @@
  <<"p", 1>> :> Rules(<< <<P(V(1)), Q(V(1))>>, <<P(b)>> >>)
  @@ <<"q", 1>> :> Rules(<< <<Q(V(1)), T("r", <<V(1)>>)>>, <<Q(c), P(b)>> >>)
  @@ <<"r", 1>> :> Rules(<< <<T("r", <<V(1)>>), P(V(1))>>, <<T("r", <<a>>), Q(c)>> >>)

Win(x) == T("win", <<x>>)
Winning == <<"win", 1>> :> Rules(<< <<Win(V(1)), Edge(V(1), V(2)), T("not", <<Win(V(2))>>)>> >>)
Unreached == <<"far", 1>> :> Rules(<< <<T("far", <<V(1)>>), T("node", <<V(1)>>), T("not", <<Path(a, V(1))>>)>> >>)
Others == <<"other", 2>> :> Rules(<< <<T("other", <<V(1), V(2)>>), T("dif", <<V(1), V(2)>>), T("or", <<T("=", <<V(2), a>>), T("=", <<V(2), b>>)>>)>> >>)

(* Every graph over a, b and c without loops, through left and right       *)
(* recursion, and under a negation.                                        *)
Arcs == << <<a, b>>, <<b, c>>, <<c, a>>, <<b, a>>, <<a, c>>, <<c, b>> >>
Graph(n) == LET kept == SelectSeq([i \in DOMAIN Arcs |-> i], LAMBDA i : (n \div 2 ^ (i - 1)) % 2 = 1)
            IN  Edges([i \in DOMAIN kept |-> Arcs[kept[i]]])
Graphs(Program(_)) == [n \in 1 .. 2 ^ Len(Arcs) |-> Program(Graph(n - 1))]

(* Three unary predicates that call each other in each of six ways.        *)
Ways(f, g, h) ==
  LET x == V(1)
      F(t) == T(f, <<t>>)
      G_(t) == T(g, <<t>>)
      H(t) == T(h, <<t>>)
  IN  << << <<F(a)>> >>, << <<F(x), G_(x)>> >>, << <<F(b)>>, <<F(x), H(x)>> >>,
         << <<F(x), G_(x), H(x)>>, <<F(x), F(x)>> >>, << <<F(x), T("node", <<x>>), T("not", <<G_(x)>>)>> >>,
         << <<F(x), H(x)>>, <<F(x), G_(x)>>, <<F(a)>> >> >>
Webs ==
  LET of(i, j, k) == Unary("node", <<a, b>>) @@ <<"p", 1>> :> Rules(Ways("p", "q", "r")[i])
                     @@ <<"q", 1>> :> Rules(Ways("q", "r", "p")[j]) @@ <<"r", 1>> :> Rules(Ways("r", "p", "q")[k])
  IN  [n \in 1 .. 216 |->
         [Over_(of(((n - 1) % 6) + 1, (((n - 1) \div 6) % 6) + 1, ((n - 1) \div 36) + 1), {<<"p", 1>>, <<"q", 1>>, <<"r", 1>>}, L(<<P(V(1)), Q(V(2))>>))
            EXCEPT !.universe = {a, b}]]

Ints == {I(n) : n \in -1 .. 4}
Fd(goals) == [Asks(NoScope, L(goals)) EXCEPT !.family = "model", !.universe = Ints]
Dom_(x, lo, hi) == T("in", <<x, I(lo), I(hi)>>)
Label(xs) == T("label", <<L(xs)>>)
Plus_(x, y) == T("+", <<x, y>>)

OverModels ==
  << Over_(LeftPath @@ Cycle, {<<"path", 2>>}, Path(a, V(1))),
     Over_(RightPath @@ Cycle, {<<"path", 2>>}, Path(V(1), V(2))),
     Over_(Mutual, {<<"p", 1>>, <<"q", 1>>, <<"r", 1>>}, P(V(1))),
     Over_(Mutual, {<<"p", 1>>, <<"q", 1>>, <<"r", 1>>}, L(<<T("r", <<V(1)>>), Q(V(1))>>)),
     Over_(LeftPath @@ Line @@ Nodes @@ Unreached, {<<"path", 2>>, <<"far", 1>>}, T("far", <<V(1)>>)),
     Over_(Winning @@ Line @@ Nodes, {<<"win", 1>>}, L(<<T("node", <<V(1)>>), T("if", <<Win(V(1)), T("=", <<V(2), a>>), T("=", <<V(2), b>>)>>)>>)),
     [Over_(Winning @@ Cycle, {<<"win", 1>>}, Win(V(1))) EXCEPT !.universe = {a, b}],
     Over_(Others, {<<"other", 2>>}, L(<<T("dif", <<V(1), c>>), T("other", <<V(1), V(2)>>)>>)),
     Over_(Others, {<<"other", 2>>}, L(<<T("other", <<V(1), V(2)>>), T("other", <<V(2), V(1)>>)>>)),
     Over_(Nodes, {<<"none", 1>>}, L(<<T("node", <<V(1)>>), T("not", <<T("none", <<V(1)>>)>>), T("dif", <<V(1), b>>)>>)) >>
  \o Webs
  \o Graphs(LAMBDA g : Over_(LeftPath @@ g, {<<"path", 2>>}, Path(V(1), V(2))))
  \o Graphs(LAMBDA g : Over_(RightPath @@ g, {<<"path", 2>>}, L(<<Path(V(1), V(1)), Path(V(1), V(2))>>)))
  \o Graphs(LAMBDA g : Over_(LeftPath @@ g @@ Nodes @@ Unreached, {<<"path", 2>>, <<"far", 1>>}, T("far", <<V(1)>>)))

Constraints ==
  << Fd(<<Dom_(V(1), 0, 3), Dom_(V(2), 0, 3), T("#=", <<Plus_(V(1), V(2)), I(4)>>), T("#<", <<V(1), V(2)>>), Label(<<V(1), V(2)>>)>>),
     Fd(<<T("ins", <<L(<<V(1), V(2)>>), I(0), I(3)>>), T("#=", <<T("*", <<V(1), V(2)>>), I(3)>>), T("labeling", <<L(<<Atom("down")>>), L(<<V(1), V(2)>>)>>)>>),
     Fd(<<T("ins", <<L(<<V(1), V(2), V(3)>>), I(1), I(3)>>), T("all_different", <<L(<<V(1), V(2), V(3)>>)>>), T("#<>", <<Plus_(V(1), V(2)), I(3)>>),
          T("labeling", <<L(<<Atom("ff")>>), L(<<V(1), V(2), V(3)>>)>>)>>),
     Fd(<<T("in", <<V(1), I(-1), I(2)>>), T("in", <<V(2), Atom("inf"), I(4)>>), T("#=", <<V(2), T("abs", <<V(1)>>)>>), T("#>=", <<V(2), I(1)>>), Label(<<V(1), V(2)>>)>>),
     Fd(<<T("fd_dom", <<V(1), L(<<L(<<I(0), I(0)>>), L(<<I(2), I(3)>>)>>)>>), Dom_(V(2), 1, 2), Dom_(V(3), -1, 4),
          T("#=", <<V(3), T("max", <<V(1), V(2)>>)>>), T("#>", <<T("-", <<V(3), T("min", <<V(1), V(2)>>)>>), I(0)>>), Label(<<V(1), V(2), V(3)>>)>>),
     Fd(<<Dom_(V(1), 0, 3), Dom_(V(2), 2, 4), T("dif", <<V(1), I(3)>>), T("=", <<V(1), V(2)>>), T("#<=", <<V(1), I(3)>>), Label(<<V(1)>>)>>),
     Fd(<<Dom_(V(1), 0, 2), T("#=", <<V(2), Plus_(V(1), I(1))>>), T("or", <<T("=", <<V(3), V(2)>>), T("=", <<V(3), V(1)>>)>>), T("#<>", <<V(3), I(1)>>),
          Label(<<V(2), V(3)>>), T("not", <<T("#=", <<V(3), I(3)>>)>>)>>),
     Fd(<<T("ins", <<L(<<V(1), V(2), V(3), V(4)>>), I(0), I(2)>>), T("#<", <<V(3), V(4)>>), T("=", <<V(1), V(3)>>), T("=", <<V(4), V(2)>>), Label(<<V(1), V(2)>>)>>) >>

-----------------------------------------------------------------------------
(* Saturated.                                                              *)

ViewNames == [f \in {"path", "edge", "node", "far", "p", "q", "tw"} |-> <<"$old:" \o f, "$new:" \o f>>]
Saturates(preds, order) ==
  [Asks(preds, T(Join[1], <<V(1), V(2)>>)) EXCEPT !.family = "saturate", !.universe = {a, b, c}, !.order = order, !.views = ViewNames]
Twice == <<"path", 2>> :> Rules(<< <<Path(V(1), V(2)), Edge(V(1), V(2))>>, <<Path(V(1), V(2)), Path(V(1), V(3)), Path(V(3), V(2))>> >>)
Filtered == <<"far", 1>> :> Rules(<< <<T("far", <<V(1)>>), T("call", <<Atom("node"), V(1)>>), T("not", <<Path(V(1), V(1))>>), T("=", <<V(2), V(1)>>), T("dif", <<V(2), a>>)>> >>)
Refuses(ts) == Saturates(Unary("p", <<a>>) @@ <<"q", 1>> :> Rules(<<ts>>), << <<"p", 1>>, <<"q", 1>> >>)

Saturations ==
  << Saturates(Twice @@ Cycle, << <<"edge", 2>>, <<"path", 2>> >>),
     Saturates(LeftPath @@ Edges(<< <<a, b>>, <<b, c>>, <<c, a>>, <<a, b>> >>), << <<"edge", 2>>, <<"path", 2>> >>),
     Saturates(Twice @@ Line @@ Nodes @@ Filtered, << <<"edge", 2>>, <<"far", 1>>, <<"node", 1>>, <<"path", 2>> >>),
     [Saturates(Twice @@ Cycle, << <<"edge", 2>>, <<"path", 2>> >>) EXCEPT !.cap = 20],
     Refuses(<<Q(V(1)), P(V(2))>>), Refuses(<<Q(a), T("or", <<P(a), P(b)>>)>>), Refuses(<<Q(a), P(V(1)), T("call", <<V(1)>>)>>),
     Refuses(<<Q(V(1)), P(V(1)), T("not", <<Q(V(1))>>)>>) >>
  \o Graphs(LAMBDA g : Saturates(Twice @@ g @@ Nodes @@ Filtered, << <<"edge", 2>>, <<"far", 1>>, <<"node", 1>>, <<"path", 2>> >>))

(* Its variables numbered by first occurrence. *)
Compiled(k) ==
  LET split(ts, names) == [head |-> Head(ts), body |-> Tail(ts), names |-> names]
      clause(r) == split(Template([i \in 1 .. 6 |-> Unbound], r.ts), r.names)
  IN  [k EXCEPT !.preds = [key \in DOMAIN @ |-> Built([i \in DOMAIN @[key] |-> clause(@[key][i])])]]
AllCompiled(ks) == Built([i \in DOMAIN ks |-> Compiled(ks[i])])

(* A tabled call whose variable has a domain: its table is read again by a *)
(* call without one.                                                       *)
Within_ ==
  [Asks(Unary("p", <<I(1), I(5)>>), L(<<Dom_(V(1), 1, 3), P(V(1)), P(V(2))>>))
     EXCEPT !.tabled = {<<"p", 1>>}, !.family = "model", !.universe = {I(1), I(5)}]

MCDomains == AllCompiled(<<Within_>>)
MCKbs == AllCompiled(InOrder \o Stopped \o OverModels \o Constraints \o Saturations)
=============================================================================
