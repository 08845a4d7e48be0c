---------------------------- MODULE KbReference -----------------------------
(***************************************************************************)
(* What the engine of KbSolve must answer, said twice without it: the      *)
(* sequence of solutions a depth-first reading of the program has, goal by *)
(* goal and clause by clause, for the programs that end without tables;    *)
(* and for those over a finite universe the model of the program, with its *)
(* negations, as a set of ground atoms.  And the properties of KbSolve     *)
(* against both.                                                           *)
(***************************************************************************)
EXTENDS KbSolve

(* In order.  m is the record a unification needs, with the difs met so    *)
(* far: a disequality fails exactly when its two sides are one term.       *)
Apart(m) == \A i \in DOMAIN m.posted : Resolved(m.bind, m.posted[i][1]) # Resolved(m.bind, m.posted[i][2])
Kept_(m) == IF Apart(m) THEN <<m>> ELSE <<>>
Equal(m, a, b) == LET kept(u) == IF u.ok THEN Kept_(u.s) ELSE <<>> IN kept(Unify(m, a, b, {}))
Chain(ms, Op(_)) == FlattenSeq([i \in DOMAIN ms |-> Op(ms[i])])

Copied(m, ts) == [m EXCEPT !.bind = Fresh(@, Len(VarsOf(ts)))]
CopiedList(m, ts) ==
  FoldLeft(LAMBDA r, t : [m |-> Copied(r.m, <<t>>), items |-> r.items \o Renamed(r.m.bind, <<t>>)],
           [m |-> m, items |-> <<>>], ts)

SaysYes(g) == \E i \in DOMAIN replies : replies[i].goal = g /\ replies[i].yes

(* The solutions of goals, and of one, in the clause instance that has     *)
(* the named variables sc.                                                 *)
RECURSIVE Solutions(_, _, _), SolutionsOf(_, _, _), ByClauses(_, _)
Solutions(m, ts, sc) ==
  IF ts = <<>> THEN <<m>>
  ELSE Chain(SolutionsOf(m, Head(ts), sc), LAMBDA n : Solutions(n, Tail(ts), sc))

SolutionsOf(m, t, sc) ==
  LET items(l) == Spine(m.bind, l).items
      lambda(l) == kb.lambdas[l[2]]
      left(l) == lambda(l).left[[i \in DOMAIN lambda(l).reads |-> Resolved(m.bind, sc[lambda(l).reads[i]])]]
      list(ts) == IF ts[1] = "opaque" THEN items(left(ts)) ELSE items(ts)
      first(ms) == IF ms = <<>> THEN <<>> ELSE <<ms[1]>>
      none(ms) == IF ms = <<>> THEN <<m>> ELSE <<>>
      branch(cond, a) == IF cond = <<>> THEN SolutionsOf(m, a[3], sc) ELSE SolutionsOf(cond[1], a[2], sc)
      bag(all, l) == Equal(all.m, l, ListOf(all.items))
      copies(proofs, x) == CopiedList(m, [i \in DOMAIN proofs |-> Template(proofs[i].bind, <<x>>)[1]])
      told(ms, g) == IF KeyOf(g) \in kb.askable /\ ms = <<>> THEN (IF SaysYes(Resolved(m.bind, g)) THEN <<m>> ELSE <<>>) ELSE ms
      of(g, f, a) ==
        CASE g[1] = "cons" -> Solutions(m, items(g), sc)
          [] f = "true" -> <<m>>
          [] f = "fail" -> <<>>
          [] f = "=" -> Equal(m, a[1], a[2])
          [] f = "dif" -> Kept_([m EXCEPT !.posted = Append(@, <<a[1], a[2]>>)])
          [] f = "not" -> none(Solutions(m, a, sc))
          [] f = "once" -> first(Solutions(m, a, sc))
          [] f = "or" -> Chain(a, LAMBDA b : SolutionsOf(m, b, sc))
          [] f = "if" -> branch(SolutionsOf(m, a[1], sc), a)
          [] f = "call" -> SolutionsOf(m, Applied(Deref(m.bind, a[1]), Tail(a)), sc)
          [] f = "findall" -> bag(copies(Solutions(m, <<a[2]>>, sc), a[1]), a[3])
          [] f = "in" -> Chain(list(Deref(m.bind, a[2])), LAMBDA x : Equal(m, a[1], x))
          [] f = "is" -> Equal(m, a[1], left(Deref(m.bind, a[2])))
          [] f = "test" -> IF left(Deref(m.bind, a[1])) = Atom("true") THEN <<m>> ELSE <<>>
          [] OTHER -> told(ByClauses(m, g), g)
      goal(g) == of(g, Functor(g), Args(g))
  IN  goal(Deref(m.bind, t))

ByClauses(m, g) ==
  LET named(c) == [x \in DOMAIN c.names |-> Var(Len(m.bind) + c.names[x][2])]
      body(fresh, ts, sc) == Chain(Equal(fresh, g, ts[1]), LAMBDA u : Solutions(u, Tail(ts), sc))
      instance(c, ts) == body(Copied(m, ts), Renamed(m.bind, ts), named(c))
  IN  Chain(Clauses(KeyOf(g)), LAMBDA c : instance(c, <<c.head>> \o c.body))

Waiting(m) == SelectSeq(m.posted, LAMBDA p : Unify(m, p[1], p[2], {}).ok)
InOrder_ ==
  LET m == [bind |-> [i \in DOMAIN GoalVars |-> Unbound], trail |-> <<>>, posted |-> <<>>]
      read(ms) == [i \in DOMAIN ms |-> Template(ms[i].bind, GoalVars \o Pairs(Waiting(ms[i])))]
  IN  read(Solutions(m, <<kb.goal>>, NoScope))

-----------------------------------------------------------------------------
(* The model of a program over the terms of k.universe.                    *)

Instances(k, n) == [1 .. n -> k.universe]
NumVars(ts) == Len(VarsOf(ts))

RECURSIVE Value(_)
Value(t) ==
  LET of(f, a) ==
        CASE f = "+" -> Value(a[1]) + Value(a[2])
          [] f = "-" /\ Len(a) = 2 -> Value(a[1]) - Value(a[2])
          [] f = "-" /\ Len(a) = 1 -> -Value(a[1])
          [] f = "*" -> Value(a[1]) * Value(a[2])
          [] f = "abs" -> Abs(Value(a[1]))
          [] f = "min" -> Min({Value(a[1]), Value(a[2])})
          [] f = "max" -> Max({Value(a[1]), Value(a[2])})
          [] f = "inf" -> Inf
          [] f = "sup" -> Sup
  IN  IF t[1] = "int" THEN t[2] ELSE of(Functor(t), Args(t))

Compares(f, x, y) ==
  CASE f = "#=" -> x = y [] f = "#<>" -> x # y [] f = "#<" -> x < y
    [] f = "#<=" -> x <= y [] f = "#>" -> x > y [] f = "#>=" -> x >= y

RECURSIVE Elements(_)
Elements(l) == IF l = Nil THEN <<>> ELSE <<l[2]>> \o Elements(l[3])
Between(x, lo, hi) == x[1] = "int" /\ Value(lo) <= x[2] /\ x[2] <= Value(hi)

(* A ground goal, where the atoms of pos are true and, under a negation,   *)
(* those of neg.                                                           *)
RECURSIVE True(_, _, _)
True(t, pos, neg) ==
  LET all(ts) == \A i \in DOMAIN ts : True(ts[i], neg, pos)
      member(x, p) == Between(x, p[1], p[2])
      of(f, a) ==
        CASE f = "true" -> TRUE
          [] f = "fail" -> FALSE
          [] f = "=" -> a[1] = a[2]
          [] f = "dif" -> a[1] # a[2]
          [] f = "not" -> ~all(a)
          [] f = "call" -> True(Applied(a[1], Tail(a)), pos, neg)
          [] f = "or" -> \E i \in DOMAIN a : True(a[i], pos, neg)
          [] f = "if" -> IF True(a[1], pos, neg) THEN True(a[2], pos, neg)
                         ELSE ~True(a[1], neg, pos) /\ True(a[3], pos, neg)
          [] f = "in" /\ Len(a) = 2 -> Contains(Elements(a[2]), a[1])
          [] f = "in" /\ Len(a) = 3 -> member(a[1], Tail(a))
          [] f = "ins" -> \A x \in ToSet(Elements(a[1])) : member(x, Tail(a))
          [] f = "fd_dom" -> \E p \in ToSet(Elements(a[2])) : member(a[1], Elements(p))
          [] f = "all_different" -> IsInjective(Elements(a[1]))
          [] f \in {"label", "labeling"} -> TRUE
          [] f \in Relations -> Compares(f, Value(a[1]), Value(a[2]))
          [] OTHER -> t \in pos
  IN  CASE t[1] = "nil" -> TRUE
        [] t[1] = "cons" -> True(t[2], pos, neg) /\ True(t[3], pos, neg)
        [] OTHER -> of(Functor(t), Args(t))

GroundRules(k) ==
  UNION {LET ts == <<k.preds[key][i].head>> \o k.preds[key][i].body
         IN  {[j \in DOMAIN ts |-> Replaced(ts[j], f)] : f \in Instances(k, NumVars(ts))}
         : <<key, i>> \in UNION {{key} \X DOMAIN k.preds[key] : key \in DOMAIN k.preds}}

Follows(q, pos, neg) == \A j \in 2 .. Len(q) : True(q[j], pos, neg)

RECURSIVE Least(_, _, _), Alternating(_, _)
Least(rules, pos, neg) ==
  LET onward(more) == IF more = pos THEN pos ELSE Least(rules, more, neg)
  IN  onward({r[1] : r \in {q \in rules : Follows(q, pos, neg)}})
Alternating(rules, at) ==
  LET onward(next) == IF next = at THEN at ELSE Alternating(rules, next)
  IN  onward(FoldLeft(LAMBDA neg, i : Least(rules, {}, neg), at, <<1, 2>>))

(* The well-founded model: what a stratified program makes true; the rules *)
(* that nothing could ever satisfy are put aside first.                    *)
Model(k) ==
  LET among(rules, most) == Alternating({q \in rules : Follows(q, most, {})}, {})
      of(rules) == among(rules, Least(rules, {}, {}))
  IN  of(GroundRules(k))
Satisfying(k, model) ==
  {f \in Instances(k, NumVars(<<k.goal>>)) : True(Replaced(k.goal, f), model, model)}

(* What is true of each program, and which values satisfy its goal.        *)
Meanings ==
  LET of(k, model) == [model |-> model, goal |-> IF k.family = "model" THEN Satisfying(k, model) ELSE {}]
      meant(k) == IF k.family \in {"model", "saturate"} THEN of(k, Model(k)) ELSE of(k, {})
      all(ks) == Built([i \in DOMAIN ks |-> meant(ks[i])])
  IN  all(Kbs)
Meaning == Meanings[kb.no]

(* The ground instances of an instance whose first n terms are the terms,  *)
(* and the others the pairs of its difs.                                   *)
Grounded(inst, n) ==
  LET apart(f) == \A i \in n + 1 .. Len(inst) :
                    (i - n) % 2 = 1 => Replaced(inst[i], f) # Replaced(inst[i + 1], f)
  IN  {[i \in 1 .. n |-> Replaced(inst[i], f)] : f \in {h \in Instances(kb, NumVars(inst)) : apart(h)}}
GroundedAll(insts, n) == UNION {Grounded(insts[i], n) : i \in DOMAIN insts}

-----------------------------------------------------------------------------
(* A program that ends without tables gives exactly the solutions of the   *)
(* depth-first reading, in its order, with the difs that still wait (next, *)
(* backtrack and the control constructs of solve.rs).                      *)
Limited(q) == IF kb.limit = NoLimit THEN q ELSE SubSeq(q, 1, Min({Len(q), kb.skip + kb.limit}))
AnswersInOrder == kb.family = "order" /\ phase = "done" => answers = Limited(InOrder_)

(* Over a finite universe every answer is true in the model, and a query   *)
(* that ran to its end has given all that is: tables, negation, dif and    *)
(* labeled constraints lose nothing and invent nothing.                    *)
AnswersAreTheModel ==
  LET given == GroundedAll(answers, Len(GoalVars))
  IN  kb.family = "model" =>
        /\ given \subseteq Meaning.goal
        /\ phase = "done" => given = Meaning.goal

(* A table that is complete holds what the model says of its call, and is  *)
(* never written again (table.rs: a table is final when it is read).       *)
CompleteTables ==
  kb.family = "model" =>
    \A t \in DOMAIN tables.all :
      ~Evaluating(tables, t) =>
        GroundedAll(tables.all[t].answers, 1) = {g \in Grounded(tables.all[t].call, 1) : g[1] \in Meaning.model}

(* The user is asked a question once, and only when no clause answers it   *)
(* (ask in solve.rs, RFC-0013 S16).                                        *)
AskedAsALastResort ==
  LET m == [bind |-> <<>>, trail |-> <<>>, posted |-> <<>>]
  IN  \A i \in Len(kb.known) + 1 .. Len(replies) :
        /\ \A j \in 1 .. i - 1 : replies[j].goal # replies[i].goal
        /\ ByClauses(m, replies[i].goal) = <<>>

-----------------------------------------------------------------------------
(* What backtracking cuts away is what nothing left refers to: the goal    *)
(* list from the current goal, and each choicepoint with its alternative,  *)
(* refer to nodes, variables, scopes and choicepoints that are there (the  *)
(* internal errors of run and collect are unreachable).                    *)
RECURSIVE ListFrom(_)
ListFrom(n) == IF n = 0 THEN {} ELSE {n} \cup ListFrom(search.goals[n].next)

Below(t, n) == \A v \in ToSet(Leaves(t)) : v <= n
Targets(goal, cps) ==
  CASE goal[1] = "cut" -> goal[2] <= Len(cps)
    [] goal[1] = "collect" -> goal[2] <= Len(cps) /\ cps[goal[2]].alt.kind = "collect"
    [] goal[1] = "asked" -> goal[2] <= Len(cps) /\ cps[goal[2]].alt.kind = "ask"
    [] OTHER -> TRUE
GoalBelow(goal, n) ==
  CASE goal[1] = "call" -> Below(goal[2], n) [] goal[1] = "answer" -> Below(goal[3], n) [] OTHER -> TRUE

(* A goal list whose nodes, variables and scopes are below a mark.         *)
ListSound(cont, goals, bind, scopes, cps) ==
  /\ cont <= goals
  /\ \A n \in ListFrom(cont) :
       LET node == search.goals[n]
       IN  node.next < n /\ node.scope <= scopes /\ GoalBelow(node.goal, bind) /\ Targets(node.goal, cps)

CpCont(alt) == alt.cont
CpTerms(alt) ==
  CASE alt.kind \in {"clauses", "leader", "consumer", "ask"} -> <<alt.call>>
    [] alt.kind = "branches" -> alt.goals
    [] alt.kind = "items" -> <<alt.var>> \o alt.items
    [] alt.kind = "else" -> <<alt.goal>>
    [] alt.kind = "collect" -> <<alt.template, alt.list>>
    [] alt.kind = "label" -> <<alt.goal, alt.var>>
    [] OTHER -> <<>>

AtMost(a, b) == \A f \in DOMAIN a : a[f] <= b[f]
Lengths == [Marks(search) EXCEPT !.scope = Len(search.scopes)]

NothingDangles ==
  /\ phase = "run" =>
       ListSound(search.cont, Len(search.goals), Len(search.bind), Len(search.scopes), search.cps)
  /\ \A h \in DOMAIN search.cps :
       LET cp == search.cps[h]
       IN  /\ AtMost([cp.at EXCEPT !.scope = 1], IF h = Len(search.cps) THEN Lengths ELSE [search.cps[h + 1].at EXCEPT !.scope = 1])
           /\ cp.at.scope <= cp.at.scopes
           /\ ListSound(CpCont(cp.alt), cp.at.goals, cp.at.bind, cp.at.scopes, SubSeq(search.cps, 1, h - 1))
           /\ \A i \in DOMAIN CpTerms(cp.alt) : Below(CpTerms(cp.alt)[i], cp.at.bind)
  /\ \A n \in DOMAIN search.bind : Below(search.bind[n], Len(search.bind))

=============================================================================
