------------------------------ MODULE KbSolve -------------------------------
(***************************************************************************)
(* One activation of the engine that answers queries over a knowledge base *)
(* (crates/bund2-stdlib/src/kb/solve.rs): the goal list, the choicepoints, *)
(* the control constructs, tabling, bridges, questions and labeling.       *)
(*                                                                         *)
(* Everything a choicepoint takes back is in `search`, with the            *)
(* choicepoints themselves and the inferences spent; the tables and the    *)
(* replies survive backtracking.  The engine runs one goal, or resumes one *)
(* choicepoint, in a step; a unification with all that it wakes is part of *)
(* the step.  What `query` does with an answer (query.rs) ends it early or *)
(* sends the engine back for the next.  Proofs and profiles are left out.  *)
(***************************************************************************)
EXTENDS KbFd, KbTables

CONSTANT Kbs   \* a sequence of knowledge bases, each with a goal

VARIABLES
  kb,        \* the knowledge base and the goal of this activation
  search,
  tables,
  replies,   \* the goals asked and remembered, each with its reply
  phase,     \* "run", "back" (a goal failed), "answer", "done" or "stopped";
             \* "saturate" between the activations of KbSaturate
  answers    \* the answers so far, in order

vars == <<kb, search, tables, replies, phase, answers>>

Call(t) == <<"call", t>>
Cut(h) == <<"cut", h>>
Fail == <<"fail">>
Calls(ts) == [i \in DOMAIN ts |-> Call(ts[i])]

NoScope == [n \in {} |-> Nil]

(* An activation, with `spent` inferences already counted.                 *)
Activation(goal, spent) ==
  [bind |-> [i \in 1 .. Len(VarsOf(<<goal>>)) |-> Unbound], trail |-> <<>>,
   posted |-> <<>>, log |-> <<>>, doms |-> <<>>, props |-> <<>>, watch |-> <<>>, queue |-> <<>>,
   goals |-> <<[goal |-> Call(goal), next |-> 0, scope |-> 1]>>, cont |-> 1,
   scopes |-> <<NoScope>>, scope |-> 1, cps |-> <<>>,
   count |-> spent, halt |-> ""]

Init ==
  /\ \E i \in DOMAIN Kbs : kb = [no |-> i] @@ Kbs[i]
  /\ search = Activation(kb.goal, 0)
  /\ tables = NoTables
  /\ replies = kb.known
  /\ phase = IF kb.family = "saturate" THEN "saturate" ELSE "run"
  /\ answers = <<>>

-----------------------------------------------------------------------------
(* The goal list and the choicepoints.                                     *)

(* gs ahead of the node rest; 0 is the end of the list.                    *)
Prepend(s, gs, rest) ==
  LET onto(n, k) ==
        [s EXCEPT
           !.goals = @ \o [i \in 1 .. k |->
                       [goal |-> gs[k + 1 - i], next |-> IF i = 1 THEN rest ELSE n + i - 1, scope |-> s.scope]],
           !.cont = IF k = 0 THEN rest ELSE n + k]
  IN  onto(Len(s.goals), Len(gs))

Marks(s) ==
  [trail |-> Len(s.trail), bind |-> Len(s.bind), posted |-> Len(s.posted), log |-> Len(s.log),
   doms |-> Len(s.doms), props |-> Len(s.props), watch |-> Len(s.watch),
   goals |-> Len(s.goals), scopes |-> Len(s.scopes), scope |-> s.scope]

PushCp(s, alt) == [s EXCEPT !.cps = Append(@, [at |-> Marks(s), alt |-> alt])]

(* The attributes as they stood at a mark. *)
UndoFd(s, at) ==
  [s EXCEPT !.doms = SubSeq(@, 1, at.doms), !.props = SubSeq(@, 1, at.props),
            !.watch = SubSeq(@, 1, at.watch), !.queue = <<>>]
UndoDifs(s, at) ==
  [s EXCEPT !.posted = SubSeq(@, 1, at.posted), !.log = SubSeq(@, 1, at.log)]

(* Everything as it was when the choicepoint was pushed.                   *)
Restored(s, at) ==
  [UndoFd(UndoDifs(UndoTo(s, at.trail), at), at) EXCEPT
     !.bind = SubSeq(@, 1, at.bind), !.goals = SubSeq(@, 1, at.goals),
     !.scopes = SubSeq(@, 1, at.scopes), !.scope = at.scope]

Floor(s) == IF s.cps = <<>> THEN 0 ELSE Last(s.cps).at.goals

(* Mutated: the newest node is reclaimed although a choicepoint has it. *)
Reclaimed_Always(s) == IF s.cont = Len(s.goals) THEN Front(s.goals) ELSE s.goals

(* A node above the newest choicepoint's count is reclaimed at once.       *)
Reclaimed(s) == IF s.cont = Len(s.goals) /\ s.cont > Floor(s) THEN Front(s.goals) ELSE s.goals

Node == search.goals[search.cont]
Taken == [search EXCEPT !.goals = Reclaimed(search), !.cont = Node.next, !.scope = Node.scope]

-----------------------------------------------------------------------------
(* Inferences and unification.                                             *)

(* One inference.  A bound: they are counted only under a cap.             *)
Ticked(s) ==
  IF kb.cap = 0 THEN s
  ELSE [s EXCEPT !.count = @ + 1, !.halt = IF s.count + 1 > kb.cap THEN "cap" ELSE @]

(* What was bound wakes the difs, then the domains; then the propagators   *)
(* run, the newest queued first, until neither is left.                    *)
WakeAll(s, bound) ==
  FoldLeft(LAMBDA r, v : Then(r, LAMBDA t : Bound(t, v)), IF DifIdle(s) THEN Ok(s) ELSE Wake(s, bound), bound)

RunNewest(s) ==
  LET run(t) == IF t.halt # "" THEN No(t) ELSE Propagate(t, t.props[Last(s.queue)])
  IN  run(Ticked([s EXCEPT !.queue = Front(@)]))

RECURSIVE Settle(_, _)
Settle(s, seen) ==
  LET mark == Len(s.trail)
      bound == Since(s, seen)
      onward(r) == IF r.ok THEN Settle(r.s, mark) ELSE No([r.s EXCEPT !.queue = <<>>])
  IN  IF bound = <<>> /\ s.queue = <<>> THEN Ok(s)
      ELSE onward(IF bound # <<>> THEN WakeAll(s, bound) ELSE RunNewest(s))

(* Undone on failure, but for the attachments of difs while no variable    *)
(* has a domain (unify_waking): those go when the search backtracks.       *)
UnifyHead(s, a, b, once) ==
  LET at == Marks(s)
      undone(t) == IF FdIdle(s) THEN t ELSE UndoFd(UndoDifs(t, at), at)
      asWas(r) == IF r.ok THEN r ELSE No(undone(UndoTo(r.s, at.trail)))
  IN  asWas(Then(UnifyPairs(s, <<<<a, b>>>>, once), LAMBDA t : Settle(t, at.trail)))

Unified(s, a, b) == UnifyHead(s, a, b, {})

-----------------------------------------------------------------------------
(* Clauses.                                                                *)

KeyOf(t) == <<Functor(t), Len(Args(t))>>

(* The index: a first argument's key, AnyKey when it matches every clause. *)
AnyKey == <<"any">>
FirstKey(bind, t) ==
  LET of(a) == CASE a[1] = "struct" -> <<"struct", a[2], Len(a[3])>>
                 [] a[1] \in {"atom", "int"} -> a
                 [] a[1] \in {"nil", "cons"} -> <<a[1]>>
                 [] OTHER -> AnyKey
  IN  IF t[1] = "struct" THEN of(Deref(bind, t[3][1])) ELSE AnyKey

Clauses(key) == IF key \in DOMAIN kb.preds THEN kb.preds[key] ELSE <<>>

(* A template numbers its variables, none of them bound.                   *)
TemplateKey(t) == FirstKey([i \in 1 .. Len(VarsOf(<<t>>)) |-> Unbound], t)

Candidates(key, k) ==
  SelectSeq([i \in DOMAIN Clauses(key) |-> i],
    LAMBDA i : k = AnyKey \/ TemplateKey(Clauses(key)[i].head) \in {k, AnyKey})

(* The variables that stand once in a head: no occurs check is owed (D237).*)
Singletons(head) ==
  LET ls == Leaves(head)
  IN  {v \in ToSet(ls) : Cardinality({i \in DOMAIN ls : ls[i] = v}) = 1}

(* Rename clause ci, unify its head, and put its body ahead of rest, with  *)
(* `after` last.  A clause with a lambda keeps its variables by name.      *)
TryClause(s, call, key, ci, rest, after) ==
  LET c == Clauses(key)[ci]
      n == Len(s.bind)
      ts == <<c.head>> \o c.body
      once == {n + v : v \in Singletons(c.head)}
      scope(t) == [t EXCEPT !.scopes = Append(@, [x \in DOMAIN c.names |-> Var(n + c.names[x][2])]),
                            !.scope = Len(t.scopes) + 1]
      body(t, goals) == Ok(Prepend(IF DOMAIN c.names = {} THEN t ELSE scope(t), Calls(goals) \o after, rest))
      with(fresh, copy) == Then(UnifyHead(fresh, call, copy[1], once), LAMBDA t : body(t, Tail(copy)))
  IN  with([s EXCEPT !.bind = Fresh(@, Len(VarsOf(ts)))], Renamed(s.bind, ts))

Resolve(s, call, key, after) ==
  LET keep(cands) ==
        IF Len(cands) = 1 THEN s
        ELSE PushCp(s, [kind |-> "clauses", call |-> call, key |-> key, cands |-> Tail(cands),
                        cont |-> s.cont, after |-> after])
      first(cands) ==
        IF cands = <<>> THEN No(s) ELSE TryClause(keep(cands), call, key, Head(cands), s.cont, after)
  IN  first(Candidates(key, FirstKey(s.bind, call)))

-----------------------------------------------------------------------------
(* Steps.                                                                  *)

Goto(r) ==
  /\ search' = r.s
  /\ phase' = IF r.s.halt # "" THEN "stopped" ELSE IF r.ok THEN "run" ELSE "back"

Stops(why) ==
  /\ phase' = "stopped"
  /\ search' = [search EXCEPT !.halt = why]
  /\ UNCHANGED <<kb, tables, replies, answers>>

Kept == UNCHANGED <<kb, tables, replies, answers>>

(* The goal about to be called, and its parts.                             *)
Running == phase = "run" /\ search.cont # 0
Calling == Running /\ Node.goal[1] = "call"
G == Deref(search.bind, Node.goal[2])
A == Args(G)
Items(l) == Spine(search.bind, l).items   \* of a LIST
S == Ticked(Taken)   \* the goal taken and counted
Within == S.halt = ""
Named(f, n) == Calling /\ Within /\ G[1] \in {"atom", "struct"} /\ KeyOf(G) = <<f, n>>
NamedAny(f) == Calling /\ Within /\ G[1] \in {"atom", "struct"} /\ Functor(G) = f

-----------------------------------------------------------------------------
(* Internal goals.                                                         *)

DoCut ==
  /\ Running /\ Node.goal[1] = "cut"
  /\ Goto(Ok([Taken EXCEPT !.cps = SubSeq(@, 1, Node.goal[2])])) /\ Kept

DoFail == Running /\ Node.goal = Fail /\ Goto(No(Taken)) /\ Kept

(* findall's copy, kept past backtracking. *)
DoCollect ==
  /\ Running /\ Node.goal[1] = "collect"
  /\ LET h == Node.goal[2]
         copy == Template(search.bind, <<search.cps[h].alt.template>>)[1]
     IN  Goto(Ok([Taken EXCEPT !.cps[h].alt.results = Append(@, copy)]))
  /\ Kept

DoAsked ==
  /\ Running /\ Node.goal[1] = "asked"
  /\ Goto(Ok([Taken EXCEPT !.cps[Node.goal[2]].alt.answered = TRUE])) /\ Kept

Pairs(ps) == FlattenSeq([i \in DOMAIN ps |-> <<ps[i][1], ps[i][2]>>])

(* A term with the difs on its variables, as a template.                   *)
InstanceOf(s, t) == Template(s.bind, <<t>> \o Pairs(Touching(s, t)))

DoAnswer ==
  /\ Running /\ Node.goal[1] = "answer"
  /\ tables' = AddAnswer(tables, Node.goal[2], InstanceOf(search, Node.goal[3]))
  /\ Goto(No(Taken))
  /\ UNCHANGED <<kb, replies, answers>>

-----------------------------------------------------------------------------
(* Control constructs.                                                     *)

CallTrue == Named("true", 0) /\ Goto(Ok(S)) /\ Kept
CallFail == Named("fail", 0) /\ Goto(No(S)) /\ Kept
CallUnify == Named("=", 2) /\ Goto(Unified(S, A[1], A[2])) /\ Kept
CallDif == Named("dif", 2) /\ Goto(PostDif(S, A[1], A[2])) /\ Kept

(* A LIST of goals. *)
CallList ==
  /\ Calling /\ Within /\ G[1] = "cons" /\ IsList(search, G)
  /\ Goto(Ok(Prepend(S, Calls(Items(G)), S.cont))) /\ Kept

CallNot ==
  /\ NamedAny("not")
  /\ Goto(Ok(Prepend(PushCp(S, [kind |-> "not", cont |-> S.cont]),
                     Calls(A) \o <<Cut(Len(S.cps)), Fail>>, 0)))
  /\ Kept

CallOnce ==
  /\ NamedAny("once")
  /\ Goto(Ok(Prepend(S, Calls(A) \o <<Cut(Len(S.cps))>>, S.cont))) /\ Kept

CallOr ==
  /\ NamedAny("or")
  /\ LET more == PushCp(S, [kind |-> "branches", goals |-> Tail(A), cont |-> S.cont])
     IN  Goto(IF A = <<>> THEN No(S)
              ELSE Ok(Prepend(IF Len(A) > 1 THEN more ELSE S, <<Call(A[1])>>, S.cont)))
  /\ Kept

(* Mutated: the else branch is left to be tried when the condition held. *)
CallIf_NoCut ==
  /\ Named("if", 3)
  /\ Goto(Ok(Prepend(PushCp(S, [kind |-> "else", goal |-> A[3], cont |-> S.cont]),
                     <<Call(A[1]), Call(A[2])>>, S.cont)))
  /\ Kept

CallIf ==
  /\ Named("if", 3)
  /\ Goto(Ok(Prepend(PushCp(S, [kind |-> "else", goal |-> A[3], cont |-> S.cont]),
                     <<Call(A[1]), Cut(Len(S.cps)), Call(A[2])>>, S.cont)))
  /\ Kept

Applied(g, extra) ==
  IF extra = <<>> THEN g ELSE Struct(Functor(g), (IF g[1] = "atom" THEN <<>> ELSE g[3]) \o extra)

CallCall ==
  /\ NamedAny("call") /\ A # <<>>
  /\ LET g == Deref(search.bind, A[1])
     IN  /\ g[1] \in {"atom", "struct"} \/ (Len(A) = 1 /\ ~IsVar(g))
         /\ Goto(Ok(Prepend(S, <<Call(Applied(g, Tail(A)))>>, S.cont)))
  /\ Kept

CallFindall ==
  /\ Named("findall", 3)
  /\ LET h == Len(S.cps) + 1
     IN  Goto(Ok(Prepend(PushCp(S, [kind |-> "collect", template |-> A[1], list |-> A[3],
                                    results |-> <<>>, cont |-> S.cont]),
                         <<Call(A[2]), <<"collect", h>>, Fail>>, 0)))
  /\ Kept

(* x takes each of the items on backtracking. *)
Each(s, x, items) ==
  LET more == PushCp(s, [kind |-> "items", var |-> x, items |-> Tail(items), cont |-> s.cont])
  IN  IF items = <<>> THEN No(s) ELSE Unified(IF Len(items) > 1 THEN more ELSE s, x, Head(items))

CallIn ==
  /\ Named("in", 2) /\ IsList(search, A[2])
  /\ Goto(Each(S, A[1], Items(A[2]))) /\ Kept

-----------------------------------------------------------------------------
(* Bridges: a lambda, with the variables of the clause instance it stands  *)
(* in substituted, runs and leaves a value.  kb.lambdas says what each     *)
(* reads and leaves; Bridge.tla models how it is run.                      *)

Booleans == {Atom("true"), Atom("false")}

IsLambda(l) == Deref(search.bind, l)[1] = "opaque"
Bridging(f, n, l) == Named(f, n) /\ IsLambda(l)
Lambda(l) == kb.lambdas[Deref(search.bind, l)[2]]

ValueOf(x) == Resolved(search.bind, search.scopes[Node.scope][x])

Reads(l) == [i \in DOMAIN Lambda(l).reads |-> ValueOf(Lambda(l).reads[i])]
Instantiated(l) == \A i \in DOMAIN Reads(l) : ~IsVar(Reads(l)[i])
Raised == <<"error">>   \* a lambda that fails, or leaves nothing
Left(l) == Lambda(l).left[Reads(l)]

CallTest ==
  /\ Bridging("test", 1, A[1]) /\ Instantiated(A[1]) /\ Left(A[1]) \in Booleans
  /\ Goto([ok |-> Left(A[1]) = Atom("true"), s |-> S]) /\ Kept

CallIs ==
  /\ Bridging("is", 2, A[2]) /\ Instantiated(A[2]) /\ Left(A[2]) # Raised
  /\ Goto(Unified(S, A[1], Left(A[2]))) /\ Kept

CallInLambda ==
  /\ Bridging("in", 2, A[2]) /\ Instantiated(A[2]) /\ IsList(search, Left(A[2]))
  /\ Goto(Each(S, A[1], Items(Left(A[2])))) /\ Kept

-----------------------------------------------------------------------------
(* Predicates.                                                             *)

Fds == {<<r, 2>> : r \in Relations} \cup
       {<<"in", 3>>, <<"ins", 3>>, <<"fd_dom", 2>>, <<"all_different", 1>>, <<"label", 1>>, <<"labeling", 2>>}

Reserved(key) ==
  key[1] \in {"not", "or", "once", "call"} \/ key \in Fds
  \/ key \in {<<"true", 0>>, <<"fail", 0>>, <<"=", 2>>, <<"dif", 2>>, <<"if", 3>>, <<"findall", 3>>,
              <<"in", 2>>, <<"is", 2>>, <<"test", 1>>}

Key == KeyOf(G)
Predicate == Calling /\ Within /\ G[1] \in {"atom", "struct"} /\ ~Reserved(Key)
Known(key) == key \in kb.tabled \cup kb.askable \cup DOMAIN kb.preds

CallUser ==
  /\ Predicate /\ Key \notin kb.tabled \cup kb.askable /\ Key \in DOMAIN kb.preds
  /\ Goto(Resolve(S, G, Key, <<>>)) /\ Kept

(* Mutated: the clauses do not tell the question that they answered. *)
CallAskable_Untold ==
  /\ Predicate /\ Key \in kb.askable
  /\ LET s == PushCp(S, [kind |-> "ask", call |-> G, answered |-> FALSE, cont |-> S.cont])
     IN  Goto(Resolve(s, G, Key, <<>>))
  /\ Kept

(* The question waits under the clauses; each of them that answers says so.*)
CallAskable ==
  /\ Predicate /\ Key \in kb.askable
  /\ LET s == PushCp(S, [kind |-> "ask", call |-> G, answered |-> FALSE, cont |-> S.cont])
     IN  Goto(Resolve(s, G, Key, <<<<"asked", Len(s.cps)>>>>))
  /\ Kept

(* The innermost not, findall, or if whose condition runs.                 *)
Construct(s) ==
  LET hs == {h \in DOMAIN s.cps : s.cps[h].alt.kind \in {"not", "else", "collect"}}
  IN  IF hs = {} THEN Nowhere ELSE Max(hs)

Consumer(call, t, cont) ==
  [kind |-> "consumer", call |-> call, table |-> t, next |-> 1, cont |-> cont]

(* A new variant leads. *)
CallLeads ==
  /\ Predicate /\ Key \in kb.tabled /\ TableOf(tables, InstanceOf(search, G)) = {}
  /\ tables' = Lead(tables, InstanceOf(search, G), Key, Len(S.cps) + 1, Construct(S))
  /\ Goto(No(PushCp(S, [kind |-> "leader", call |-> G, table |-> Len(tables.all) + 1,
                        run |-> Len(tables.all) + 1, member |-> Len(tables.stack) + 1,
                        next |-> 1, pass |-> tables.added, cont |-> S.cont])))
  /\ UNCHANGED <<kb, replies, answers>>

(* An evaluating one is read as it grows, and joins SCCs (or is E54).      *)
CallConsumes ==
  /\ Predicate /\ Key \in kb.tabled
  /\ \E t \in TableOf(tables, InstanceOf(search, G)) :
       /\ Evaluating(tables, t) => ~Unstratified(tables, t, Construct(S))
       /\ tables' = IF Evaluating(tables, t) THEN Merge(tables, t) ELSE tables
       /\ Goto(No(PushCp(S, Consumer(G, t, S.cont))))
  /\ UNCHANGED <<kb, replies, answers>>

CallUnstratified ==
  /\ Predicate /\ Key \in kb.tabled
  /\ \E t \in TableOf(tables, InstanceOf(search, G)) :
       Evaluating(tables, t) /\ Unstratified(tables, t, Construct(S))
  /\ Stops("unstratified")

-----------------------------------------------------------------------------
(* Constraint goals.                                                       *)

(* What a goal posted, and its propagation to a fixpoint.                  *)
Posted(r) ==
  LET quiet(q) == IF q.ok THEN q ELSE No([q.s EXCEPT !.queue = <<>>])
  IN  Goto(quiet(Then(r, LAMBDA t : Settle(t, Len(search.trail)))))

CallDomain ==
  /\ Named("in", 3) /\ BoundsOk(search, A[2], A[3])
  /\ Posted(Narrow(S, A[1], IntervalOf(search, A[2], A[3]))) /\ Kept

CallDomains ==
  /\ Named("ins", 3) /\ IsList(search, A[1]) /\ BoundsOk(search, A[2], A[3])
  /\ LET each(xs, d) == [i \in DOMAIN xs |-> <<xs[i], d>>]
     IN  Posted(NarrowAll(S, each(Items(A[1]), IntervalOf(search, A[2], A[3]))))
  /\ Kept

PairOk(l) == IsList(search, l) /\ Len(Items(l)) = 2 /\ BoundsOk(search, Items(l)[1], Items(l)[2])
IntervalsOk(l) == IsList(search, l) /\ \A p \in ToSet(Items(l)) : PairOk(p)

CallFdDom ==
  /\ Named("fd_dom", 2) /\ IntervalsOk(A[2])
  /\ LET interval(q) == IntervalOf(search, q[1], q[2])
     IN  Posted(Narrow(S, A[1], UNION {interval(Items(p)) : p \in ToSet(Items(A[2]))}))
  /\ Kept

CallDistinct ==
  /\ Named("all_different", 1) /\ AllVariables(search, A[1])
  /\ Posted(Ok(PostProp(S, [kind |-> "distinct", of |-> Items(A[1])]))) /\ Kept

Relates == Calling /\ Within /\ G[1] = "struct" /\ Len(A) = 2 /\ Functor(G) \in Relations
RelationOf == Relation(S, Functor(G), A[1], A[2])

CallRelation ==
  /\ Relates
  /\ LET post(r) == ~r.bad /\ Posted(r) IN post(RelationOf)
  /\ Kept

(* label L, and labeling Options L: their LIST and their options.          *)
Labels == Named("label", 1) \/ Named("labeling", 2)
LabelList == Last(A)
Options == IF Len(A) = 1 THEN {} ELSE ToSet(Items(A[1]))
LabelOk ==
  /\ AllVariables(search, LabelList)
  /\ Len(A) = 2 => IsList(search, A[1]) /\ Options \subseteq {Atom("ff"), Atom("down")}

Finite(d) == d \cap {Inf, Sup} = {}
Open_ ==
  LET xs == Items(LabelList)
  IN  SelectSeq([i \in DOMAIN xs |-> Deref(search.bind, xs[i])], IsVar)
AllFinite == \A x \in ToSet(Open_) : Finite(Dom(search, x))

(* The leftmost, or with ff the leftmost of the smallest domain.           *)
Picked(xs) ==
  LET size(i) == Cardinality(Dom(search, xs[i]))
      best == {i \in DOMAIN xs : Atom("ff") \in Options => \A j \in DOMAIN xs : size(i) <= size(j)}
  IN  xs[Min(best)]

CallLabel ==
  /\ Labels /\ LabelOk /\ AllFinite
  /\ LET value(d) == IF Atom("down") \in Options THEN Max(d) ELSE Min(d)
         kept(x, n) == PushCp(S, [kind |-> "label", goal |-> G, var |-> x, value |-> n, cont |-> S.cont])
         try(x, n) == Unified(Prepend(kept(x, n), <<Call(G)>>, S.cont), x, Int_(n))
         first(x) == try(x, value(Dom(search, x)))
         from(xs) == IF xs = <<>> THEN Ok(S) ELSE first(Picked(xs))
     IN  Goto(from(Open_))
  /\ Kept

-----------------------------------------------------------------------------
(* What is refused: each condition is one of the refusals of call, member, *)
(* bridge, constraint and label.                                           *)

NotCallable == IsVar(G) \/ G[1] \in {"nil", "int", "opaque"} \/ (G[1] = "cons" /\ ~IsList(search, G))
BadCall ==
  NamedAny("call") /\ \/ A = <<>>
                      \/ LET g == Deref(search.bind, A[1])
                         IN  IsVar(g) \/ (Len(A) > 1 /\ g[1] \notin {"atom", "struct"})
BadMember == Named("in", 2) /\ ~IsLambda(A[2]) /\ ~IsList(search, A[2])
BadBridge ==
  LET refused(l, bad(_)) == ~IsLambda(l) \/ ~Instantiated(l) \/ bad(Left(l))
  IN  \/ Named("test", 1) /\ refused(A[1], LAMBDA v : v \notin Booleans)
      \/ Named("is", 2) /\ refused(A[2], LAMBDA v : v = Raised)
      \/ Named("in", 2) /\ IsLambda(A[2]) /\ refused(A[2], LAMBDA v : ~IsList(search, v))
BadConstraint ==
  \/ Named("in", 3) /\ ~BoundsOk(search, A[2], A[3])
  \/ Named("ins", 3) /\ ~(IsList(search, A[1]) /\ BoundsOk(search, A[2], A[3]))
  \/ Named("fd_dom", 2) /\ ~IntervalsOk(A[2])
  \/ Named("all_different", 1) /\ ~AllVariables(search, A[1])
  \/ Relates /\ RelationOf.bad
  \/ Labels /\ ~(LabelOk /\ AllFinite)
NoPredicate == Predicate /\ ~Known(Key)

CallRefused ==
  /\ Calling /\ Within
  /\ IF NotCallable \/ BadCall \/ BadMember \/ BadBridge \/ BadConstraint \/ NoPredicate
     THEN Stops("refused") ELSE FALSE

-----------------------------------------------------------------------------
(* Backtracking: the newest choicepoint is popped, everything is as it was *)
(* when it was pushed, and its alternative runs.                           *)

Cp == Last(search.cps)
Alt == Cp.alt
Popped == Restored([search EXCEPT !.cps = Front(@)], Cp.at)
B == Ticked(Popped)
BackTo(kind) == phase = "back" /\ search.cps # <<>> /\ Alt.kind = kind
Again(s, alt) == [s EXCEPT !.cps = Append(@, [Cp EXCEPT !.alt = alt])]

(* The leader's clauses, as this pass runs them: the leader's own call, or *)
(* a member's variant.                                                     *)
Own == Alt.run = Alt.table
RunKey == tables.all[Alt.run].key
RunClauses ==
  Candidates(RunKey, IF Own THEN FirstKey(Popped.bind, Alt.call) ELSE TemplateKey(tables.all[Alt.run].call[1]))
ClausesLeft == Alt.next <= Len(RunClauses)
AnswersLeft == Alt.next <= Len(tables.all[Alt.table].answers)

(* The alternatives that are an inference.                                 *)
Inferring ==
  \/ Calling
  \/ BackTo("clauses") \/ BackTo("items") \/ BackTo("label")
  \/ BackTo("leader") /\ ClausesLeft
  \/ BackTo("consumer") /\ AnswersLeft
  \/ BackTo("ask") /\ ~Alt.answered
BackWithin == B.halt = ""

(* The guard's trip is polled at every inference, and stops the query.     *)
Tripped == Inferring /\ kb.trips /\ Stops("trip")
Capped == Inferring /\ (IF Calling THEN ~Within ELSE ~BackWithin) /\ Stops("cap")

BackClauses ==
  /\ BackTo("clauses") /\ BackWithin
  /\ LET s == IF Len(Alt.cands) > 1 THEN Again(B, [Alt EXCEPT !.cands = Tail(@)]) ELSE B
     IN  Goto(TryClause(s, Alt.call, Alt.key, Head(Alt.cands), Alt.cont, Alt.after))
  /\ Kept

(* An instance renamed, with its difs posted again.                        *)
Reposted(s, ts) ==
  FoldLeft(LAMBDA r, i : Then(r, LAMBDA t : PostDif(t, ts[2 * i], ts[2 * i + 1])), Ok(s),
           [i \in 1 .. Len(ts) \div 2 |-> i])
Anew(s, inst) == [s EXCEPT !.bind = Fresh(@, Len(VarsOf(inst)))]

LeaderRuns ==
  /\ BackTo("leader") /\ BackWithin /\ ClausesLeft
  /\ LET s == Again(B, [Alt EXCEPT !.next = @ + 1])
         variant == Renamed(B.bind, tables.all[Alt.run].call)
         called == IF Own THEN Ok(s) ELSE Reposted(Anew(s, tables.all[Alt.run].call), variant)
         run(call, t) == TryClause(t, call, RunKey, RunClauses[Alt.next], 0, <<<<"answer", Alt.run, call>>>>)
     IN  Goto(Then(called, LAMBDA t : run(IF Own THEN Alt.call ELSE variant[1], t)))
  /\ Kept

LeaderSpent == BackTo("leader") /\ ~ClausesLeft

(* Not its SCC's root: its entry is left for the root to complete.         *)
MemberLeft == LeaderSpent /\ ~IsRoot(tables, Alt.table) /\ Goto(No(Popped)) /\ Kept

More == Alt.member < Len(tables.stack)
(* Mutated: a pass that added nothing is followed by another. *)
LeaderPasses_Again ==
  /\ LeaderSpent /\ IsRoot(tables, Alt.table) /\ (More \/ tables.added >= Alt.pass)
  /\ LET m == IF More THEN Alt.member + 1 ELSE tables.all[Alt.table].entry
     IN  Goto(No(Again(Popped, [Alt EXCEPT !.run = tables.stack[m].table, !.member = m, !.next = 1,
                                           !.pass = IF More THEN @ ELSE tables.added])))
  /\ Kept

(* The next member of the SCC, and after the last, when the pass added an  *)
(* answer, the root again.                                                 *)
LeaderPasses ==
  /\ LeaderSpent /\ IsRoot(tables, Alt.table) /\ (More \/ tables.added > Alt.pass)
  /\ LET m == IF More THEN Alt.member + 1 ELSE tables.all[Alt.table].entry
     IN  Goto(No(Again(Popped, [Alt EXCEPT !.run = tables.stack[m].table, !.member = m, !.next = 1,
                                           !.pass = IF More THEN @ ELSE tables.added])))
  /\ Kept

LeaderCompletes ==
  /\ LeaderSpent /\ IsRoot(tables, Alt.table) /\ ~More /\ tables.added = Alt.pass
  /\ tables' = Complete(tables, tables.all[Alt.table].entry)
  /\ Goto(No(Again(Popped, Consumer(Alt.call, Alt.table, Alt.cont))))
  /\ UNCHANGED <<kb, replies, answers>>

(* An evaluating table may grow before the consumer is resumed.            *)
BackConsumer ==
  /\ BackTo("consumer") /\ AnswersLeft /\ BackWithin
  /\ LET t == tables.all[Alt.table]
         s == IF Alt.next < Len(t.answers) \/ t.status = "evaluating" THEN Again(B, [Alt EXCEPT !.next = @ + 1]) ELSE B
         return(inst, ts) == Then(Reposted(Anew(s, inst), ts), LAMBDA q : Unified([q EXCEPT !.cont = Alt.cont], Alt.call, ts[1]))
         answer(inst) == return(inst, Renamed(B.bind, inst))
     IN  Goto(answer(t.answers[Alt.next]))
  /\ Kept

ConsumerSpent == BackTo("consumer") /\ ~AnswersLeft /\ Goto(No(Popped)) /\ Kept

(* No clause answered an askable call: a reply remembered for it is used,  *)
(* or the ask lambda runs and its reply is remembered.                     *)
Question == Resolved(Popped.bind, Alt.call)
Told == {i \in DOMAIN replies : replies[i].goal = Question}
Asking == BackTo("ask") /\ ~Alt.answered /\ BackWithin
AskOk == Leaves(Question) = <<>>
Replied(yes) == Goto([ok |-> yes, s |-> [B EXCEPT !.cont = Alt.cont]])

AskAnswered == BackTo("ask") /\ Alt.answered /\ Goto(No(Popped)) /\ Kept
AskKnown == Asking /\ AskOk /\ Told # {} /\ Replied(replies[Min(Told)].yes) /\ Kept

AskNew ==
  /\ Asking /\ AskOk /\ Told = {}
  /\ \E yes \in kb.says :
       /\ replies' = Append(replies, [goal |-> Question, yes |-> yes])
       /\ Replied(yes)
  /\ UNCHANGED <<kb, tables, answers>>

(* Not ground, no ask lambda, or one that fails. *)
AskRefused == Asking /\ (AskOk => Told = {} /\ kb.askFails) /\ Stops("refused")

BackBranches ==
  /\ BackTo("branches")
  /\ LET s == IF Len(Alt.goals) > 1 THEN Again(Popped, [Alt EXCEPT !.goals = Tail(@)]) ELSE Popped
     IN  Goto(Ok(Prepend(s, <<Call(Head(Alt.goals))>>, Alt.cont)))
  /\ Kept

BackItems ==
  /\ BackTo("items") /\ BackWithin
  /\ LET s == IF Len(Alt.items) > 1 THEN Again(B, [Alt EXCEPT !.items = Tail(@)]) ELSE B
     IN  Goto(Unified([s EXCEPT !.cont = Alt.cont], Alt.var, Head(Alt.items)))
  /\ Kept

BackNot == BackTo("not") /\ Goto(Ok([Popped EXCEPT !.cont = Alt.cont])) /\ Kept
BackElse == BackTo("else") /\ Goto(Ok(Prepend(Popped, <<Call(Alt.goal)>>, Alt.cont))) /\ Kept

(* The copies collected, each with fresh variables, are the list. *)
BackCollect ==
  /\ BackTo("collect")
  /\ LET copy(r, t) == [s |-> Anew(r.s, <<t>>), items |-> r.items \o Renamed(r.s.bind, <<t>>)]
         give(all) == Unified([all.s EXCEPT !.cont = Alt.cont], Alt.list, ListOf(all.items))
     IN  Goto(give(FoldLeft(copy, [s |-> Popped, items |-> <<>>], Alt.results)))
  /\ Kept

(* The labeled value is removed, and the rest labeled again. *)
BackLabel ==
  /\ BackTo("label") /\ BackWithin
  /\ LET rest == Narrow(B, Alt.var, Dom(B, Alt.var) \ {Alt.value})
         again(t) == Ok(Prepend(t, <<Call(Alt.goal)>>, Alt.cont))
     IN  Goto(Then(Then(rest, LAMBDA t : Settle(t, Len(B.trail))), again))
  /\ Kept

Exhausted ==
  /\ phase = "back" /\ search.cps = <<>>
  /\ phase' = "done"
  /\ UNCHANGED <<kb, search, tables, replies, answers>>

-----------------------------------------------------------------------------
(* The caller.                                                             *)

(* An answer: what the goal's variables are, with the difs that wait, which *)
(* a saturation drops.                                                     *)
GoalVars == [i \in DOMAIN VarsOf(<<kb.goal>>) |-> Var(i)]
Answer(s) == Template(s.bind, GoalVars \o IF kb.family = "saturate" THEN <<>> ELSE Pairs(Residual(s)))

Found ==
  /\ phase = "run" /\ search.cont = 0
  /\ phase' = "answer"
  /\ answers' = Append(answers, Answer(search))
  /\ UNCHANGED <<kb, search, tables, replies>>

(* query: the first `skip` answers are passed over, `limit` are handed to  *)
(* the lambda (NoLimit: all of them), which may fail.                      *)
NoLimit == -1
Handed == Len(answers) > kb.skip
Enough == Handed /\ kb.limit # NoLimit /\ Len(answers) - kb.skip >= kb.limit
After(p) == phase = "answer" /\ phase' = p /\ UNCHANGED <<kb, search, tables, replies, answers>>

SolvesOn == ~Enough /\ After("back")
LimitReached == Enough /\ After("done")
LambdaRaises == phase = "answer" /\ Handed /\ kb.lambdaFails /\ Stops("lambda")

Solving ==
  \/ Tripped \/ Capped
  \/ DoCut \/ DoFail \/ DoCollect \/ DoAsked \/ DoAnswer
  \/ CallTrue \/ CallFail \/ CallUnify \/ CallDif \/ CallList \/ CallNot \/ CallOnce \/ CallOr
  \/ CallIf \/ CallCall \/ CallFindall \/ CallIn
  \/ CallTest \/ CallIs \/ CallInLambda
  \/ CallUser \/ CallAskable \/ CallLeads \/ CallConsumes \/ CallUnstratified
  \/ CallDomain \/ CallDomains \/ CallFdDom \/ CallDistinct \/ CallRelation \/ CallLabel
  \/ CallRefused
  \/ BackClauses \/ LeaderRuns \/ MemberLeft \/ LeaderPasses \/ LeaderCompletes
  \/ BackConsumer \/ ConsumerSpent
  \/ AskAnswered \/ AskKnown \/ AskNew \/ AskRefused
  \/ BackBranches \/ BackItems \/ BackNot \/ BackElse \/ BackCollect \/ BackLabel
  \/ Exhausted \/ Found

Asked_ == SolvesOn \/ LimitReached \/ LambdaRaises
Ended == phase \in {"done", "stopped"}
Over == Ended /\ UNCHANGED vars

Next == Solving \/ Asked_ \/ Over

(* run and backtrack are loops of one thread: it steps until it has ended. *)
(* (This is WF_vars(Next), said without ENABLED, which TLC is slow at.)    *)
Fairness == []<>Ended \/ []<><<Next>>_vars

Spec == Init /\ [][Next]_vars /\ Fairness
=============================================================================
