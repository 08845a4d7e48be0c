----------------------------- MODULE KbSaturate -----------------------------
(***************************************************************************)
(* kb.saturate: forward chaining, stratum by stratum, semi-naive           *)
(* (crates/bund2-stdlib/src/kb/chain.rs), with the queries of KbReference. *)
(*                                                                         *)
(* A round is an activation of KbSolve over facts alone: each rule is a    *)
(* clause of one predicate, the join, whose answers are the facts derived. *)
(***************************************************************************)
EXTENDS KbReference

VARIABLE sat   \* NoSat, or how far the saturation is

NoSat == [on |-> FALSE]

-----------------------------------------------------------------------------
(* Reading a rule.                                                         *)

(* A body goal: the predicate it calls or NoPred, whether it is under not  *)
(* or findall, the variables it binds, and why it is refused, if it is.    *)
NoPred == <<"", 0>>
Goal_(g, key, neg, binds, refused) == [goal |-> g, key |-> key, neg |-> neg, binds |-> binds, refused |-> refused]
Other(g, neg) == IF neg THEN <<>> ELSE <<Goal_(g, NoPred, FALSE, {}, "")>>
Refused(reason) == <<Goal_(Nil, NoPred, FALSE, {}, reason)>>
VarSet(t) == ToSet(Leaves(t))
Proper(l) == Spine(<<>>, l).end = Nil
IsGoal(t) == t[1] \in {"atom", "struct"}

RECURSIVE Read(_, _), ReadAll(_, _)
ReadAll(ts, neg) == IF ts = <<>> THEN <<>> ELSE Read(Head(ts), neg) \o ReadAll(Tail(ts), neg)
Read(t, neg) ==
  LET of(f, a) ==
        CASE f \in {"or", "once"} \/ (f = "if" /\ Len(a) = 3) -> Refused("control")
          [] f = "call" /\ a # <<>> ->
               IF IsVar(a[1]) THEN Refused("literal")
               ELSE IF IsGoal(a[1]) THEN Read(Applied(a[1], Tail(a)), neg)
               ELSE IF a[1][1] \in {"cons", "nil"} /\ Len(a) = 1 THEN Read(a[1], neg)
               ELSE Other(t, neg)
          [] f = "not" /\ a # <<>> -> ReadAll(a, TRUE) \o Other(t, neg)
          [] f = "findall" /\ Len(a) = 3 ->
               Read(a[2], TRUE) \o IF neg THEN <<>> ELSE <<Goal_(t, NoPred, FALSE, VarSet(a[3]), "")>>
          [] f = "=" /\ Len(a) = 2 /\ ~neg -> <<Goal_(t, NoPred, FALSE, VarSet(t), "")>>
          [] ~Reserved(KeyOf(t)) -> <<Goal_(t, KeyOf(t), neg, IF neg THEN {} ELSE VarSet(t), "")>>
          [] OTHER -> Other(t, neg)
  IN  CASE IsVar(t) -> Refused("literal")
        [] t[1] = "cons" /\ Proper(t) -> ReadAll(Spine(<<>>, t).items, neg)
        [] IsGoal(t) -> of(Functor(t), Args(t))
        [] OTHER -> Other(t, neg)

ReadRule(c) ==
  LET bound(gs) == UNION {gs[i].binds : i \in DOMAIN gs}
      rule(gs) ==
        [key |-> KeyOf(c.head), head |-> c.head, names |-> c.names,
         body |-> SelectSeq(gs, LAMBDA g : ~g.neg),
         deps |-> {<<gs[i].key, gs[i].neg>> : i \in {j \in DOMAIN gs : gs[j].key # NoPred}},
         bad |-> (\E i \in DOMAIN gs : gs[i].refused # "") \/ ~(VarSet(c.head) \subseteq bound(gs))]
  IN  rule(ReadAll(c.body, FALSE))

IsFact(c) == c.body = <<>>

(* In key order, which k.order gives, and then clause order. *)
RulesOf(k) ==
  LET read(cs) == Built([i \in DOMAIN cs |-> ReadRule(cs[i])])
  IN  read(FlattenSeq([i \in DOMAIN k.order |-> SelectSeq(k.preds[k.order[i]], LAMBDA c : ~IsFact(c))]))

-----------------------------------------------------------------------------
(* The strata: the least numbering at or above each positive dependency    *)
(* and above each negative one.                                            *)

Edges_(rules) == UNION {{<<rules[i].key, d[1], d[2]>> : d \in rules[i].deps} : i \in DOMAIN rules}
Preds_(rules) == UNION {{rules[i].key} \cup {d[1] : d \in rules[i].deps} : i \in DOMAIN rules}

RECURSIVE Reach(_, _)
Reach(edges, ps) ==
  LET more == ps \cup {e[2] : e \in {d \in edges : d[1] \in ps}}
  IN  IF more = ps THEN ps ELSE Reach(edges, more)

(* E56. *)
NegativeCycle(edges) == \E e \in edges : e[3] /\ e[1] \in Reach(edges, {e[2]})

RECURSIVE Settled(_, _)
Settled(edges, lv) ==
  LET need(p) == {lv[e[2]] + (IF e[3] THEN 1 ELSE 0) : e \in {d \in edges : d[1] = p}}
      next == [p \in DOMAIN lv |-> Max({lv[p]} \cup need(p))]
  IN  IF next = lv THEN lv ELSE Settled(edges, next)
Strata(rules) == Settled(Edges_(rules), [p \in Preds_(rules) |-> 0])

-----------------------------------------------------------------------------
(* The rounds.                                                             *)

FactsOf(k, rules) ==
  [key \in DOMAIN k.preds \cup Preds_(rules) |->
     IF key \in DOMAIN k.preds
     THEN LET fs == SelectSeq(k.preds[key], IsFact) IN [i \in DOMAIN fs |-> fs[i].head]
     ELSE <<>>]

Heads == {sat.rules[i].key : i \in {j \in DOMAIN sat.rules : sat.strata[sat.rules[j].key] = sat.s}}
Members == SelectSeq(sat.rules, LAMBDA r : r.key \in Heads)
Top == Max({0} \cup {sat.strata[k] : k \in DOMAIN sat.strata})
Sizes == [k \in Heads |-> Len(sat.facts[k])]
FirstRound == DOMAIN sat.before = {}
Grew(k) == sat.before[k] < Len(sat.facts[k])

(* A predicate's old facts, or its new ones, under a name of their own.    *)
ViewKey(key, new) == <<kb.views[key[1]][IF new THEN 2 ELSE 1], key[2]>>
Viewed(t, new) == Struct(ViewKey(KeyOf(t), new)[1], Args(t))

Join == <<"$satjoin", 2>>
Joined(r, goals) == [head |-> Struct(Join[1], <<Opaque(r.key), r.head>>), body |-> goals, names |-> r.names]
Plain(g) == g.goal

(* Mutated: the goals before it read all the facts but the new of their own predicate. *)
JoinsAt_NewOnly(r) ==
  LET at == SelectSeq([i \in DOMAIN r.body |-> i], LAMBDA i : r.body[i].key \in Heads /\ Grew(r.body[i].key))
      goal(i, j) == IF r.body[j].key \in Heads THEN Viewed(r.body[j].goal, TRUE) ELSE Plain(r.body[j])
  IN  [n \in DOMAIN at |-> Joined(r, [j \in DOMAIN r.body |-> goal(at[n], j)])]

(* Once per goal over a predicate that grew: that goal reads what is new,  *)
(* the goals before it what was there before, those after it all.          *)
JoinsAt(r) ==
  LET at == SelectSeq([i \in DOMAIN r.body |-> i], LAMBDA i : r.body[i].key \in Heads /\ Grew(r.body[i].key))
      goal(i, j) == IF r.body[j].key \in Heads /\ j <= i THEN Viewed(r.body[j].goal, i = j) ELSE Plain(r.body[j])
  IN  [n \in DOMAIN at |-> Joined(r, [j \in DOMAIN r.body |-> goal(at[n], j)])]

Joins ==
  FlattenSeq([i \in DOMAIN Members |->
    IF FirstRound THEN <<Joined(Members[i], [j \in DOMAIN Members[i].body |-> Plain(Members[i].body[j])])>>
    ELSE JoinsAt(Members[i])])

AsFacts(ts) == [i \in DOMAIN ts |-> [head |-> ts[i], body |-> <<>>, names |-> NoScope]]
Views ==
  IF FirstRound THEN [k \in {} |-> <<>>]
  ELSE LET part(k, new) == IF new THEN SubSeq(sat.facts[k], sat.before[k] + 1, Len(sat.facts[k]))
                           ELSE SubSeq(sat.facts[k], 1, sat.before[k])
           of(k, new) == LET ts == part(k, new) IN AsFacts([i \in DOMAIN ts |-> Viewed(ts[i], new)])
       IN  [v \in {ViewKey(k, n) : k \in Heads, n \in BOOLEAN} |->
              LET k == CHOOSE k \in Heads : \E n \in BOOLEAN : v = ViewKey(k, n)
              IN  of(k, v = ViewKey(k, TRUE))]

Saturating == sat.on /\ phase = "saturate"

NoSizes == [k \in {} |-> 0]

(* The rules are read, or the first that cannot be saturated is refused.   *)
SaturationBegins ==
  /\ phase = "saturate" /\ ~sat.on
  /\ LET refused(rules) == (\E i \in DOMAIN rules : rules[i].bad) \/ NegativeCycle(Edges_(rules))
         begin(rules) ==
           IF refused(rules) THEN phase' = "stopped" /\ sat' = NoSat
           ELSE /\ sat' = [on |-> TRUE, rules |-> rules, strata |-> Strata(rules), facts |-> FactsOf(kb, rules),
                           s |-> 0, before |-> NoSizes, now |-> NoSizes]
                /\ UNCHANGED phase
     IN  begin(RulesOf(kb))
  /\ UNCHANGED <<kb, search, tables, replies, answers>>

RoundBegins ==
  /\ Saturating /\ sat.s <= Top /\ Joins # <<>>
  /\ kb' = [kb EXCEPT !.preds = (Join :> Joins) @@ Views @@ [k \in DOMAIN sat.facts |-> AsFacts(sat.facts[k])],
                      !.tabled = {}, !.askable = {}]
  /\ search' = Activation(kb.goal, search.count)
  /\ phase' = "run" /\ answers' = <<>>
  /\ sat' = [sat EXCEPT !.now = Sizes]
  /\ UNCHANGED <<tables, replies>>

NextStratum(f) == [sat EXCEPT !.facts = f, !.s = @ + 1, !.before = NoSizes]

(* A stratum with no rules, or whose last facts no rule reads. *)
StratumEnds ==
  /\ Saturating /\ sat.s <= Top /\ Joins = <<>>
  /\ sat' = NextStratum(sat.facts)
  /\ UNCHANGED vars

(* The answers are facts of the predicates they name; a known one is       *)
(* dropped; the stratum ends when none is new.                             *)
RoundEnds ==
  /\ sat.on /\ phase = "done" /\ sat.s <= Top
  /\ LET add(f, ans) ==
           IF Contains(f[ans[1][2]], ans[2]) THEN f ELSE [f EXCEPT ![ans[1][2]] = Append(@, ans[2])]
         facts == FoldLeft(add, sat.facts, answers)
     IN  sat' = IF facts = sat.facts THEN NextStratum(facts)
                ELSE [sat EXCEPT !.facts = facts, !.before = sat.now]
  /\ phase' = "saturate"
  /\ UNCHANGED <<kb, search, tables, replies, answers>>

SaturationEnds ==
  /\ Saturating /\ sat.s > Top
  /\ phase' = "done"
  /\ UNCHANGED <<kb, search, tables, replies, answers, sat>>

SatInit == Init /\ sat = NoSat
SatNext ==
  \/ Next /\ UNCHANGED sat
  \/ SaturationBegins \/ RoundBegins \/ StratumEnds \/ RoundEnds \/ SaturationEnds

SatEnded == Ended /\ (sat.on /\ phase = "done" => sat.s > Top)
SatFairness == []<>SatEnded \/ []<><<SatNext>>_<<vars, sat>>
SatSpec == SatInit /\ [][SatNext]_<<vars, sat>> /\ SatFairness

-----------------------------------------------------------------------------
(* Saturation adds exactly the facts the program makes true that were not  *)
(* there, each once (saturate: a fact that is a variant of a known one is  *)
(* dropped).                                                               *)
Saturated ==
  sat.on /\ phase = "done" /\ sat.s > Top =>
    LET given == FactsOf(Kbs[kb.no], sat.rules)
        facts == FlattenSeq([i \in DOMAIN kb.order |-> sat.facts[kb.order[i]]])
    IN  /\ GroundedAll([i \in DOMAIN facts |-> <<facts[i]>>], 1) = {<<g>> : g \in Meaning.model}
        /\ \A key \in DOMAIN given : \A i, j \in DOMAIN sat.facts[key] :
             i < j /\ Len(given[key]) < j => sat.facts[key][i] # sat.facts[key][j]

(* Every query and every saturation ends, those over cyclic tabled         *)
(* programs too, or it is stopped.                                         *)
QueryEnds == <>SatEnded
=============================================================================
