---------------------------- MODULE WordsProofs ----------------------------
(***************************************************************************)
(* Proofs about Words and Vocabularies, for every vocabulary, every length *)
(* an alias chain is followed for and every generation bound: a kept       *)
(* answer is the fresh one (CacheSound), a generation guard is enough for  *)
(* a site whose slot carries no alias (GuardSound), a call value means     *)
(* what its name means to whoever applies it (CalledByName), and the cycle *)
(* check tells a chain of aliases without an end (CycleTold).              *)
(*                                                                         *)
(* Every writer of the table Rebinds one slot, Answers on one slot, or     *)
(* Pins one generation; the invariant is kept by each of the three.        *)
(***************************************************************************)
EXTENDS Vocabularies, TLAPS, FiniteSetTheorems, SequenceTheorems, WellFoundedInduction

Binding ==
  [command : BOOLEAN, alias : SUBSET Symbols, lambda : BOOLEAN,
   native : {{}} \cup {{i} : i \in Nat}]

(* Wherever a chain may land.                                              *)
Targets == Symbols \cup {Follow(b, s) : b \in [Symbols -> Binding], s \in Symbols}

Verdicts == {"command", "lambda", "native", "unbound"}

Slot ==
  [gen : 0 .. MaxGen, command : BOOLEAN, alias : SUBSET Symbols, lambda : BOOLEAN,
   native : {{}} \cup {{i} : i \in Nat},
   resolved : SUBSET [at : Nat, verdict : Verdicts, target : Targets]]

Table ==
  [names : Seq(Names), slots : [Symbols -> Slot], len : Nat, bindings : Nat,
   cells : [Symbols -> 0 .. MaxGen], next : Nat]

OnceEach(q) == \A i, j \in 1 .. Len(q) : q[i] = q[j] => i = j

(* What a slot keeps at the present epoch is what resolving finds.         *)
KeptOf(b, k, epoch, s) ==
  \A r \in k.resolved :
    /\ r.at <= epoch
    /\ r.at = epoch => [verdict |-> r.verdict, target |-> r.target] = Fresh(b, s, FALSE)

Good(t) ==
  /\ t \in Table
  /\ OnceEach(t.names)
  /\ \A s \in Symbols : t.cells[s] = t.slots[s].gen
  /\ \A s \in Symbols : KeptOf(Bindings(t), t.slots[s], t.bindings, s)

(* A planned site: its generation has not passed, and while it stands the  *)
(* slot is as it was planned for.                                          *)
Guarded(t, x) ==
  /\ x.sym \in Symbols
  /\ x.generation \in Nat /\ x.generation < MaxGen
  /\ x.generation <= t.slots[x.sym].gen
  /\ (x.generation = t.slots[x.sym].gen /\ ~x.aliased) =>
        LET k == t.slots[x.sym] IN
        /\ ~k.command /\ k.alias = {} /\ ~k.lambda /\ k.native = {x.registration}

IInv ==
  /\ Good(table)
  /\ \A x \in site : Guarded(table, x)

-----------------------------------------------------------------------------
(* The three shapes a write has.                                           *)

(* What q names, r names by the same symbol.                               *)
Keeps(q, r) ==
  \A n : Interned([names |-> q], n) =>
    /\ Interned([names |-> r], n)
    /\ SymbolOf([names |-> r], n) = SymbolOf([names |-> q], n)

SameMeaning(k, l) ==
  k.command = l.command /\ k.alias = l.alias /\ k.lambda = l.lambda /\ k.native = l.native

Rebinds(t, u, s) ==
  /\ u \in Table /\ OnceEach(u.names) /\ Keeps(t.names, u.names)
  /\ u.bindings = t.bindings + 1
  /\ u.slots[s].gen = Bumped(t.slots[s].gen)
  /\ u.slots[s].resolved = t.slots[s].resolved
  /\ u.cells[s] = u.slots[s].gen
  /\ \A r \in Symbols \ {s} : u.slots[r] = t.slots[r] /\ u.cells[r] = t.cells[r]

Answers(t, u, s) ==
  /\ u \in Table /\ u.names = t.names /\ u.cells = t.cells /\ u.bindings = t.bindings
  /\ \A r \in Symbols \ {s} : u.slots[r] = t.slots[r]
  /\ SameMeaning(u.slots[s], t.slots[s]) /\ u.slots[s].gen = t.slots[s].gen
  /\ u.slots[s].resolved =
       {[at |-> t.bindings, verdict |-> ResolveTo(t, s, FALSE).verdict,
         target |-> ResolveTo(t, s, FALSE).target]}

Pins(t, u, s) ==
  /\ u \in Table /\ u.names = t.names /\ u.bindings = t.bindings
  /\ \A r \in Symbols \ {s} : u.slots[r] = t.slots[r] /\ u.cells[r] = t.cells[r]
  /\ SameMeaning(u.slots[s], t.slots[s]) /\ u.slots[s].resolved = t.slots[s].resolved
  /\ u.slots[s].gen = MaxGen /\ u.cells[s] = MaxGen

Moves(t, u, s) == Rebinds(t, u, s) \/ Answers(t, u, s) \/ Pins(t, u, s)

LEMMA MaxGenNat == MaxGen \in Nat /\ MaxGen > 0
  BY WordTableAssumption

(* A kept answer is used only when it is the fresh one. *)
LEMMA KeptIsFresh ==
  ASSUME NEW t, Good(t), NEW s \in Symbols
  PROVE  /\ ResolveTo(t, s, FALSE).verdict = Resolve(t, s, FALSE).verdict
         /\ ResolveTo(t, s, FALSE).target = Resolve(t, s, FALSE).target
         /\ ResolveTo(t, s, FALSE) = Resolve(t, s, FALSE)
<1>1. CASE Kept(t, s) = {}
  BY <1>1 DEF ResolveTo
<1>2. CASE Kept(t, s) # {}
  <2> DEFINE r == CHOOSE r \in Kept(t, s) : TRUE
  <2>1. r \in Kept(t, s)
    BY <1>2
  <2>2. r \in t.slots[s].resolved /\ r.at = t.bindings
    BY <2>1 DEF Kept
  <2>3. [verdict |-> r.verdict, target |-> r.target] = Resolve(t, s, FALSE)
    BY <2>2 DEF Good, KeptOf, Resolve
  <2>4. ResolveTo(t, s, FALSE) = [verdict |-> r.verdict, target |-> r.target]
    BY <1>2 DEF ResolveTo
  <2>5. QED
    BY <2>3, <2>4
<1>3. QED
  BY <1>1, <1>2

LEMMA RebindsKeepsGood ==
  ASSUME NEW t, NEW u, NEW s \in Symbols, Good(t), Rebinds(t, u, s)
  PROVE  Good(u)
<1>1. u \in Table /\ OnceEach(u.names)
  BY DEF Rebinds
<1>2. t.bindings \in Nat /\ u.bindings = t.bindings + 1
  BY DEF Rebinds, Good, Table
<1>3. ASSUME NEW r \in Symbols PROVE u.cells[r] = u.slots[r].gen
  BY DEF Rebinds, Good
<1>4. ASSUME NEW r \in Symbols PROVE KeptOf(Bindings(u), u.slots[r], u.bindings, r)
  <2>1. u.slots[r].resolved = t.slots[r].resolved
    BY DEF Rebinds
  <2>2. u.slots[r] \in Slot
    BY <1>1 DEF Table
  <2>3. ASSUME NEW a \in u.slots[r].resolved PROVE a.at \in Nat /\ a.at <= t.bindings
    <3>1. a.at \in Nat
      BY <2>2 DEF Slot
    <3>2. QED
      BY <3>1, <2>1 DEF Good, KeptOf
  <2>4. ASSUME NEW a \in u.slots[r].resolved PROVE a.at <= u.bindings /\ a.at # u.bindings
    BY <2>3, <1>2
  <2>5. QED
    BY <2>4 DEF KeptOf
<1>5. QED
  BY <1>1, <1>3, <1>4 DEF Good

LEMMA SameBindings ==
  ASSUME NEW t, NEW u, NEW s \in Symbols,
         \A r \in Symbols \ {s} : u.slots[r] = t.slots[r],
         SameMeaning(u.slots[s], t.slots[s])
  PROVE  Bindings(u) = Bindings(t)
  BY DEF Bindings, SameMeaning

LEMMA AnswersKeepsGood ==
  ASSUME NEW t, NEW u, NEW s \in Symbols, Good(t), Answers(t, u, s)
  PROVE  Good(u)
<1>1. u \in Table /\ OnceEach(u.names) /\ u.bindings = t.bindings /\ t.bindings \in Nat
  BY DEF Answers, Good, Table
<1>2. Bindings(u) = Bindings(t)
  BY SameBindings DEF Answers
<1>3. ASSUME NEW r \in Symbols PROVE u.cells[r] = u.slots[r].gen
  BY DEF Answers, Good
<1>4. ASSUME NEW r \in Symbols PROVE KeptOf(Bindings(u), u.slots[r], u.bindings, r)
  <2>1. CASE r # s
    BY <2>1, <1>1, <1>2 DEF Answers, Good
  <2>2. CASE r = s
    <3> DEFINE a == ResolveTo(t, s, FALSE)
    <3>1. u.slots[s].resolved = {[at |-> t.bindings, verdict |-> a.verdict, target |-> a.target]}
      BY DEF Answers
    <3>2. a = Fresh(Bindings(t), s, FALSE)
      BY KeptIsFresh DEF Resolve
    <3>3. [verdict |-> a.verdict, target |-> a.target] = Fresh(Bindings(t), s, FALSE)
      BY <3>2 DEF Fresh
    <3> HIDE DEF a
    <3>4. ASSUME NEW k \in u.slots[s].resolved
          PROVE  k.at = t.bindings /\ k.at <= t.bindings /\ [verdict |-> k.verdict, target |-> k.target] = Fresh(Bindings(t), s, FALSE)
      <4>1. k = [at |-> t.bindings, verdict |-> a.verdict, target |-> a.target]
        BY <3>1
      <4>2. k.at = t.bindings /\ k.verdict = a.verdict /\ k.target = a.target
        BY <4>1
      <4>3. QED
        BY <4>2, <3>3, <1>1
    <3>5. KeptOf(Bindings(t), u.slots[s], t.bindings, s)
      BY <3>4 DEF KeptOf
    <3>6. QED
      BY <2>2, <3>5, <1>1, <1>2
  <2>3. QED
    BY <2>1, <2>2
<1>5. QED
  BY <1>1, <1>3, <1>4 DEF Good

LEMMA PinsKeepsGood ==
  ASSUME NEW t, NEW u, NEW s \in Symbols, Good(t), Pins(t, u, s)
  PROVE  Good(u)
<1>1. u \in Table /\ OnceEach(u.names) /\ u.bindings = t.bindings
  BY DEF Pins, Good
<1>2. Bindings(u) = Bindings(t)
  BY SameBindings DEF Pins
<1>3. ASSUME NEW r \in Symbols PROVE u.cells[r] = u.slots[r].gen
  BY DEF Pins, Good
<1>4. ASSUME NEW r \in Symbols PROVE KeptOf(Bindings(u), u.slots[r], u.bindings, r)
  <2>1. u.slots[r].resolved = t.slots[r].resolved
    BY DEF Pins
  <2>2. QED
    BY <2>1, <1>1, <1>2 DEF Good, KeptOf
<1>5. QED
  BY <1>1, <1>3, <1>4 DEF Good

LEMMA MovesKeepsGood ==
  ASSUME NEW t, NEW u, NEW s \in Symbols, Good(t), Moves(t, u, s)
  PROVE  Good(u)
  BY RebindsKeepsGood, AnswersKeepsGood, PinsKeepsGood DEF Moves

LEMMA MovesKeepsGuarded ==
  ASSUME NEW t, NEW u, NEW s \in Symbols, Good(t), Moves(t, u, s), NEW x, Guarded(t, x)
  PROVE  Guarded(u, x)
<1>1. x.sym \in Symbols /\ x.generation \in Nat /\ x.generation < MaxGen
  BY DEF Guarded
<1>2. t.slots[x.sym].gen \in 0 .. MaxGen /\ t.slots[x.sym] \in Slot
  BY <1>1 DEF Good, Table, Slot
<1>3. CASE x.sym # s
  <2>1. u.slots[x.sym] = t.slots[x.sym]
    BY <1>1, <1>3 DEF Moves, Rebinds, Answers, Pins
  <2>2. QED
    BY <2>1 DEF Guarded
<1>4. CASE x.sym = s
  <2>1. CASE Rebinds(t, u, s)
    <3>1. u.slots[s].gen = Bumped(t.slots[s].gen)
      BY <2>1 DEF Rebinds
    <3>2. x.generation < u.slots[s].gen
      BY <3>1, <1>1, <1>2, <1>4, MaxGenNat DEF Bumped, Guarded
    <3>3. QED
      BY <3>2, <1>1, <1>2, <1>4, <3>1, MaxGenNat DEF Guarded, Bumped
  <2>2. CASE Answers(t, u, s)
    BY <2>2, <1>4 DEF Answers, Guarded, SameMeaning
  <2>3. CASE Pins(t, u, s)
    BY <2>3, <1>1, <1>4, MaxGenNat DEF Pins, Guarded
  <2>4. QED
    BY <2>1, <2>2, <2>3 DEF Moves
<1>5. QED
  BY <1>3, <1>4

-----------------------------------------------------------------------------
(* The operations.                                                         *)

LEMMA Sized ==
  ASSUME NEW q \in Seq(Names), OnceEach(q)
  PROVE  Len(q) \in Nat /\ Len(q) <= Cardinality(Names) /\ 1 .. Len(q) \subseteq Symbols
<1>1. Len(q) \in Nat /\ q \in [1 .. Len(q) -> Names]
  BY LenProperties
<1>2. q \in Injection(1 .. Len(q), Names)
  BY <1>1 DEF OnceEach, Injection, IsInjective
<1>3. Cardinality(1 .. Len(q)) <= Cardinality(Names)
  BY <1>2, WordTableAssumption, FS_Injection
<1>4. Cardinality(1 .. Len(q)) = Len(q)
  BY <1>1, FS_Interval
<1>5. Cardinality(Names) \in Nat
  BY WordTableAssumption, FS_CardinalityType
<1>6. QED
  BY <1>1, <1>3, <1>4, <1>5 DEF Symbols

LEMMA SymbolIsOne ==
  ASSUME NEW t, Good(t), NEW n, Interned(t, n)
  PROVE  SymbolOf(t, n) \in Symbols /\ SymbolOf(t, n) \in 1 .. Len(t.names)
<1>1. SymbolOf(t, n) \in 1 .. Len(t.names)
  BY DEF SymbolOf, Interned
<1>2. QED
  BY <1>1, Sized DEF Good, Table

LEMMA OnlyNames ==
  ASSUME NEW v, NEW n
  PROVE  /\ Interned(v, n) <=> Interned([names |-> v.names], n)
         /\ SymbolOf(v, n) = SymbolOf([names |-> v.names], n)
  BY DEF Interned, SymbolOf

LEMMA InternKeeps ==
  ASSUME NEW q \in Seq(Names), OnceEach(q), NEW n \in Names, NEW r,
         r = IF Interned([names |-> q], n) THEN q ELSE Append(q, n)
  PROVE  r \in Seq(Names) /\ OnceEach(r) /\ Keeps(q, r)
<1> DEFINE a == [names |-> q]
           b == [names |-> r]
<1>1. CASE Interned(a, n)
  BY <1>1 DEF Keeps
<1>2. CASE ~Interned(a, n)
  <2>1. Len(q) \in Nat /\ r = Append(q, n)
    BY <1>2, LenProperties
  <2>2. r \in Seq(Names) /\ Len(r) = Len(q) + 1 /\ r[Len(q) + 1] = n
        /\ \A i \in 1 .. Len(q) : r[i] = q[i]
    BY <2>1, AppendProperties
  <2>3. OnceEach(r)
    BY <1>2, <2>1, <2>2 DEF OnceEach, Interned
  <2>4. ASSUME NEW m, Interned(a, m)
        PROVE  Interned(b, m) /\ SymbolOf(b, m) = SymbolOf(a, m)
    <3> DEFINE s == SymbolOf(a, m)
    <3>1. s \in 1 .. Len(q) /\ q[s] = m
      BY <2>4 DEF Interned, SymbolOf
    <3>2. s \in 1 .. Len(r) /\ r[s] = m
      BY <2>1, <2>2, <3>1
    <3>3. \A t \in 1 .. Len(r) : r[t] = m => t = s
      BY <2>3, <3>2 DEF OnceEach
    <3>4. SymbolOf(b, m) = s
      BY <3>2, <3>3 DEF SymbolOf
    <3>5. QED
      BY <3>2, <3>4 DEF Interned
  <2>5. QED
    BY <2>2, <2>3, <2>4 DEF Keeps
<1>3. QED
  BY <1>1, <1>2

LEMMA KeepsTwice ==
  ASSUME NEW p, NEW q, NEW r, Keeps(p, q), Keeps(q, r) PROVE Keeps(p, r)
  BY DEF Keeps

LEMMA InternsNames ==
  ASSUME NEW t, Good(t), NEW n \in Names PROVE Keeps(t.names, Intern(t, n).names)
<1>1. t.names \in Seq(Names) /\ OnceEach(t.names) /\ t \in Table
  BY DEF Good, Table
<1>2. Intern(t, n).names
        = IF Interned([names |-> t.names], n) THEN t.names ELSE Append(t.names, n)
  BY <1>1, OnlyNames DEF Intern, Table
<1>3. QED
  BY <1>1, <1>2, InternKeeps

LEMMA InternGood ==
  ASSUME NEW t, Good(t), NEW n \in Names
  PROVE  /\ Good(Intern(t, n)) /\ Interned(Intern(t, n), n)
         /\ Intern(t, n).slots = t.slots /\ Intern(t, n).cells = t.cells
         /\ Intern(t, n).bindings = t.bindings /\ Intern(t, n).next = t.next
         /\ \A m : Interned(t, m) => Interned(Intern(t, n), m)
         /\ Keeps(t.names, Intern(t, n).names)
<1> DEFINE u == Intern(t, n)
<1>0. Keeps(t.names, u.names)
  BY InternsNames
<1>1. CASE Interned(t, n)
  BY <1>0, <1>1 DEF Intern
<1>2. CASE ~Interned(t, n)
  <2>1. u = [t EXCEPT !.names = Append(t.names, n)]
    BY <1>2 DEF Intern
  <2>2. t \in Table /\ t.names \in Seq(Names) /\ Len(t.names) \in Nat
    BY LenProperties DEF Good, Table
  <2>3. u.names = Append(t.names, n) /\ u.slots = t.slots /\ u.cells = t.cells
        /\ u.bindings = t.bindings /\ u.next = t.next
    BY <2>1, <2>2 DEF Table
  <2>4. Append(t.names, n) \in Seq(Names)
        /\ Len(Append(t.names, n)) = Len(t.names) + 1
        /\ \A i \in 1 .. Len(t.names) : Append(t.names, n)[i] = t.names[i]
        /\ Append(t.names, n)[Len(t.names) + 1] = n
    BY <2>2, AppendProperties
  <2>5. u \in Table
    BY <2>1, <2>2, <2>4 DEF Table
  <2>6. OnceEach(u.names)
    BY <1>2, <2>2, <2>3, <2>4 DEF Good, OnceEach, Interned
  <2>7. Bindings(u) = Bindings(t)
    BY <2>3 DEF Bindings
  <2>8. Good(u)
    BY <2>3, <2>5, <2>6, <2>7 DEF Good
  <2>9. Interned(u, n)
    <3>1. Len(t.names) + 1 \in 1 .. Len(u.names) /\ u.names[Len(t.names) + 1] = n
      BY <2>2, <2>3, <2>4
    <3>2. QED
      BY <3>1 DEF Interned
  <2>10. ASSUME NEW m, Interned(t, m) PROVE Interned(u, m)
    <3>1. PICK i \in 1 .. Len(t.names) : t.names[i] = m
      BY <2>10 DEF Interned
    <3>2. i \in 1 .. Len(u.names) /\ u.names[i] = m
      BY <2>2, <2>3, <2>4, <3>1
    <3>3. QED
      BY <3>2 DEF Interned
  <2>11. QED
    BY <1>0, <2>3, <2>8, <2>9, <2>10
<1>3. QED
  BY <1>1, <1>2

(* A slot rewritten and touched.  i is the table after interning.          *)
LEMMA TouchRebinds ==
  ASSUME NEW t, NEW i, Good(t), Good(i), i.bindings = t.bindings, i.slots = t.slots,
         i.cells = t.cells, Keeps(t.names, i.names), NEW s \in Symbols,
         NEW k, k \in Slot, k.gen = i.slots[s].gen, k.resolved = i.slots[s].resolved,
         NEW w, w \in Table, w.names = i.names, w.bindings = i.bindings, w.cells = i.cells,
         w.slots = [i.slots EXCEPT ![s] = k]
  PROVE  Rebinds(t, Touch(w, s), s)
<1> DEFINE g == Bumped(w.slots[s].gen)
           a == Alloc(w, s)
           u == Touch(w, s)
<1>1. w.slots[s] = k /\ k.gen \in 0 .. MaxGen
  BY DEF Good, Table, Slot
<1>2. g \in 0 .. MaxGen /\ g = Bumped(t.slots[s].gen)
  BY <1>1, MaxGenNat DEF Bumped
<1>3. a \in Table /\ a.slots = w.slots /\ a.cells = w.cells /\ a.names = w.names
      /\ a.bindings = w.bindings
  <2>1. s \in Nat
    BY WordTableAssumption, FS_CardinalityType DEF Symbols
  <2>2. QED
    BY <2>1 DEF Alloc, Table
<1>4. u = [a EXCEPT !.slots = [a.slots EXCEPT ![s].gen = g], !.bindings = a.bindings + 1,
                    !.cells = [a.cells EXCEPT ![s] = g]]
  BY <1>3 DEF Touch, Table
<1> HIDE DEF g, a, u
<1>5. /\ u.names = a.names /\ u.bindings = a.bindings + 1
      /\ u.slots = [a.slots EXCEPT ![s].gen = g] /\ u.cells = [a.cells EXCEPT ![s] = g]
  BY <1>3, <1>4 DEF Table
<1>6. [k EXCEPT !.gen = g] \in Slot /\ [k EXCEPT !.gen = g].gen = g
      /\ [k EXCEPT !.gen = g].resolved = k.resolved
  BY <1>2 DEF Slot
<1>7. u.slots = [w.slots EXCEPT ![s] = [k EXCEPT !.gen = g]]
  BY <1>1, <1>3, <1>5
<1>8. u.slots \in [Symbols -> Slot] /\ u.cells \in [Symbols -> 0 .. MaxGen]
  <2>1. w.slots \in [Symbols -> Slot] /\ w.cells \in [Symbols -> 0 .. MaxGen]
    BY DEF Table
  <2>2. u.slots \in [Symbols -> Slot]
    BY <2>1, <1>6, <1>7
  <2>3. QED
    BY <2>1, <2>2, <1>2, <1>3, <1>5
<1>9. u \in Table
  <2> DEFINE l == a.len
             q == a.names
             x == a.next
             e == a.slots
             h == a.bindings
             j == a.cells
             b == u.bindings
             f == u.slots
             c == u.cells
  <2>1. l \in Nat /\ b \in Nat /\ q \in Seq(Names) /\ x \in Nat
    BY <1>3, <1>5 DEF Table
  <2>2. a = [names |-> q, slots |-> e, len |-> l, bindings |-> h, cells |-> j, next |-> x]
    BY <1>3 DEF Table
  <2>3. u = [a EXCEPT !.slots = f, !.bindings = b, !.cells = c]
    BY <1>4, <1>5
  <2> HIDE DEF f, b, c, l, q, x, e, h, j
  <2>4. u = [names |-> q, slots |-> f, len |-> l, bindings |-> b, cells |-> c, next |-> x]
    BY <2>2, <2>3
  <2>5. f \in [Symbols -> Slot] /\ c \in [Symbols -> 0 .. MaxGen]
    BY <1>8 DEF f, c
  <2>6. QED
    BY <2>1, <2>4, <2>5 DEF Table
<1>10. \A r \in Symbols \ {s} : u.slots[r] = t.slots[r] /\ u.cells[r] = t.cells[r]
  BY <1>3, <1>5, <1>7 DEF Table
<1>11. /\ u.slots[s].gen = g /\ u.cells[s] = g
       /\ u.slots[s].resolved = t.slots[s].resolved
  BY <1>3, <1>5, <1>6, <1>7 DEF Table
<1>12. u.bindings = t.bindings + 1 /\ OnceEach(u.names) /\ Keeps(t.names, u.names)
  BY <1>3, <1>5 DEF Good
<1>13. Rebinds(t, u, s)
  BY <1>2, <1>9, <1>10, <1>11, <1>12 DEF Rebinds
<1>14. QED
  BY <1>13 DEF u

LEMMA RegisterLambdaMoves ==
  ASSUME NEW t, Good(t), NEW n \in Names
  PROVE  \E s \in Symbols : Rebinds(t, RegisterLambda(t, n), s)
<1> DEFINE i == Intern(t, n)
           s == SymbolOf(i, n)
           k == [i.slots[s] EXCEPT !.lambda = TRUE]
           w == [i EXCEPT !.slots[s].lambda = TRUE]
<1>1. Good(i) /\ Interned(i, n) /\ i.slots = t.slots /\ i.cells = t.cells /\ i.bindings = t.bindings
      /\ Keeps(t.names, i.names)
  BY InternGood
<1>2. s \in Symbols /\ i \in Table /\ i.slots[s] \in Slot
  BY <1>1, SymbolIsOne DEF Good, Table
<1>3. RegisterLambda(t, n) = Touch(w, s)
  BY DEF RegisterLambda
<1> HIDE DEF i, s
<1>4. k \in Slot /\ k.gen = i.slots[s].gen /\ k.resolved = i.slots[s].resolved
  BY <1>2 DEF Slot
<1>5. w.slots = [i.slots EXCEPT ![s] = k] /\ w.names = i.names /\ w.bindings = i.bindings
      /\ w.cells = i.cells
  BY <1>2 DEF Table
<1>6. w = [i EXCEPT !.slots = [i.slots EXCEPT ![s] = k]]
  BY <1>2 DEF Table
<1>7. [i.slots EXCEPT ![s] = k] \in [Symbols -> Slot]
  BY <1>2, <1>4 DEF Table
<1> HIDE DEF k, w
<1>8. w \in Table
  BY <1>2, <1>6, <1>7 DEF Table
<1>9. Rebinds(t, Touch(w, s), s)
  BY <1>1, <1>2, <1>4, <1>5, <1>8, TouchRebinds
<1>10. QED
  BY <1>2, <1>3, <1>9


LEMMA RegisterCommandMoves ==
  ASSUME NEW t, Good(t), NEW n \in Names
  PROVE  \E s \in Symbols : Rebinds(t, RegisterCommand(t, n), s)
<1> DEFINE i == Intern(t, n)
           s == SymbolOf(i, n)
           k == [i.slots[s] EXCEPT !.command = TRUE]
           w == [i EXCEPT !.slots[s].command = TRUE]
<1>1. Good(i) /\ Interned(i, n) /\ i.slots = t.slots /\ i.cells = t.cells /\ i.bindings = t.bindings
      /\ Keeps(t.names, i.names)
  BY InternGood
<1>2. s \in Symbols /\ i \in Table /\ i.slots[s] \in Slot
  BY <1>1, SymbolIsOne DEF Good, Table
<1>3. RegisterCommand(t, n) = Touch(w, s)
  BY DEF RegisterCommand
<1> HIDE DEF i, s
<1>4. k \in Slot /\ k.gen = i.slots[s].gen /\ k.resolved = i.slots[s].resolved
  BY <1>2 DEF Slot
<1>5. w.slots = [i.slots EXCEPT ![s] = k] /\ w.names = i.names /\ w.bindings = i.bindings
      /\ w.cells = i.cells
  BY <1>2 DEF Table
<1>6. w = [i EXCEPT !.slots = [i.slots EXCEPT ![s] = k]]
  BY <1>2 DEF Table
<1>7. [i.slots EXCEPT ![s] = k] \in [Symbols -> Slot]
  BY <1>2, <1>4 DEF Table
<1> HIDE DEF k, w
<1>8. w \in Table
  BY <1>2, <1>6, <1>7 DEF Table
<1>9. Rebinds(t, Touch(w, s), s)
  BY <1>1, <1>2, <1>4, <1>5, <1>8, TouchRebinds
<1>10. QED
  BY <1>2, <1>3, <1>9


LEMMA RegisterAliasMoves ==
  ASSUME NEW t, Good(t), NEW n \in Names, NEW m \in Names
  PROVE  \E s \in Symbols : Rebinds(t, RegisterAlias(t, n, m), s)
<1> DEFINE i == Intern(Intern(t, m), n)
           s == SymbolOf(i, n)
           k == [i.slots[s] EXCEPT !.alias = {SymbolOf(i, m)}]
           w == [i EXCEPT !.slots[s].alias = {SymbolOf(i, m)}]
<1>1. Good(i) /\ Interned(i, n) /\ i.slots = t.slots /\ i.cells = t.cells /\ i.bindings = t.bindings
      /\ Keeps(t.names, i.names)
  <2>1. Good(Intern(t, m)) /\ Interned(Intern(t, m), m)
        /\ Intern(t, m).slots = t.slots /\ Intern(t, m).cells = t.cells
        /\ Intern(t, m).bindings = t.bindings /\ Keeps(t.names, Intern(t, m).names)
    BY InternGood
  <2>2. Keeps(Intern(t, m).names, i.names)
    BY <2>1, InternGood
  <2>3. QED
    BY <2>1, <2>2, InternGood, KeepsTwice
<1>m. Interned(i, m)
  BY InternGood
<1>2. s \in Symbols /\ i \in Table /\ i.slots[s] \in Slot /\ SymbolOf(i, m) \in Symbols
  BY <1>1, <1>m, SymbolIsOne DEF Good, Table
<1>3. RegisterAlias(t, n, m) = Touch(w, s)
  BY DEF RegisterAlias
<1> HIDE DEF i, s
<1>4. k \in Slot /\ k.gen = i.slots[s].gen /\ k.resolved = i.slots[s].resolved
  BY <1>2 DEF Slot
<1>5. w.slots = [i.slots EXCEPT ![s] = k] /\ w.names = i.names /\ w.bindings = i.bindings
      /\ w.cells = i.cells
  BY <1>2 DEF Table
<1>6. w = [i EXCEPT !.slots = [i.slots EXCEPT ![s] = k]]
  BY <1>2 DEF Table
<1>7. [i.slots EXCEPT ![s] = k] \in [Symbols -> Slot]
  BY <1>2, <1>4 DEF Table
<1> HIDE DEF k, w
<1>8. w \in Table
  BY <1>2, <1>6, <1>7 DEF Table
<1>9. Rebinds(t, Touch(w, s), s)
  BY <1>1, <1>2, <1>4, <1>5, <1>8, TouchRebinds
<1>10. QED
  BY <1>2, <1>3, <1>9


LEMMA UnregisterAliasMoves ==
  ASSUME NEW t, Good(t), NEW n, Interned(t, n)
  PROVE  \E s \in Symbols : Rebinds(t, UnregisterAlias(t, n), s)
<1> DEFINE i == t
           s == SymbolOf(i, n)
           k == [i.slots[s] EXCEPT !.alias = {}]
           w == [i EXCEPT !.slots[s].alias = {}]
<1>1. Good(i) /\ Interned(i, n) /\ i.slots = t.slots /\ i.cells = t.cells /\ i.bindings = t.bindings
      /\ Keeps(t.names, i.names)
  BY DEF Keeps
<1>2. s \in Symbols /\ i \in Table /\ i.slots[s] \in Slot
  BY <1>1, SymbolIsOne DEF Good, Table
<1>3. UnregisterAlias(t, n) = Touch(w, s)
  BY DEF UnregisterAlias
<1> HIDE DEF i, s
<1>4. k \in Slot /\ k.gen = i.slots[s].gen /\ k.resolved = i.slots[s].resolved
  BY <1>2 DEF Slot
<1>5. w.slots = [i.slots EXCEPT ![s] = k] /\ w.names = i.names /\ w.bindings = i.bindings
      /\ w.cells = i.cells
  BY <1>2 DEF Table
<1>6. w = [i EXCEPT !.slots = [i.slots EXCEPT ![s] = k]]
  BY <1>2 DEF Table
<1>7. [i.slots EXCEPT ![s] = k] \in [Symbols -> Slot]
  BY <1>2, <1>4 DEF Table
<1> HIDE DEF k, w
<1>8. w \in Table
  BY <1>2, <1>6, <1>7 DEF Table
<1>9. Rebinds(t, Touch(w, s), s)
  BY <1>1, <1>2, <1>4, <1>5, <1>8, TouchRebinds
<1>10. QED
  BY <1>2, <1>3, <1>9


LEMMA UnregisterLambdaMoves ==
  ASSUME NEW t, Good(t), NEW n, Interned(t, n), SymbolOf(t, n) <= t.len
  PROVE  \E s \in Symbols : Rebinds(t, UnregisterLambda(t, n), s)
<1> DEFINE i == t
           s == SymbolOf(i, n)
           k == [i.slots[s] EXCEPT !.lambda = FALSE]
           w == [i EXCEPT !.slots[s].lambda = FALSE]
<1>1. Good(i) /\ Interned(i, n) /\ i.slots = t.slots /\ i.cells = t.cells /\ i.bindings = t.bindings
      /\ Keeps(t.names, i.names)
  BY DEF Keeps
<1>2. s \in Symbols /\ i \in Table /\ i.slots[s] \in Slot
  BY <1>1, SymbolIsOne DEF Good, Table
<1>3. UnregisterLambda(t, n) = Touch(w, s)
  <2>1. s \in Nat /\ t.len \in Nat
    BY <1>2, WordTableAssumption, FS_CardinalityType DEF Symbols, Table
  <2>2. ~(SymbolOf(t, n) > t.len)
    BY <2>1
  <2>3. QED
    BY <2>2 DEF UnregisterLambda
<1> HIDE DEF i, s
<1>4. k \in Slot /\ k.gen = i.slots[s].gen /\ k.resolved = i.slots[s].resolved
  BY <1>2 DEF Slot
<1>5. w.slots = [i.slots EXCEPT ![s] = k] /\ w.names = i.names /\ w.bindings = i.bindings
      /\ w.cells = i.cells
  BY <1>2 DEF Table
<1>6. w = [i EXCEPT !.slots = [i.slots EXCEPT ![s] = k]]
  BY <1>2 DEF Table
<1>7. [i.slots EXCEPT ![s] = k] \in [Symbols -> Slot]
  BY <1>2, <1>4 DEF Table
<1> HIDE DEF k, w
<1>8. w \in Table
  BY <1>2, <1>6, <1>7 DEF Table
<1>9. Rebinds(t, Touch(w, s), s)
  BY <1>1, <1>2, <1>4, <1>5, <1>8, TouchRebinds
<1>10. QED
  BY <1>2, <1>3, <1>9

LEMMA RegisterNativeMoves ==
  ASSUME NEW t, Good(t), NEW n \in Names
  PROVE  \E s \in Symbols : Rebinds(t, RegisterNative(t, n), s)
<1> DEFINE i == Intern(t, n)
           s == SymbolOf(i, n)
           k == [i.slots[s] EXCEPT !.native = {t.next}]
           sl == [i.slots EXCEPT ![s] = k]
           w == [i EXCEPT !.slots[s].native = {t.next}, !.next = @ + 1]
<1>1. Good(i) /\ Interned(i, n) /\ i.slots = t.slots /\ i.cells = t.cells
      /\ i.bindings = t.bindings /\ i.next = t.next /\ Keeps(t.names, i.names)
  BY InternGood
<1>2. s \in Symbols /\ i \in Table /\ i.slots[s] \in Slot /\ i.next \in Nat
  BY <1>1, SymbolIsOne DEF Good, Table
<1>3. RegisterNative(t, n) = Touch(w, s)
  BY DEF RegisterNative
<1> HIDE DEF i, s
<1>4. k \in Slot /\ k.gen = i.slots[s].gen /\ k.resolved = i.slots[s].resolved
  BY <1>1, <1>2 DEF Slot
<1>5. sl \in [Symbols -> Slot]
  BY <1>2, <1>4 DEF Table
<1>6. w = [i EXCEPT !.slots = sl, !.next = i.next + 1]
  BY <1>2 DEF Table
<1> HIDE DEF k, w, sl
<1>7. w.slots = sl /\ w.names = i.names /\ w.bindings = i.bindings /\ w.cells = i.cells
  BY <1>2, <1>6 DEF Table
<1>8. w \in Table
  <2> DEFINE x == i.next + 1
             q == i.names
             l == i.len
             e == i.slots
             b == i.bindings
             c == i.cells
             y == i.next
  <2>1. x \in Nat /\ q \in Seq(Names) /\ l \in Nat /\ b \in Nat
        /\ c \in [Symbols -> 0 .. MaxGen]
    BY <1>2 DEF Table
  <2>2. i = [names |-> q, slots |-> e, len |-> l, bindings |-> b, cells |-> c, next |-> y]
    BY <1>2 DEF Table
  <2>3. w = [i EXCEPT !.slots = sl, !.next = x]
    BY <1>6
  <2> HIDE DEF x, q, l, e, b, c, y
  <2>4. w = [names |-> q, slots |-> sl, len |-> l, bindings |-> b, cells |-> c, next |-> x]
    BY <2>2, <2>3
  <2>5. QED
    BY <2>1, <2>4, <1>5 DEF Table
<1>9. w.slots = [i.slots EXCEPT ![s] = k]
  BY <1>7 DEF sl
<1>10. Rebinds(t, Touch(w, s), s)
  BY <1>1, <1>2, <1>4, <1>7, <1>8, <1>9, TouchRebinds
<1>11. QED
  BY <1>2, <1>3, <1>10

(* Resolving stays within the verdicts and the targets.                    *)
LEMMA FreshAnswers ==
  ASSUME NEW t, Good(t), NEW s \in Symbols
  PROVE  /\ ResolveTo(t, s, FALSE).verdict \in Verdicts
         /\ ResolveTo(t, s, FALSE).target \in Targets
<1>1. Bindings(t) \in [Symbols -> Binding]
  BY DEF Bindings, Binding, Good, Table, Slot
<1>2. Follow(Bindings(t), s) \in Targets /\ s \in Targets
  BY <1>1 DEF Targets
<1> HIDE DEF Targets
<1>3. Resolve(t, s, FALSE).verdict \in Verdicts /\ Resolve(t, s, FALSE).target \in Targets
  BY <1>2 DEF Resolve, Fresh, Verdicts
<1>4. QED
  BY <1>3, KeptIsFresh

LEMMA RememberMoves ==
  ASSUME NEW t, Good(t), NEW s \in Symbols, NEW sigil
  PROVE  Remember(t, s, sigil) = t \/ Answers(t, Remember(t, s, sigil), s)
<1>1. CASE sigil \/ s > t.len
  BY <1>1 DEF Remember
<1>2. CASE ~(sigil \/ s > t.len)
  <2> DEFINE a == ResolveTo(t, s, FALSE)
             r == {[at |-> t.bindings, verdict |-> a.verdict, target |-> a.target]}
             k == [t.slots[s] EXCEPT !.resolved = r]
             sl == [t.slots EXCEPT ![s] = k]
             u == Remember(t, s, sigil)
  <2>1. u = [t EXCEPT !.slots[s].resolved = r]
    BY <1>2 DEF Remember
  <2>2. t \in Table /\ t.slots[s] \in Slot /\ t.bindings \in Nat
    BY DEF Good, Table
  <2>3. a.verdict \in Verdicts /\ a.target \in Targets
    BY FreshAnswers
  <2>4. r \in SUBSET [at : Nat, verdict : Verdicts, target : Targets]
    <3> DEFINE v == a.verdict
               g == a.target
               p == t.bindings
    <3>1. v \in Verdicts /\ g \in Targets /\ p \in Nat
      BY <2>2, <2>3
    <3>2. r = {[at |-> p, verdict |-> v, target |-> g]}
      OBVIOUS
    <3> HIDE DEF r, v, g, p, Verdicts, Targets
    <3>3. QED
      BY <3>1, <3>2
  <2>5. u = [t EXCEPT !.slots = sl]
    BY <2>1, <2>2 DEF Table
  <2>6. r = {[at |-> t.bindings, verdict |-> ResolveTo(t, s, FALSE).verdict,
              target |-> ResolveTo(t, s, FALSE).target]}
    OBVIOUS
  <2> HIDE DEF a, r, u
  <2>7. k \in Slot /\ k.resolved = r /\ k.gen = t.slots[s].gen /\ SameMeaning(k, t.slots[s])
    BY <2>2, <2>4 DEF Slot, SameMeaning
  <2>8. sl \in [Symbols -> Slot] /\ sl[s] = k /\ \A x \in Symbols \ {s} : sl[x] = t.slots[x]
    BY <2>2, <2>7 DEF Table
  <2> HIDE DEF k, sl
  <2>9. u \in Table /\ u.slots = sl /\ u.names = t.names /\ u.cells = t.cells
        /\ u.bindings = t.bindings
    BY <2>2, <2>5, <2>8 DEF Table
  <2>10. Answers(t, u, s)
    BY <2>6, <2>7, <2>8, <2>9 DEF Answers
  <2>11. QED
    BY <2>10 DEF u
<1>3. QED
  BY <1>1, <1>2

LEMMA SaturateMoves ==
  ASSUME NEW t, Good(t), NEW s \in Symbols
  PROVE  Pins(t, SaturateGeneration(t, s), s)
<1> DEFINE a == Alloc(t, s)
           u == SaturateGeneration(t, s)
           k == [t.slots[s] EXCEPT !.gen = MaxGen]
           sl == [t.slots EXCEPT ![s] = k]
           ce == [t.cells EXCEPT ![s] = MaxGen]
<1>1. a \in Table /\ a.slots = t.slots /\ a.cells = t.cells /\ a.names = t.names
      /\ a.bindings = t.bindings
  <2>1. s \in Nat
    BY WordTableAssumption, FS_CardinalityType DEF Symbols
  <2>2. QED
    BY <2>1 DEF Alloc, Table, Good
<1>2. t \in Table /\ t.slots[s] \in Slot
  BY DEF Good, Table
<1>3. u = [a EXCEPT !.slots = sl, !.cells = ce]
  BY <1>1, <1>2 DEF SaturateGeneration, Table
<1>4. k \in Slot /\ k.gen = MaxGen /\ k.resolved = t.slots[s].resolved
      /\ SameMeaning(k, t.slots[s])
  BY <1>2, MaxGenNat DEF Slot, SameMeaning
<1>5. /\ sl \in [Symbols -> Slot] /\ sl[s] = k /\ \A x \in Symbols \ {s} : sl[x] = t.slots[x]
      /\ ce \in [Symbols -> 0 .. MaxGen] /\ ce[s] = MaxGen
      /\ \A x \in Symbols \ {s} : ce[x] = t.cells[x]
  BY <1>2, <1>4, MaxGenNat DEF Table
<1> HIDE DEF a, u, k, sl, ce
<1>6. u \in Table /\ u.slots = sl /\ u.cells = ce /\ u.names = t.names /\ u.bindings = t.bindings
  <2> DEFINE x == a.next
             q == a.names
             l == a.len
             e == a.slots
             b == a.bindings
             c == a.cells
  <2>1. x \in Nat /\ q \in Seq(Names) /\ l \in Nat /\ b \in Nat
    BY <1>1 DEF Table
  <2>2. a = [names |-> q, slots |-> e, len |-> l, bindings |-> b, cells |-> c, next |-> x]
    BY <1>1 DEF Table
  <2>3. q = t.names /\ b = t.bindings
    BY <1>1
  <2>6. u = [a EXCEPT !.slots = sl, !.cells = ce]
    BY <1>3
  <2> HIDE DEF x, q, l, e, b, c
  <2>4. u = [names |-> q, slots |-> sl, len |-> l, bindings |-> b, cells |-> ce, next |-> x]
    BY <2>2, <2>6
  <2>5. QED
    BY <2>1, <2>3, <2>4, <1>5 DEF Table
<1>7. Pins(t, u, s)
  BY <1>4, <1>5, <1>6 DEF Pins
<1>8. QED
  BY <1>7 DEF u

(* A planned site is guarded from the start: at its own slot's generation. *)
LEMMA InlineGuarded ==
  ASSUME NEW t, Good(t), NEW n \in Names, NEW sigil, NEW x \in InlineSite(t, n, sigil)
  PROVE  Guarded(t, x)
<1> DEFINE s == SymbolOf(t, n)
           k == t.slots[s]
<1>1. ~sigil /\ Interned(t, n)
  BY DEF InlineSite
<1>2. s \in Symbols /\ k \in Slot
  BY <1>1, SymbolIsOne DEF Good, Table
<1>3. /\ ~k.command /\ ~k.lambda /\ k.gen # MaxGen
      /\ \E i \in k.native : x = [sym |-> s, registration |-> i, generation |-> k.gen,
                                  aliased |-> k.alias # {}]
  BY <1>1 DEF InlineSite
<1>4. PICK i \in k.native : x = [sym |-> s, registration |-> i, generation |-> k.gen,
                                aliased |-> k.alias # {}]
  BY <1>3
<1>5. k.native = {i} /\ k.gen \in 0 .. MaxGen
  BY <1>2, <1>4 DEF Slot
<1> HIDE DEF s
<1>6. x.sym = s /\ x.registration = i /\ x.generation = k.gen /\ x.aliased = (k.alias # {})
  BY <1>4
<1>7. k.gen \in Nat /\ k.gen < MaxGen
  BY <1>3, <1>5, MaxGenNat
<1>8. ~x.aliased => k.alias = {}
  BY <1>6
<1>9. x.sym \in Symbols /\ t.slots[x.sym] = k /\ x.generation \in Nat /\ x.generation < MaxGen
      /\ x.generation <= k.gen
  BY <1>2, <1>6, <1>7
<1> HIDE DEF k
<1>10. QED
  BY <1>3, <1>5, <1>6, <1>8, <1>9 DEF Guarded

-----------------------------------------------------------------------------
(* The invariant.                                                          *)

LEMMA NewTableGood == Good(NewTable)
<1>1. EmptySlot \in Slot /\ EmptySlot.resolved = {} /\ EmptySlot.gen = 0
  BY MaxGenNat DEF EmptySlot, Slot
<1>2. NewTable \in Table
  BY <1>1, MaxGenNat, EmptySeq DEF NewTable, Table
<1>3. OnceEach(NewTable.names)
  BY EmptySeq DEF NewTable, OnceEach
<1>4. \A s \in Symbols : NewTable.slots[s] = EmptySlot /\ NewTable.cells[s] = 0
  BY DEF NewTable
<1>5. \A s \in Symbols : KeptOf(Bindings(NewTable), NewTable.slots[s], NewTable.bindings, s)
  BY <1>1, <1>4 DEF KeptOf
<1>6. QED
  BY <1>1, <1>2, <1>3, <1>4, <1>5 DEF Good

(* What a step does to the table, and to the site if it plans one.         *)
LEMMA NextMoves ==
  ASSUME IInv, [Next]_vars
  PROVE  /\ table' = table \/ \E s \in Symbols : Moves(table, table', s)
         /\ site' = site \/ (table' = table /\ \A x \in site' : Guarded(table, x))
<1> USE WordsAssumption
<1>0. Good(table)
  BY DEF IInv
<1>1. CASE BindNative
  <2>1. PICK n \in Natives : Writes(RegisterNative(table, n))
    BY <1>1 DEF BindNative
  <2>2. \E s \in Symbols : Moves(table, RegisterNative(table, n), s)
    BY <1>0, RegisterNativeMoves DEF Moves
  <2>3. QED
    BY <2>1, <2>2 DEF Writes
<1>2. CASE BindCommand
  <2>1. PICK n \in Commands : Writes(RegisterCommand(table, n))
    BY <1>2 DEF BindCommand
  <2>2. \E s \in Symbols : Moves(table, RegisterCommand(table, n), s)
    BY <1>0, RegisterCommandMoves DEF Moves
  <2>3. QED
    BY <2>1, <2>2 DEF Writes
<1>3. CASE BindLambda
  <2>1. PICK n \in Lambdas : Writes(RegisterLambda(table, n))
    BY <1>3 DEF BindLambda
  <2>2. \E s \in Symbols : Moves(table, RegisterLambda(table, n), s)
    BY <1>0, RegisterLambdaMoves DEF Moves
  <2>3. QED
    BY <2>1, <2>2 DEF Writes
<1>4. CASE BindAlias
  <2>1. PICK p \in Aliases : Writes(RegisterAlias(table, p[1], p[2]))
    BY <1>4 DEF BindAlias
  <2>2. p[1] \in Names /\ p[2] \in Names
    OBVIOUS
  <2>3. \E s \in Symbols : Moves(table, RegisterAlias(table, p[1], p[2]), s)
    BY <1>0, <2>2, RegisterAliasMoves DEF Moves
  <2>4. QED
    BY <2>1, <2>3 DEF Writes
<1>5. CASE UnbindAlias
  <2>1. PICK p \in Aliases : Writes(UnregisterAlias(table, p[1]))
    BY <1>5 DEF UnbindAlias
  <2>2. CASE ~Interned(table, p[1])
    BY <2>1, <2>2 DEF Writes, UnregisterAlias
  <2>3. CASE Interned(table, p[1])
    <3>1. \E s \in Symbols : Moves(table, UnregisterAlias(table, p[1]), s)
      BY <1>0, <2>3, UnregisterAliasMoves DEF Moves
    <3>2. QED
      BY <2>1, <3>1 DEF Writes
  <2>4. QED
    BY <2>2, <2>3
<1>6. CASE UnbindLambda
  <2>1. PICK n \in Lambdas : Writes(UnregisterLambda(table, n))
    BY <1>6 DEF UnbindLambda
  <2>2. CASE ~Interned(table, n) \/ SymbolOf(table, n) > table.len
    BY <2>1, <2>2 DEF Writes, UnregisterLambda
  <2>3. CASE Interned(table, n) /\ ~(SymbolOf(table, n) > table.len)
    <3>1. SymbolOf(table, n) \in Nat /\ table.len \in Nat
      BY <1>0, <2>3, SymbolIsOne, WordTableAssumption, FS_CardinalityType
      DEF Symbols, Good, Table
    <3>2. \E s \in Symbols : Moves(table, UnregisterLambda(table, n), s)
      BY <1>0, <2>3, <3>1, UnregisterLambdaMoves DEF Moves
    <3>3. QED
      BY <2>1, <3>2 DEF Writes
  <2>4. QED
    BY <2>2, <2>3
<1>7. CASE Saturate
  <2>1. PICK n \in Sites : Interned(table, n)
                            /\ Writes(SaturateGeneration(table, SymbolOf(table, n)))
    BY <1>7 DEF Saturate
  <2>2. \E s \in Symbols : Moves(table, SaturateGeneration(table, SymbolOf(table, n)), s)
    BY <1>0, <2>1, SymbolIsOne, SaturateMoves DEF Moves
  <2>3. QED
    BY <2>1, <2>2 DEF Writes
<1>8. CASE Call
  <2>1. PICK n \in Names, sigil \in BOOLEAN :
          Interned(table, n) /\ Writes(Remember(table, SymbolOf(table, n), sigil))
    BY <1>8 DEF Call
  <2>2. \/ Remember(table, SymbolOf(table, n), sigil) = table
        \/ \E s \in Symbols : Moves(table, Remember(table, SymbolOf(table, n), sigil), s)
    BY <1>0, <2>1, SymbolIsOne, RememberMoves DEF Moves
  <2>3. QED
    BY <2>1, <2>2 DEF Writes
<1>9. CASE Inline
  <2>1. PICK n \in Sites, sigil \in BOOLEAN :
          site' = InlineSite(table, n, sigil) /\ table' = table
    BY <1>9 DEF Inline
  <2>2. \A x \in InlineSite(table, n, sigil) : Guarded(table, x)
    BY <1>0, InlineGuarded
  <2>3. QED
    BY <2>1, <2>2
<1>10. CASE UNCHANGED vars
  BY <1>10 DEF vars
<1>11. QED
  BY <1>1, <1>2, <1>3, <1>4, <1>5, <1>6, <1>7, <1>8, <1>9, <1>10 DEF Next

(* No write of the table and no plan of a compiler breaks the invariant.   *)
THEOREM WordsInductive ==
  /\ Init => IInv
  /\ IInv /\ [Next]_vars => IInv'
<1>1. Init => IInv
  BY NewTableGood DEF Init, IInv
<1>2. ASSUME IInv, [Next]_vars PROVE IInv'
  <2>1. Good(table) /\ \A x \in site : Guarded(table, x)
    BY <1>2 DEF IInv
  <2>2. Good(table')
    BY <1>2, <2>1, NextMoves, MovesKeepsGood
  <2>3. ASSUME NEW x \in site' PROVE Guarded(table', x)
    <3>1. CASE site' = site
      BY <1>2, <2>1, <2>3, <3>1, NextMoves, MovesKeepsGuarded
    <3>2. CASE table' = table /\ \A y \in site' : Guarded(table, y)
      BY <2>3, <3>2
    <3>3. QED
      BY <1>2, <3>1, <3>2, NextMoves
  <2>4. QED
    BY <2>2, <2>3 DEF IInv
<1>3. QED
  BY <1>1, <1>2

(* An answer taken from a slot is always the one resolving would find.     *)
THEOREM CacheAlwaysSound == Spec => []CacheSound
<1>1. IInv => CacheSound
  <2> SUFFICES ASSUME IInv, NEW s \in 1 .. Len(table.names)
               PROVE  ResolveTo(table, s, FALSE) = Resolve(table, s, FALSE)
    BY DEF CacheSound
  <2>1. s \in Symbols
    BY Sized DEF IInv, Good, Table
  <2>2. QED
    BY <2>1, KeptIsFresh DEF IInv
<1>2. QED
  BY <1>1, WordsInductive, PTL DEF Spec

(* Where a site's own slot carried no alias, an unmoved generation means   *)
(* the inlined fragment is what the name calls.                            *)
THEOREM GuardAlwaysSound == Spec => []GuardSound
<1>1. IInv => GuardSound
  <2> SUFFICES ASSUME IInv, NEW x \in site, ~x.aliased, GuardPasses(table, x)
               PROVE  RunsAsCalled(x)
    BY DEF GuardSound
  <2> DEFINE k == table.slots[x.sym]
             b == Bindings(table)
  <2>1. Guarded(table, x) /\ Good(table) /\ x.sym \in Symbols
    BY DEF IInv, Guarded
  <2>2. x.generation = k.gen
    BY <2>1 DEF GuardPasses, Good
  <2>3. ~k.command /\ k.alias = {} /\ ~k.lambda /\ k.native = {x.registration}
    BY <2>1, <2>2 DEF Guarded
  <2>4. b[x.sym] = [command |-> k.command, alias |-> k.alias, lambda |-> k.lambda,
                    native |-> k.native]
    BY <2>1 DEF Bindings
  <2>5. ~b[x.sym].command /\ b[x.sym].alias = {} /\ ~b[x.sym].lambda
        /\ b[x.sym].native = {x.registration}
    BY <2>3, <2>4
  <2> HIDE DEF b
  <2>6. Follow(b, x.sym) = x.sym
    BY <2>5 DEF Follow, Linked
  <2>7. Fresh(b, x.sym, FALSE) = [verdict |-> "native", target |-> x.sym]
    BY <2>5, <2>6 DEF Fresh
  <2>8. QED
    BY <2>3, <2>7 DEF RunsAsCalled, Resolve, b
<1>2. QED
  BY <1>1, WordsInductive, PTL DEF Spec

-----------------------------------------------------------------------------
(* Vocabularies.  A vocabulary only grows, at its end, so what a memo says *)
(* of a name stays true.                                                   *)

(* A memo made with v's key says what v's lookup would.                    *)
TrueOf(v, x, c) ==
  x.key = v.key =>
    Interned(v, NameOf[c]) /\ x.sym = SymbolOf(v, NameOf[c]) /\ x.sigil = SigilOf[c]

Memo == [key : Nat \ {0}, sym : Nat, sigil : BOOLEAN]

KeysInv ==
  /\ other \in [names : Seq(Names), key : Nat] /\ OnceEach(other.names)
  /\ fresh \in Nat /\ MyKey < fresh /\ other.key < fresh
  /\ other.key # 0 => other.key # MyKey

MemoInv ==
  /\ KeysInv
  /\ memo \in [Calls -> SUBSET Memo]
  /\ \A c \in Calls : \A x \in memo[c] :
       x.key < fresh /\ TrueOf(Vocabulary, x, c) /\ TrueOf(other, x, c)

LEMMA MovesKeepNames ==
  ASSUME NEW t, NEW u, NEW s, Moves(t, u, s) PROVE Keeps(t.names, u.names)
  BY DEF Moves, Rebinds, Answers, Pins, Keeps

LEMMA StaysTrue ==
  ASSUME NEW v, NEW w, w.key = v.key, Keeps(v.names, w.names), NEW x, NEW c, TrueOf(v, x, c)
  PROVE  TrueOf(w, x, c)
  BY OnlyNames DEF TrueOf, Keeps

(* What is taken from a memo that is true is what is looked up.            *)
LEMMA FoundIsLookup ==
  ASSUME NEW v, NEW c \in Calls, \A x \in memo[c] : TrueOf(v, x, c)
  PROVE  Found(v, c) = LookupCall(v, c)
<1>1. ASSUME FromMemo(v, memo[c]) # {} PROVE FromMemo(v, memo[c]) = LookupCall(v, c)
  <2>1. \A x \in memo[c] : x.key = v.key =>
          /\ Interned(v, NameOf[c])
          /\ [sym |-> x.sym, sigil |-> x.sigil]
               = [sym |-> SymbolOf(v, NameOf[c]), sigil |-> SigilOf[c]]
    BY DEF TrueOf
  <2>2. \E x \in memo[c] : x.key = v.key
    BY <1>1 DEF FromMemo
  <2>3. QED
    BY <2>1, <2>2 DEF FromMemo, LookupCall
<1>2. QED
  BY <1>1 DEF Found

LEMMA MyLookup ==
  ASSUME NEW c
  PROVE  LookupCall(Vocabulary, c) =
           IF Interned(table, NameOf[c])
           THEN {[sym |-> SymbolOf(table, NameOf[c]), sigil |-> SigilOf[c]]} ELSE {}
<1>1. Vocabulary.names = table.names
  BY DEF Vocabulary
<1>2. /\ Interned(Vocabulary, NameOf[c]) <=> Interned(table, NameOf[c])
      /\ SymbolOf(Vocabulary, NameOf[c]) = SymbolOf(table, NameOf[c])
  BY <1>1 DEF Interned, SymbolOf
<1>3. QED
  BY <1>2 DEF LookupCall

(* What an interpreter leaves is what was there or its own, and true.      *)
LEMMA LeftIsOwn ==
  ASSUME NEW v, NEW c \in Calls, v.key \in Nat, v.names \in Seq(Names),
         NEW x \in Left(v, c), x \notin memo[c]
  PROVE  x \in Memo /\ x.key = v.key /\ TrueOf(v, x, c)
<1>1. Interned(v, NameOf[c]) /\ LookupCall(v, c)
        = {[sym |-> SymbolOf(v, NameOf[c]), sigil |-> SigilOf[c]]}
  BY DEF Left, LookupCall
<1> DEFINE k == SymbolOf(v, NameOf[c])
<1>2. x \in MemoFor(v, [sym |-> k, sigil |-> SigilOf[c]])
  BY <1>1 DEF Left
<1>3. v.key # 0 /\ x = [key |-> v.key, sym |-> k, sigil |-> SigilOf[c]]
  BY <1>2 DEF MemoFor
<1>4. k \in Nat
  <2>1. k \in 1 .. Len(v.names) /\ Len(v.names) \in Nat
    BY <1>1, LenProperties DEF Interned, SymbolOf
  <2>2. QED
    BY <2>1
<1>5. SigilOf[c] \in BOOLEAN
  BY VocabulariesAssumption
<1> HIDE DEF k
<1>6. x \in Memo /\ x.key = v.key /\ x.sym = k /\ x.sigil = SigilOf[c]
  BY <1>3, <1>4, <1>5 DEF Memo
<1>7. QED
  BY <1>1, <1>6 DEF TrueOf, k

(* Whichever of the two applies a value, the memos stay true.              *)
LEMMA LeftStaysTrue ==
  ASSUME MemoInv, Good(table), NEW v \in {Vocabulary, other}, NEW c \in Calls
  PROVE  /\ Left(v, c) \in SUBSET Memo
         /\ \A x \in Left(v, c) :
              x.key < fresh /\ TrueOf(Vocabulary, x, c) /\ TrueOf(other, x, c)
<1>1. /\ Vocabulary.key = MyKey /\ Vocabulary.names = table.names
      /\ other.key \in Nat /\ other.names \in Seq(Names) /\ MyKey \in Nat
      /\ other.key < fresh /\ MyKey < fresh /\ (other.key # 0 => other.key # MyKey)
      /\ table.names \in Seq(Names)
  BY VocabulariesAssumption DEF MemoInv, KeysInv, Vocabulary, Good, Table
<1>2. SUFFICES ASSUME NEW x \in Left(v, c)
               PROVE  /\ x \in Memo /\ x.key < fresh
                      /\ TrueOf(Vocabulary, x, c) /\ TrueOf(other, x, c)
  OBVIOUS
<1>3. CASE x \in memo[c]
  BY <1>3 DEF MemoInv
<1>4. CASE x \notin memo[c]
  <2>1. v.key \in Nat /\ v.names \in Seq(Names) /\ v.key < fresh
    BY <1>1
  <2>2. x \in Memo /\ x.key = v.key /\ TrueOf(v, x, c)
    BY <1>2, <1>4, <2>1, LeftIsOwn
  <2>3. x.key # 0
    BY <2>2 DEF Memo
  <2>4. CASE v = Vocabulary
    <3>1. x.key # other.key
      BY <1>1, <2>2, <2>3, <2>4
    <3>2. QED
      BY <2>1, <2>2, <2>4, <3>1 DEF TrueOf
  <2>5. CASE v = other
    <3>1. x.key # Vocabulary.key
      BY <1>1, <2>2, <2>3, <2>5
    <3>2. QED
      BY <2>1, <2>2, <2>5, <3>1 DEF TrueOf
  <2>6. QED
    BY <2>4, <2>5
<1>5. QED
  BY <1>3, <1>4

(* A step of both interpreters is a step of the first, or none.            *)
LEMMA FirstGoesOn ==
  ASSUME MemoInv, [VocabulariesNext]_allVars PROVE [Next]_vars
<1>1. CASE Words_
  BY <1>1 DEF Words_
<1>2. CASE Applies
  <2>1. PICK c \in Calls : \E f \in Found(Vocabulary, c) :
          Writes(Remember(table, f.sym, f.sigil))
    BY <1>2 DEF Applies
  <2>2. PICK f \in LookupCall(Vocabulary, c) : Writes(Remember(table, f.sym, f.sigil))
    BY <2>1, FoundIsLookup DEF MemoInv
  <2>4. /\ Interned(table, NameOf[c])
        /\ f.sym = SymbolOf(table, NameOf[c]) /\ f.sigil = SigilOf[c]
    BY <2>2, MyLookup
  <2>5. NameOf[c] \in Names /\ SigilOf[c] \in BOOLEAN
    BY VocabulariesAssumption
  <2>6. Call
    BY <2>2, <2>4, <2>5 DEF Call
  <2>7. QED
    BY <2>6 DEF Next
<1>3. CASE OtherApplies \/ OtherInterns \/ OtherStarts \/ OtherCopies \/ Dup
  BY <1>3 DEF OtherApplies, OtherInterns, OtherStarts, OtherCopies, Dup
<1>4. CASE UNCHANGED allVars
  BY <1>4 DEF allVars
<1>5. QED
  BY <1>1, <1>2, <1>3, <1>4 DEF VocabulariesNext

(* Where the vocabularies only grow, the memos there are stay true.        *)
LEMMA MemosStayTrue ==
  ASSUME MemoInv, Keeps(table.names, table'.names), UNCHANGED fresh,
         other'.key = other.key, Keeps(other.names, other'.names),
         NEW c \in Calls, NEW x, x.key < fresh,
         TrueOf(Vocabulary, x, c), TrueOf(other, x, c)
  PROVE  x.key < fresh' /\ TrueOf(Vocabulary', x, c) /\ TrueOf(other', x, c)
<1>1. Vocabulary'.key = Vocabulary.key /\ Vocabulary.names = table.names
      /\ Vocabulary'.names = table'.names
  BY DEF Vocabulary
<1>2. QED
  BY <1>1, StaysTrue

(* A vocabulary with a key of its own takes no memo there is.              *)
LEMMA NewKey ==
  ASSUME MemoInv, UNCHANGED table, UNCHANGED memo, Hands, NEW q \in Seq(Names), OnceEach(q),
         other' = [names |-> q, key |-> Key]
  PROVE  MemoInv'
<1>1. fresh \in Nat /\ MyKey \in Nat /\ MyKey < fresh
  BY VocabulariesAssumption DEF MemoInv, KeysInv
<1>2. other'.key = Key /\ other'.names = q /\ Key \in Nat /\ Key < fresh'
      /\ fresh' \in Nat /\ fresh <= fresh' /\ (Key # 0 => Key = fresh)
  BY <1>1, VocabulariesAssumption DEF Key, Hands
<1>3. KeysInv'
  BY <1>1, <1>2 DEF KeysInv
<1>4. ASSUME NEW c \in Calls, NEW x \in memo[c]
      PROVE  x.key < fresh' /\ TrueOf(Vocabulary, x, c) /\ TrueOf(other', x, c)
  <2>1. x.key < fresh /\ TrueOf(Vocabulary, x, c) /\ x.key \in Nat /\ x.key # 0
    BY <1>4 DEF MemoInv, Memo
  <2>2. x.key # other'.key
    BY <1>1, <1>2, <2>1
  <2>3. QED
    BY <1>1, <1>2, <2>1, <2>2 DEF TrueOf
<1>5. Vocabulary' = Vocabulary
  BY DEF Vocabulary
<1>6. QED
  BY <1>3, <1>4, <1>5 DEF MemoInv

(* The memos are true of both interpreters, always.                        *)
THEOREM MemosInductive ==
  /\ VocabulariesInit => IInv /\ MemoInv
  /\ IInv /\ MemoInv /\ [VocabulariesNext]_allVars => IInv' /\ MemoInv'
<1>1. ASSUME VocabulariesInit PROVE IInv /\ MemoInv
  <2>1. IInv
    BY <1>1, WordsInductive DEF VocabulariesInit
  <2>2. KeysInv
    BY <1>1, VocabulariesAssumption, EmptySeq DEF VocabulariesInit, KeysInv, OnceEach
  <2>3. memo \in [Calls -> SUBSET Memo] /\ \A c \in Calls : memo[c] = {}
    BY <1>1 DEF VocabulariesInit
  <2>4. QED
    BY <2>1, <2>2, <2>3 DEF MemoInv
<1>2. ASSUME IInv, MemoInv, [VocabulariesNext]_allVars PROVE IInv' /\ MemoInv'
  <2>1. [Next]_vars
    BY <1>2, FirstGoesOn
  <2>2. IInv' /\ Good(table)
    BY <1>2, <2>1, WordsInductive DEF IInv
  <2>3. Keeps(table.names, table'.names)
    <3>1. CASE table' = table
      BY <3>1 DEF Keeps
    <3>2. QED
      BY <1>2, <2>1, <3>1, NextMoves, MovesKeepNames
  <2>4. /\ KeysInv /\ Keeps(other.names, other.names)
        /\ memo \in [Calls -> SUBSET Memo]
        /\ \A c \in Calls : \A x \in memo[c] :
             x.key < fresh /\ TrueOf(Vocabulary, x, c) /\ TrueOf(other, x, c)
    BY <1>2 DEF MemoInv, Keeps
  (* A step that leaves a new set of memos at each value, all of them true. *)
  <2>5. ASSUME UNCHANGED fresh, KeysInv', other'.key = other.key,
               Keeps(other.names, other'.names), memo' \in [Calls -> SUBSET Memo],
               \A c \in Calls : \A x \in memo'[c] :
                 x.key < fresh /\ TrueOf(Vocabulary, x, c) /\ TrueOf(other, x, c)
        PROVE  MemoInv'
    <3>1. ASSUME NEW c \in Calls, NEW x \in memo'[c]
          PROVE  x.key < fresh' /\ TrueOf(Vocabulary', x, c) /\ TrueOf(other', x, c)
      BY <1>2, <2>3, <2>5, <3>1, MemosStayTrue
    <3>2. QED
      BY <2>5, <3>1 DEF MemoInv
  <2>6. CASE Words_ \/ UNCHANGED allVars
    <3>1. UNCHANGED fresh /\ UNCHANGED memo /\ UNCHANGED other
      BY <2>6 DEF Words_, vocabularies, allVars
    <3>2. KeysInv'
      BY <2>4, <3>1 DEF KeysInv
    <3>3. /\ Keeps(other.names, other'.names) /\ other'.key = other.key
          /\ memo' \in [Calls -> SUBSET Memo]
          /\ \A c \in Calls : \A x \in memo'[c] :
               x.key < fresh /\ TrueOf(Vocabulary, x, c) /\ TrueOf(other, x, c)
      BY <2>4, <3>1
    <3>4. QED
      BY <2>2, <2>5, <3>1, <3>2, <3>3
  <2>7. CASE Applies
    <3>1. PICK c \in Calls : memo' = [memo EXCEPT ![c] = Left(Vocabulary, c)]
      BY <2>7 DEF Applies
    <3>2. UNCHANGED <<other, fresh>>
      BY <2>7 DEF Applies
    <3>3. /\ Left(Vocabulary, c) \in SUBSET Memo
          /\ \A x \in Left(Vocabulary, c) :
               x.key < fresh /\ TrueOf(Vocabulary, x, c) /\ TrueOf(other, x, c)
      BY <1>2, <2>2, LeftStaysTrue
    <3>4. KeysInv'
      BY <2>4, <3>2 DEF KeysInv
    <3>5. /\ Keeps(other.names, other'.names) /\ other'.key = other.key /\ UNCHANGED fresh
          /\ memo' \in [Calls -> SUBSET Memo]
      BY <2>4, <3>1, <3>2, <3>3
    <3>6. ASSUME NEW e \in Calls, NEW x \in memo'[e]
          PROVE  x.key < fresh /\ TrueOf(Vocabulary, x, e) /\ TrueOf(other, x, e)
      BY <2>4, <3>1, <3>3
    <3>7. QED
      BY <2>2, <2>5, <3>4, <3>5, <3>6
  <2>8. CASE OtherApplies
    <3>1. PICK c \in Calls : memo' = [memo EXCEPT ![c] = Left(other, c)]
      BY <2>8 DEF OtherApplies
    <3>2. UNCHANGED <<other, fresh>>
      BY <2>8 DEF OtherApplies
    <3>3. /\ Left(other, c) \in SUBSET Memo
          /\ \A x \in Left(other, c) :
               x.key < fresh /\ TrueOf(Vocabulary, x, c) /\ TrueOf(other, x, c)
      BY <1>2, <2>2, LeftStaysTrue
    <3>4. KeysInv'
      BY <2>4, <3>2 DEF KeysInv
    <3>5. /\ Keeps(other.names, other'.names) /\ other'.key = other.key /\ UNCHANGED fresh
          /\ memo' \in [Calls -> SUBSET Memo]
      BY <2>4, <3>1, <3>2, <3>3
    <3>6. ASSUME NEW e \in Calls, NEW x \in memo'[e]
          PROVE  x.key < fresh /\ TrueOf(Vocabulary, x, e) /\ TrueOf(other, x, e)
      BY <2>4, <3>1, <3>3
    <3>7. QED
      BY <2>2, <2>5, <3>4, <3>5, <3>6
  <2>9. CASE OtherInterns
    <3>1. PICK n \in OtherNames : other' = Intern(other, n)
      BY <2>9 DEF OtherInterns
    <3>2. UNCHANGED fresh /\ UNCHANGED memo /\ n \in Names
      BY <2>9, VocabulariesAssumption DEF OtherInterns
    <3>3. /\ other'.key = other.key /\ other' \in [names : Seq(Names), key : Nat]
          /\ OnceEach(other'.names) /\ Keeps(other.names, other'.names)
      <4> DEFINE r == IF Interned([names |-> other.names], n) THEN other.names
                      ELSE Append(other.names, n)
      <4>1. r \in Seq(Names) /\ OnceEach(r) /\ Keeps(other.names, r)
        BY <2>4, <3>2, InternKeeps DEF KeysInv
      <4>2. other' = [other EXCEPT !.names = r]
        BY <2>4, <3>1, OnlyNames DEF Intern, KeysInv
      <4> HIDE DEF r
      <4>3. QED
        BY <2>4, <4>1, <4>2 DEF KeysInv
    <3>4. KeysInv'
      BY <2>4, <3>2, <3>3 DEF KeysInv
    <3>5. /\ memo' \in [Calls -> SUBSET Memo]
          /\ \A c \in Calls : \A x \in memo'[c] :
               x.key < fresh /\ TrueOf(Vocabulary, x, c) /\ TrueOf(other, x, c)
      BY <2>4, <3>2
    <3>6. QED
      BY <2>2, <2>5, <3>2, <3>3, <3>4, <3>5
  <2>10. CASE OtherStarts
    <3>1. <<>> \in Seq(Names) /\ OnceEach(<<>>)
      BY EmptySeq DEF OnceEach
    <3>2. /\ other' = [names |-> <<>>, key |-> Key] /\ Hands
          /\ UNCHANGED table /\ UNCHANGED memo
      BY <2>10 DEF OtherStarts, vars
    <3>3. QED
      BY <1>2, <2>2, <3>1, <3>2, NewKey
  <2>11. CASE OtherCopies
    <3>1. table.names \in Seq(Names) /\ OnceEach(table.names)
      BY <2>2 DEF Good, Table
    <3>2. /\ other' = [names |-> table.names, key |-> Key] /\ Hands
          /\ UNCHANGED table /\ UNCHANGED memo
      BY <2>11 DEF OtherCopies, Copied, vars
    <3>3. QED
      BY <1>2, <2>2, <3>1, <3>2, NewKey
  <2>12. CASE Dup
    <3>1. PICK c \in Calls, d \in Calls :
            NameOf[c] = NameOf[d] /\ SigilOf[c] = SigilOf[d]
            /\ memo' = [memo EXCEPT ![d] = memo[c]]
      BY <2>12 DEF Dup
    <3>2. UNCHANGED <<other, fresh>>
      BY <2>12 DEF Dup
    <3>3. \A x \in memo[c] :
            x.key < fresh /\ TrueOf(Vocabulary, x, d) /\ TrueOf(other, x, d)
      BY <1>2, <3>1 DEF MemoInv, TrueOf
    <3>4. KeysInv'
      BY <2>4, <3>2 DEF KeysInv
    <3>5. /\ Keeps(other.names, other'.names) /\ other'.key = other.key /\ UNCHANGED fresh
          /\ memo' \in [Calls -> SUBSET Memo]
      BY <2>4, <3>1, <3>2, <3>3
    <3>6. ASSUME NEW e \in Calls, NEW x \in memo'[e]
          PROVE  x.key < fresh /\ TrueOf(Vocabulary, x, e) /\ TrueOf(other, x, e)
      BY <2>4, <3>1, <3>3
    <3>7. QED
      BY <2>2, <2>5, <3>4, <3>5, <3>6
  <2>13. QED
    BY <1>2, <2>2, <2>6, <2>7, <2>8, <2>9, <2>10, <2>11, <2>12 DEF VocabulariesNext
<1>3. QED
  BY <1>1, <1>2

(* A call value means what its name means to whoever applies it.           *)
THEOREM CalledAlwaysByName == VocabulariesSpec => []CalledByName
<1>1. IInv /\ MemoInv => CalledByName
  <2> SUFFICES ASSUME IInv, MemoInv, NEW c \in Calls
               PROVE  /\ Found(other, c) = LookupCall(other, c)
                      /\ {ResolveTo(table, f.sym, f.sigil) : f \in Found(Vocabulary, c)}
                           = {Resolve(table, f.sym, f.sigil) : f \in LookupCall(Vocabulary, c)}
    BY DEF CalledByName
  <2>1. Found(other, c) = LookupCall(other, c) /\ Found(Vocabulary, c) = LookupCall(Vocabulary, c)
    BY FoundIsLookup DEF MemoInv
  <2>2. ASSUME NEW f \in LookupCall(Vocabulary, c)
        PROVE  ResolveTo(table, f.sym, f.sigil) = Resolve(table, f.sym, f.sigil)
    <3>2. Interned(table, NameOf[c]) /\ f.sym = SymbolOf(table, NameOf[c]) /\ f.sigil = SigilOf[c]
      BY <2>2, MyLookup
    <3>3. f.sym \in Symbols /\ f.sigil \in BOOLEAN
      BY <3>2, SymbolIsOne, VocabulariesAssumption DEF IInv
    <3>4. CASE f.sigil
      BY <3>4 DEF ResolveTo
    <3>5. CASE f.sigil = FALSE
      BY <3>3, <3>5, KeptIsFresh DEF IInv
    <3>6. QED
      BY <3>3, <3>4, <3>5
  <2>3. QED
    BY <2>1, <2>2
<1>2. QED
  BY <1>1, MemosInductive, PTL DEF VocabulariesSpec

-----------------------------------------------------------------------------
(* Cycles of aliases.  The model's walks are recursive functions, so that  *)
(* they are there at all is a lemma; it and what is said of every place of *)
(* a walk are shown by a least counterexample.                             *)

LEMMA LeastNumber ==
  ASSUME NEW T \in SUBSET Nat, T # {}
  PROVE  \E n \in T : \A m \in T : n <= m
<1> DEFINE R == {1 .. n : n \in T}
<1>1. ASSUME NEW n \in Nat PROVE 1 .. n \in FiniteSubsetsOf(Nat)
  <2>1. IsFiniteSet(1 .. n)
    BY FS_Interval
  <2>2. QED
    BY <2>1 DEF FiniteSubsetsOf
<1>2. R \subseteq FiniteSubsetsOf(Nat) /\ R # {}
  BY <1>1
<1>3. PICK r \in R : \A q \in R : ~(<<q, r>> \in StrictSubsetOrdering(Nat))
  <2> HIDE DEF R
  <2>1. QED
    BY <1>2, FS_StrictSubsetOrderingWellFounded, WFMin
<1>4. PICK n \in T : r = 1 .. n
  OBVIOUS
<1>5. ASSUME NEW m \in T, m < n PROVE FALSE
  <2>1. 1 .. m \in R
    OBVIOUS
  <2>2. n \in 1 .. n /\ n \notin 1 .. m /\ 1 .. m \subseteq 1 .. n
    BY <1>5
  <2>3. 1 .. m \in SUBSET Nat /\ 1 .. n \in SUBSET Nat /\ 1 .. m # 1 .. n
    BY <2>2
  <2>4. <<1 .. m, r>> \in StrictSubsetOrdering(Nat)
    BY <1>4, <2>2, <2>3 DEF StrictSubsetOrdering
  <2>5. QED
    BY <1>3, <2>1, <2>4
<1>6. QED
  BY <1>5

(* What goes from each number to the next, and holds of a first, holds of  *)
(* all that follow it up to n.                                             *)
LEMMA FromTo ==
  ASSUME NEW T, NEW a \in Nat, NEW n \in Nat, a \in T,
         \A k \in a .. n - 1 : k \in T => k + 1 \in T
  PROVE  \A k \in a .. n : k \in T
<1> DEFINE Wrong == {k \in a .. n : k \notin T}
<1>1. SUFFICES ASSUME Wrong # {} PROVE FALSE
  OBVIOUS
<1>2. Wrong \in SUBSET Nat
  OBVIOUS
<1>3. PICK k \in Wrong : \A j \in Wrong : k <= j
  <2> HIDE DEF Wrong
  <2>1. QED
    BY <1>1, <1>2, LeastNumber
<1>4. k # a /\ k \in a .. n /\ k \notin T
  OBVIOUS
<1>5. k - 1 \in a .. n - 1 /\ k - 1 \notin Wrong /\ k - 1 + 1 = k
  BY <1>3, <1>4
<1>6. k - 1 \in T
  BY <1>5
<1>7. QED
  BY <1>4, <1>5, <1>6

(* h follows the aliases from s for n links.                               *)
IsWalk(b, s, n, h) ==
  h = [k \in 0 .. n |-> IF k = 0 THEN s ELSE Hop(b, h[k - 1])]

LEMMA WalkExists ==
  ASSUME NEW b, NEW s, NEW n \in Nat
  PROVE  \E h : IsWalk(b, s, n, h)
<1> DEFINE T == {m \in Nat : \E h : IsWalk(b, s, m, h)}
<1>1. 0 \in T
  <2>1. IsWalk(b, s, 0, [k \in 0 .. 0 |-> s])
    BY DEF IsWalk
  <2>2. QED
    BY <2>1
<1>2. ASSUME NEW m \in Nat, m \in T PROVE m + 1 \in T
  <2>1. PICK h : IsWalk(b, s, m, h)
    BY <1>2
  <2> DEFINE g == [k \in 0 .. m + 1 |-> IF k = m + 1 THEN Hop(b, h[m]) ELSE h[k]]
  <2>2. DOMAIN g = 0 .. m + 1
    OBVIOUS
  <2>3. ASSUME NEW k \in 0 .. m + 1
        PROVE  g[k] = IF k = 0 THEN s ELSE Hop(b, g[k - 1])
    <3>1. CASE k = m + 1
      <4>1. g[k] = Hop(b, h[m]) /\ k # 0 /\ k - 1 = m
        BY <3>1
      <4>2. g[m] = h[m]
        OBVIOUS
      <4>3. QED
        BY <4>1, <4>2
    <3>2. CASE k \in 0 .. m
      <4>1. g[k] = h[k]
        BY <3>2
      <4>2. h[k] = IF k = 0 THEN s ELSE Hop(b, h[k - 1])
        BY <2>1, <3>2 DEF IsWalk
      <4>3. k # 0 => g[k - 1] = h[k - 1]
        BY <3>2
      <4>4. QED
        BY <4>1, <4>2, <4>3
    <3>3. QED
      BY <3>1, <3>2
  <2>4. g = [k \in 0 .. m + 1 |-> IF k = 0 THEN s ELSE Hop(b, g[k - 1])]
    <3> HIDE DEF g
    <3>1. g = [k \in 0 .. m + 1 |-> g[k]]
      BY <2>2 DEF g
    <3>2. QED
      BY <2>3, <3>1
  <2>5. IsWalk(b, s, m + 1, g)
    BY <2>4 DEF IsWalk
  <2>6. QED
    BY <2>5
<1>3. \A k \in 0 .. n : k \in T
  <2>1. \A k \in 0 .. n - 1 : k \in T => k + 1 \in T
    BY <1>2
  <2> HIDE DEF T
  <2>2. QED
    BY <1>1, <2>1, FromTo
<1>4. QED
  BY <1>3

LEMMA WalkIs ==
  ASSUME NEW b, NEW s, NEW n \in Nat, NEW h, IsWalk(b, s, n, h)
  PROVE  /\ h[0] = s
         /\ \A k \in 0 .. n - 1 : h[k + 1] = Hop(b, h[k])
<1>1. ASSUME NEW k \in 0 .. n PROVE h[k] = IF k = 0 THEN s ELSE Hop(b, h[k - 1])
  BY DEF IsWalk
<1>2. ASSUME NEW k \in 0 .. n - 1 PROVE h[k + 1] = Hop(b, h[k])
  <2>1. k + 1 \in 0 .. n /\ k + 1 # 0 /\ k + 1 - 1 = k
    OBVIOUS
  <2>2. QED
    BY <1>1, <2>1
<1>3. QED
  BY <1>1, <1>2

(* A walk that has come to an end stays there.                             *)
LEMMA EndsStay ==
  ASSUME NEW b, NEW s, NEW n \in Nat, NEW h, IsWalk(b, s, n, h),
         NEW k \in 0 .. n, ~Linked(b, h[k])
  PROVE  \A m \in k .. n : h[m] = h[k]
<1> DEFINE T == {m \in 0 .. n : h[m] = h[k]}
<1>1. \A m \in k .. n - 1 : m \in T => m + 1 \in T
  BY WalkIs DEF Hop
<1>2. k \in T
  OBVIOUS
<1>3. \A m \in k .. n : m \in T
  <2> HIDE DEF T
  <2>1. QED
    BY <1>1, <1>2, FromTo
<1>4. QED
  BY <1>3

(* Two walks from one slot are the same as far as both go.                 *)
LEMMA WalksAgree ==
  ASSUME NEW b, NEW s, NEW m \in Nat, NEW n \in Nat, m <= n,
         NEW g, IsWalk(b, s, m, g), NEW h, IsWalk(b, s, n, h)
  PROVE  \A k \in 0 .. m : g[k] = h[k]
<1> DEFINE T == {k \in 0 .. m : g[k] = h[k]}
<1>1. 0 \in T
  <2>1. g[0] = s
    BY WalkIs
  <2>2. h[0] = s
    BY DEF IsWalk
  <2>3. QED
    BY <2>1, <2>2
<1>2. ASSUME NEW k \in 0 .. m - 1, k \in T PROVE k + 1 \in T
  <2>1. g[k + 1] = Hop(b, g[k]) /\ h[k + 1] = Hop(b, h[k])
    BY WalkIs
  <2>2. QED
    BY <1>2, <2>1
<1>3. \A k \in 0 .. m : k \in T
  <2> HIDE DEF T
  <2>1. QED
    BY <1>1, <1>2, FromTo
<1>4. QED
  BY <1>3

(* From i on, the walk is back p links later, within n links.              *)
ComesBack(h, i, p, n) ==
  i \in Nat /\ p \in Nat /\ p > 0 /\ i + p <= n /\ h[i + p] = h[i]

(* A walk that comes back to where it was p links ago goes round.          *)
LEMMA GoesRound ==
  ASSUME NEW b, NEW s, NEW n \in Nat, NEW h, IsWalk(b, s, n, h),
         NEW i, NEW p, ComesBack(h, i, p, n)
  PROVE  /\ \A m \in i .. n - p : h[m + p] = h[m]
         /\ (\A m \in 0 .. i + p - 1 : Linked(b, h[m])) => \A m \in 0 .. n : Linked(b, h[m])
<1> DEFINE T == {m \in i .. n - p : h[m + p] = h[m]}
<1>0. i \in Nat /\ p \in Nat /\ p > 0 /\ i + p <= n /\ h[i + p] = h[i]
  BY DEF ComesBack
<1>1. i \in T /\ n - p \in Nat
  BY <1>0
<1>2. ASSUME NEW m \in i .. n - p - 1, m \in T PROVE m + 1 \in T
  <2>1. h[m + 1] = Hop(b, h[m]) /\ h[m + p + 1] = Hop(b, h[m + p])
    <3>1. m \in 0 .. n - 1 /\ m + p \in 0 .. n - 1
      BY <1>0
    <3>2. \A k \in 0 .. n - 1 : h[k + 1] = Hop(b, h[k])
      BY WalkIs
    <3>3. QED
      BY <3>1, <3>2
  <2>2. m + p + 1 = m + 1 + p /\ m + 1 \in i .. n - p
    BY <1>0
  <2>3. QED
    BY <1>2, <2>1, <2>2
<1>3. \A m \in i .. n - p : m \in T
  <2> HIDE DEF T
  <2>1. QED
    BY <1>0, <1>1, <1>2, FromTo
<1>4. \A m \in i .. n - p : h[m + p] = h[m]
  BY <1>3
<1>5. ASSUME \A m \in 0 .. i + p - 1 : Linked(b, h[m])
      PROVE  \A m \in 0 .. n : Linked(b, h[m])
  <2> DEFINE Wrong == {m \in 0 .. n : ~Linked(b, h[m])}
  <2>1. SUFFICES ASSUME Wrong # {} PROVE FALSE
    OBVIOUS
  <2>2. Wrong \in SUBSET Nat
    OBVIOUS
  <2>3. PICK m \in Wrong : \A j \in Wrong : m <= j
    <3> HIDE DEF Wrong
    <3>1. QED
      BY <2>1, <2>2, LeastNumber
  <2>4. m \in 0 .. n /\ ~Linked(b, h[m]) /\ m >= i + p
    BY <1>0, <1>5
  <2>5. m - p \in i .. n - p /\ m - p + p = m /\ m - p \in 0 .. n /\ m - p < m
    BY <1>0, <2>4
  <2>6. h[m] = h[m - p]
    BY <1>4, <2>5
  <2>7. m - p \in Wrong
    BY <2>4, <2>5, <2>6
  <2>8. QED
    BY <2>3, <2>5, <2>7
<1>6. QED
  BY <1>4, <1>5

(* What Floyd's two walkers, one twice as fast, find within n links.       *)
Meets(b, h, n) ==
  \E i \in 1 .. n :
    /\ \A k \in 0 .. 2 * i - 1 : Linked(b, h[k])
    /\ h[i] = h[2 * i]

LEMMA MeetsAreEndless ==
  ASSUME NEW b, NEW s, NEW n \in Nat, NEW h, IsWalk(b, s, 2 * n, h), Meets(b, h, n)
  PROVE  Linked(b, h[n])
<1>1. PICK i \in 1 .. n : /\ \A k \in 0 .. 2 * i - 1 : Linked(b, h[k])
                          /\ h[i] = h[2 * i]
  BY DEF Meets
<1>2. i \in Nat /\ i > 0 /\ i + i <= 2 * n /\ i + i = 2 * i /\ 2 * n \in Nat
  OBVIOUS
<1>3. ComesBack(h, i, i, 2 * n) /\ \A k \in 0 .. i + i - 1 : Linked(b, h[k])
  BY <1>1, <1>2 DEF ComesBack
<1>4. \A k \in 0 .. 2 * n : Linked(b, h[k])
  BY <1>2, <1>3, GoesRound
<1>5. QED
  BY <1>4

(* n links over no more than n slots come back to one of them; at a        *)
(* multiple of the round's length, past its beginning, the walkers meet.   *)
LEMMA EndlessMeets ==
  ASSUME NEW b, NEW n \in Nat, NEW Z, IsFiniteSet(Z), Cardinality(Z) <= n,
         \A r \in Z : Hop(b, r) \in Z,
         NEW s \in Z, NEW h, IsWalk(b, s, 2 * n, h), Linked(b, h[n])
  PROVE  Meets(b, h, n)
<1>1. 2 * n \in Nat /\ n <= 2 * n
  OBVIOUS
<1>2. \A k \in 0 .. 2 * n : h[k] \in Z
  <2> DEFINE T == {k \in 0 .. 2 * n : h[k] \in Z}
  <2>1. 0 \in T
    <3>1. h[0] = s
      BY <1>1, WalkIs
    <3>2. QED
      BY <1>1, <3>1
  <2>2. ASSUME NEW k \in 0 .. 2 * n - 1, k \in T PROVE k + 1 \in T
    <3>1. h[k + 1] = Hop(b, h[k])
      BY <1>1, WalkIs
    <3>2. QED
      BY <2>2, <3>1
  <2>3. \A k \in 0 .. 2 * n : k \in T
    <3> HIDE DEF T
    <3>1. QED
      BY <1>1, <2>1, <2>2, FromTo
  <2>4. QED
    BY <2>3
<1>3. \A k \in 0 .. n : Linked(b, h[k])
  BY <1>1, EndsStay
<1>4. PICK i \in 0 .. n, j \in 0 .. n : i < j /\ h[i] = h[j]
  <2> DEFINE f == [k \in 0 .. n |-> h[k]]
  <2>1. f \in [0 .. n -> Z]
    BY <1>2
  <2>2. IsFiniteSet(0 .. n) /\ Cardinality(0 .. n) = n + 1
    BY FS_Interval
  <2>3. Cardinality(Z) \in Nat
    BY FS_CardinalityType
  <2>4. Cardinality(Z) < Cardinality(0 .. n)
    BY <2>2, <2>3
  <2> HIDE DEF f
  <2>5. \E x, y \in 0 .. n : x # y /\ f[x] = f[y]
    BY <2>1, <2>2, <2>4, FS_PigeonHole
  <2>6. PICK x \in 0 .. n, y \in 0 .. n : x # y /\ f[x] = f[y]
    BY <2>5
  <2>7. h[x] = h[y] /\ (x < y \/ y < x)
    BY <2>6 DEF f
  <2>8. QED
    BY <2>7
<1>5. PICK p \in Nat : p > 0 /\ i + p = j /\ i \in Nat /\ i + p <= 2 * n /\ p <= n
  <2>1. j - i \in Nat /\ j - i > 0 /\ i + (j - i) = j /\ i \in Nat /\ j <= 2 * n /\ j - i <= n
    BY <1>4
  <2>2. QED
    BY <2>1
<1>6. h[i + p] = h[i] /\ \A k \in 0 .. i + p - 1 : Linked(b, h[k])
  BY <1>3, <1>4, <1>5
<1>7. /\ \A m \in i .. 2 * n - p : h[m + p] = h[m]
      /\ \A m \in 0 .. 2 * n : Linked(b, h[m])
  <2>1. ComesBack(h, i, p, 2 * n)
    BY <1>5, <1>6 DEF ComesBack
  <2>2. /\ \A m \in i .. 2 * n - p : h[m + p] = h[m]
        /\ (\A m \in 0 .. i + p - 1 : Linked(b, h[m])) => \A m \in 0 .. 2 * n : Linked(b, h[m])
    BY <1>1, <2>1, GoesRound
  <2>3. QED
    BY <1>6, <2>2
<1> DEFINE Rounds == {m \in 0 .. n : \A x \in i .. n : h[x + m] = h[x]}
<1>8. ASSUME NEW m \in Rounds, m + p <= n PROVE m + p \in Rounds
  <2>1. ASSUME NEW x \in i .. n PROVE h[x + (m + p)] = h[x]
    <3>1. h[x + m] = h[x]
      OBVIOUS
    <3>2. x + m \in i .. 2 * n - p /\ x + m + p = x + (m + p)
      BY <1>5, <1>8
    <3>3. h[x + m + p] = h[x + m]
      BY <1>7, <3>2
    <3>4. QED
      BY <3>1, <3>2, <3>3
  <2>2. m + p \in 0 .. n
    BY <1>5, <1>8
  <2>3. QED
    BY <2>1, <2>2
<1>9. 0 \in Rounds
  BY <1>5
<1>10. \E m \in Rounds : m > 0 /\ m >= i
  <2> SUFFICES ASSUME \A m \in Rounds : m = 0 \/ m < i PROVE FALSE
    OBVIOUS
  <2> DEFINE Gaps == {n - m : m \in Rounds}
  <2>1. Gaps \in SUBSET Nat /\ Gaps # {}
    BY <1>9
  <2>2. PICK l \in Gaps : \A k \in Gaps : l <= k
    <3> HIDE DEF Gaps
    <3>1. QED
      BY <2>1, LeastNumber
  <2>3. PICK m \in Rounds : l = n - m
    OBVIOUS
  <2>4. m \in Nat /\ m + p <= n
    <3>1. m = 0 \/ m < i
      OBVIOUS
    <3>2. m \in 0 .. n
      OBVIOUS
    <3>3. QED
      BY <1>4, <1>5, <3>1, <3>2
  <2>5. m + p \in Rounds
    BY <1>8, <2>4
  <2>6. n - (m + p) \in Gaps
    BY <2>5
  <2>7. l <= n - (m + p)
    BY <2>2, <2>6
  <2>8. QED
    BY <1>5, <2>3, <2>4, <2>7
<1>11. PICK m \in Rounds : m > 0 /\ m >= i
  BY <1>10
<1>12. m \in 1 .. n /\ m \in i .. n /\ h[m + m] = h[m] /\ m + m = 2 * m
  BY <1>11
<1>13. \A k \in 0 .. 2 * m - 1 : Linked(b, h[k])
  BY <1>7, <1>12
<1>14. QED
  BY <1>12, <1>13 DEF Meets

LEMMA CyclesMeet ==
  ASSUME NEW t, NEW s
  PROVE  /\ \E h : /\ IsWalk(Bindings(t), s, 2 * Cardinality(Names), h)
                   /\ AliasCycles(t, s) <=> Meets(Bindings(t), h, Cardinality(Names))
         /\ \E g : /\ IsWalk(Bindings(t), s, Cardinality(Names), g)
                   /\ Endless(Bindings(t), s) <=> Linked(Bindings(t), g[Cardinality(Names)])
<1> DEFINE b == Bindings(t)
           n == Cardinality(Names)
           walk == CHOOSE h : h = [i \in 0 .. 2 * n |-> IF i = 0 THEN s ELSE Hop(b, h[i - 1])]
           hop == CHOOSE h : h = [k \in 0 .. n |-> IF k = 0 THEN s ELSE Hop(b, h[k - 1])]
<1>1. n \in Nat /\ 2 * n \in Nat
  BY WordTableAssumption, FS_CardinalityType
<1>2. AliasCycles(t, s) <=> Meets(b, walk, n)
  BY DEF AliasCycles, Meets
<1>3. Endless(b, s) <=> Linked(b, hop[n])
  BY DEF Endless
<1> HIDE DEF b, n
<1>4. IsWalk(b, s, 2 * n, walk)
  <2>1. \E h : h = [i \in 0 .. 2 * n |-> IF i = 0 THEN s ELSE Hop(b, h[i - 1])]
    <3>1. PICK h : IsWalk(b, s, 2 * n, h)
      BY <1>1, WalkExists
    <3>2. QED
      BY <3>1 DEF IsWalk
  <2>2. walk = [i \in 0 .. 2 * n |-> IF i = 0 THEN s ELSE Hop(b, walk[i - 1])]
    BY <2>1
  <2>3. QED
    BY <2>2 DEF IsWalk
<1>5. IsWalk(b, s, n, hop)
  <2>1. \E h : h = [i \in 0 .. n |-> IF i = 0 THEN s ELSE Hop(b, h[i - 1])]
    <3>1. PICK h : IsWalk(b, s, n, h)
      BY <1>1, WalkExists
    <3>2. QED
      BY <3>1 DEF IsWalk
  <2>2. hop = [i \in 0 .. n |-> IF i = 0 THEN s ELSE Hop(b, hop[i - 1])]
    BY <2>1
  <2>3. QED
    BY <2>2 DEF IsWalk
<1> HIDE DEF walk, hop
<1>6. QED
  BY <1>2, <1>3, <1>4, <1>5 DEF b, n

(* Where aliases lead from symbol to symbol, the walkers meet exactly when *)
(* the chain never ends, however many names there are.                     *)
THEOREM CyclesAlwaysTold == Spec => []CycleTold
<1>1. IInv => CycleTold
  <2> SUFFICES ASSUME IInv, NEW s \in 1 .. Len(table.names)
               PROVE  AliasCycles(table, s) <=> Endless(Bindings(table), s)
    BY DEF CycleTold
  <2> DEFINE b == Bindings(table)
             n == Cardinality(Names)
  <2>1. n \in Nat /\ 2 * n \in Nat /\ n <= 2 * n
    BY WordTableAssumption, FS_CardinalityType
  <2>2. s \in Symbols /\ IsFiniteSet(Symbols) /\ Cardinality(Symbols) = n
    <3>1. s \in Symbols
      BY Sized DEF IInv, Good, Table
    <3>2. IsFiniteSet(Symbols) /\ Cardinality(Symbols) = n
      BY <2>1, FS_Interval DEF Symbols
    <3>3. QED
      BY <3>1, <3>2
  <2>3. ASSUME NEW r \in Symbols PROVE Hop(b, r) \in Symbols
    <3>1. b[r].alias \in SUBSET Symbols
      BY DEF IInv, Good, Table, Slot, Bindings
    <3>2. QED
      BY <3>1 DEF Hop, Linked, Link
  <2>4. PICK h : IsWalk(b, s, 2 * n, h) /\ (AliasCycles(table, s) <=> Meets(b, h, n))
    BY CyclesMeet
  <2>5. PICK g : IsWalk(b, s, n, g) /\ (Endless(b, s) <=> Linked(b, g[n]))
    BY CyclesMeet
  <2> HIDE DEF b, n
  <2>6. g[n] = h[n]
    BY <2>1, <2>4, <2>5, WalksAgree
  <2>7. Meets(b, h, n) <=> Linked(b, h[n])
    <3>1. Meets(b, h, n) => Linked(b, h[n])
      BY <2>1, <2>4, MeetsAreEndless
    <3>2. Linked(b, h[n]) => Meets(b, h, n)
      <4>1. Cardinality(Symbols) <= n /\ \A r \in Symbols : Hop(b, r) \in Symbols
        BY <2>1, <2>2, <2>3
      <4>2. IsWalk(b, s, 2 * n, h)
        BY <2>4
      <4>3. QED
        BY <2>1, <2>2, <4>1, <4>2, EndlessMeets
    <3>3. QED
      BY <3>1, <3>2
  <2>8. QED
    BY <2>4, <2>5, <2>6, <2>7 DEF b
<1>2. QED
  BY <1>1, WordsInductive, PTL DEF Spec
=============================================================================
