---------------------------- MODULE StacksProofs ----------------------------
(***************************************************************************)
(* Proofs about Stacks and Bridge, for every set of names and values and   *)
(* every bound: the ring is the stacks (OneRing) and an unmoved epoch      *)
(* means an unmoved current stack (SteadyEpoch).  The argument is one      *)
(* lemma per operation of StackOps, that it keeps a multi-stack Good and   *)
(* that its result is one the multi-stack Reaches; the words are           *)
(* compositions, and Reaches is transitive.                                *)
(*                                                                         *)
(* Both hold when lambdas run on scratch stacks too, and a bridge gives    *)
(* the caller's stack back and leaves none of its own behind.  That rests  *)
(* on the names of the scratch pool: pool[d] is the stack of the bridge at *)
(* depth d, no two depths share a name, and a bridge starts on a name no   *)
(* stack goes by, so never on its caller's.                                *)
(*                                                                         *)
(* The next two sections are about whole words: those that visit another   *)
(* stack come back and spare the others, and each word turns the ring as   *)
(* the reference's deque is turned, which is Bund2's ring cut one place on.*)
(*                                                                         *)
(* The last sections count values.  A value's copies are its places on the *)
(* stacks and the workbench; an operation changes one stack, so a word's   *)
(* account is that of its operations.  Rotations and pushes of many values *)
(* are recursive functions: what they are rests on the least place where   *)
(* it would fail.                                                          *)
(***************************************************************************)
EXTENDS Bridge, TLAPS, SequenceTheorems, FiniteSetTheorems, WellFoundedInduction

-----------------------------------------------------------------------------
(* Rings as sequences.                                                     *)

(* A ring whose places are those of another in a new order, by f and back  *)
(* by g, has the same names, each once if the other has.                   *)
Renumbers(q, r, f, g) ==
  LET n == Len(q) IN
  /\ n \in Nat /\ Len(r) = n
  /\ f \in [1 .. n -> 1 .. n] /\ g \in [1 .. n -> 1 .. n]
  /\ \A j \in 1 .. n : r[j] = q[f[j]] /\ g[f[j]] = j /\ f[g[j]] = j

LEMMA Reordered ==
  ASSUME NEW q, NEW r, NEW f, NEW g, Renumbers(q, r, f, g)
  PROVE  /\ ItemsOf(r) = ItemsOf(q)
         /\ Distinct(q) => Distinct(r)
<1> DEFINE n == Len(q)
<1> USE DEF Renumbers
<1>1. ASSUME NEW v \in ItemsOf(q) PROVE v \in ItemsOf(r)
  <2>1. PICK i \in 1 .. n : v = q[i]
    BY <1>1 DEF ItemsOf
  <2>2. g[i] \in 1 .. n /\ r[g[i]] = v
    BY <2>1
  <2>3. QED
    BY <2>2 DEF ItemsOf
<1>2. ASSUME NEW v \in ItemsOf(r) PROVE v \in ItemsOf(q)
  <2>1. PICK j \in 1 .. n : v = r[j]
    BY <1>2 DEF ItemsOf
  <2>2. f[j] \in 1 .. n /\ q[f[j]] = v
    BY <2>1
  <2>3. QED
    BY <2>2 DEF ItemsOf
<1>3. ASSUME Distinct(q), NEW i \in 1 .. n, NEW j \in 1 .. n, r[i] = r[j] PROVE i = j
  <2>1. f[i] = f[j]
    BY <1>3 DEF Distinct
  <2>2. QED
    BY <2>1
<1>4. QED
  BY <1>1, <1>2, <1>3 DEF Distinct

LEMMA SubSeqIs ==
  ASSUME NEW N, NEW q \in Seq(N), NEW a \in Int, NEW b \in Int, 1 <= a, b <= Len(q)
  PROVE  /\ SubSeq(q, a, b) \in Seq(N)
         /\ Len(SubSeq(q, a, b)) = IF a <= b THEN b - a + 1 ELSE 0
         /\ \A j \in 1 .. b - a + 1 : SubSeq(q, a, b)[j] = q[a + j - 1]
<1>1. \A i \in a .. b : q[i] \in N
  BY ElementOfSeq
<1>2. QED
  BY <1>1, SubSeqProperties

LEMMA RotateLeftKeeps ==
  ASSUME NEW N, NEW q \in Seq(N), q # <<>>
  PROVE  /\ RotateLeft(q) \in Seq(N)
         /\ Len(RotateLeft(q)) = Len(q)
         /\ ItemsOf(RotateLeft(q)) = ItemsOf(q)
         /\ Distinct(q) => Distinct(RotateLeft(q))
         /\ \E f, g : Renumbers(q, RotateLeft(q), f, g)
<1> DEFINE r == RotateLeft(q)
<1>1. /\ r \in Seq(N) /\ Len(r) = Len(q) /\ Len(q) \in Nat \ {0}
      /\ \A i \in 1 .. Len(q) - 1 : r[i] = q[i + 1]
      /\ r[Len(q)] = q[1]
  BY DEF RotateLeft
<1> HIDE DEF r
<1> DEFINE f == [j \in 1 .. Len(q) |-> IF j = Len(q) THEN 1 ELSE j + 1]
           g == [j \in 1 .. Len(q) |-> IF j = 1 THEN Len(q) ELSE j - 1]
<1>2. f \in [1 .. Len(q) -> 1 .. Len(q)] /\ g \in [1 .. Len(q) -> 1 .. Len(q)]
  BY <1>1
<1>3. \A j \in 1 .. Len(q) : r[j] = q[f[j]] /\ g[f[j]] = j /\ f[g[j]] = j
  BY <1>1
<1> HIDE DEF f, g
<1>4. /\ ItemsOf(r) = ItemsOf(q) /\ (Distinct(q) => Distinct(r))
      /\ \E a, b : Renumbers(q, r, a, b)
  <2>1. Renumbers(q, r, f, g)
    BY <1>1, <1>2, <1>3 DEF Renumbers
  <2>2. QED
    BY <2>1, Reordered
<1>5. QED
  BY <1>1, <1>4 DEF r

LEMMA RotateRightKeeps ==
  ASSUME NEW N, NEW q \in Seq(N), q # <<>>
  PROVE  /\ RotateRight(q) \in Seq(N)
         /\ Len(RotateRight(q)) = Len(q)
         /\ ItemsOf(RotateRight(q)) = ItemsOf(q)
         /\ Distinct(q) => Distinct(RotateRight(q))
         /\ \E f, g : Renumbers(q, RotateRight(q), f, g)
<1> DEFINE r == RotateRight(q)
<1>1. /\ r \in Seq(N) /\ Len(r) = Len(q) /\ Len(q) \in Nat \ {0}
      /\ \A i \in 2 .. Len(q) : r[i] = q[i - 1]
      /\ r[1] = q[Len(q)]
  <2> DEFINE m == Len(q) - 1
             front == SubSeq(q, 1, m)
  <2>1. Len(q) \in Nat \ {0} /\ q[Len(q)] \in N
    BY LenProperties, ElementOfSeq, EmptySeq
  <2>2. r = <<q[Len(q)]>> \o front
    BY DEF RotateRight
  <2>3. m \in Nat /\ m <= Len(q) /\ Len(q) = m + 1
    BY <2>1
  <2> HIDE DEF m
  <2>4. front \in Seq(N) /\ Len(front) = m /\ \A j \in 1 .. m : front[j] = q[j]
    BY <2>3, SubSeqIs
  <2> HIDE DEF front, r
  <2>5. QED
    BY <2>1, <2>2, <2>3, <2>4
<1> HIDE DEF r
<1> DEFINE f == [j \in 1 .. Len(q) |-> IF j = 1 THEN Len(q) ELSE j - 1]
           g == [j \in 1 .. Len(q) |-> IF j = Len(q) THEN 1 ELSE j + 1]
<1>2. f \in [1 .. Len(q) -> 1 .. Len(q)] /\ g \in [1 .. Len(q) -> 1 .. Len(q)]
  BY <1>1
<1>3. \A j \in 1 .. Len(q) : r[j] = q[f[j]] /\ g[f[j]] = j /\ f[g[j]] = j
  BY <1>1
<1> HIDE DEF f, g
<1>4. /\ ItemsOf(r) = ItemsOf(q) /\ (Distinct(q) => Distinct(r))
      /\ \E a, b : Renumbers(q, r, a, b)
  <2>1. Renumbers(q, r, f, g)
    BY <1>1, <1>2, <1>3 DEF Renumbers
  <2>2. QED
    BY <2>1, Reordered
<1>5. QED
  BY <1>1, <1>4 DEF r

LEMMA ConsKeeps ==
  ASSUME NEW N, NEW q \in Seq(N), NEW x \in N
  PROVE  /\ <<x>> \o q \in Seq(N)
         /\ <<x>> \o q # <<>>
         /\ (<<x>> \o q)[1] = x
         /\ ItemsOf(<<x>> \o q) = ItemsOf(q) \cup {x}
         /\ Distinct(q) /\ x \notin ItemsOf(q) => Distinct(<<x>> \o q)
<1> DEFINE r == <<x>> \o q
<1>1. /\ r \in Seq(N) /\ Len(r) = Len(q) + 1 /\ Len(q) \in Nat
      /\ \A i \in 2 .. Len(r) : r[i] = q[i - 1]
      /\ r[1] = x
  OBVIOUS
<1> HIDE DEF r
<1>2. ASSUME NEW v \in ItemsOf(q) PROVE v \in ItemsOf(r)
  <2>1. PICK i \in 1 .. Len(q) : v = q[i]
    BY <1>2 DEF ItemsOf
  <2>2. i + 1 \in 1 .. Len(r) /\ r[i + 1] = v
    BY <1>1, <2>1
  <2>3. QED
    BY <2>2 DEF ItemsOf
<1>3. x \in ItemsOf(r)
  <2>1. 1 \in 1 .. Len(r)
    BY <1>1
  <2>2. QED
    BY <1>1, <2>1 DEF ItemsOf
<1>4. ASSUME NEW v \in ItemsOf(r) PROVE v = x \/ v \in ItemsOf(q)
  <2>1. PICK j \in 1 .. Len(r) : v = r[j]
    BY <1>4 DEF ItemsOf
  <2>2. CASE j = 1
    BY <1>1, <2>1, <2>2
  <2>3. CASE j # 1
    <3>1. j - 1 \in 1 .. Len(q) /\ v = q[j - 1]
      BY <1>1, <2>1, <2>3
    <3>2. QED
      BY <3>1 DEF ItemsOf
  <2>4. QED
    BY <2>2, <2>3
<1>5. ASSUME Distinct(q), x \notin ItemsOf(q),
             NEW i \in 1 .. Len(r), NEW j \in 1 .. Len(r), r[i] = r[j]
      PROVE  i = j
  <2>1. \A k \in 1 .. Len(q) : q[k] # x
    BY <1>5 DEF ItemsOf
  <2>2. QED
    BY <1>1, <1>5, <2>1 DEF Distinct
<1>6. QED
  BY <1>1, <1>2, <1>3, <1>4, <1>5 DEF r, Distinct

(* The place of a name in a ring that has each name once.                  *)
LEMMA FirstAtIs ==
  ASSUME NEW N, NEW q \in Seq(N), Distinct(q), NEW x \in ItemsOf(q)
  PROVE  FirstAt(q, x) \in 1 .. Len(q) /\ q[FirstAt(q, x)] = x
<1>1. PICK i \in 1 .. Len(q) : q[i] = x
  BY DEF ItemsOf
<1>2. \A j \in 1 .. i - 1 : q[j] # x
  BY <1>1 DEF Distinct
<1>3. QED
  BY <1>1, <1>2 DEF FirstAt

LEMMA TurnedToKeeps ==
  ASSUME NEW N, NEW q \in Seq(N), Distinct(q), NEW x \in ItemsOf(q)
  PROVE  /\ TurnedTo(q, x) \in Seq(N)
         /\ TurnedTo(q, x) # <<>>
         /\ TurnedTo(q, x)[1] = x
         /\ ItemsOf(TurnedTo(q, x)) = ItemsOf(q)
         /\ Distinct(TurnedTo(q, x))
<1> DEFINE i == FirstAt(q, x)
           r == TurnedTo(q, x)
           n == Len(q)
<1>1. i \in 1 .. n /\ q[i] = x /\ n \in Nat
  BY FirstAtIs
<1>2. /\ r \in Seq(N) /\ Len(r) = n
      /\ \A j \in 1 .. n : r[j] = q[IF j <= n - i + 1 THEN i + j - 1 ELSE j - (n - i + 1)]
  <2> HIDE DEF i
  <2>1. r = SubSeq(q, i, n) \o SubSeq(q, 1, i - 1)
    BY DEF TurnedTo, i
  <2>2. /\ SubSeq(q, i, n) \in Seq(N) /\ Len(SubSeq(q, i, n)) = n - i + 1
        /\ \A j \in 1 .. n - i + 1 : SubSeq(q, i, n)[j] = q[i + j - 1]
    BY <1>1, SubSeqIs
  <2>3. /\ SubSeq(q, 1, i - 1) \in Seq(N) /\ Len(SubSeq(q, 1, i - 1)) = i - 1
        /\ \A j \in 1 .. i - 1 : SubSeq(q, 1, i - 1)[j] = q[j]
    BY <1>1, SubSeqIs
  <2> HIDE DEF r
  <2> QED BY <1>1, <2>1, <2>2, <2>3, ConcatProperties
<1> HIDE DEF i, r
<1> DEFINE f == [j \in 1 .. n |-> IF j <= n - i + 1 THEN i + j - 1 ELSE j - (n - i + 1)]
           g == [j \in 1 .. n |-> IF j >= i THEN j - i + 1 ELSE j + (n - i + 1)]
<1>3. f \in [1 .. n -> 1 .. n] /\ g \in [1 .. n -> 1 .. n]
  BY <1>1
<1>4. \A j \in 1 .. n : r[j] = q[f[j]] /\ g[f[j]] = j /\ f[g[j]] = j
  <2>1. \A j \in 1 .. n : r[j] = q[f[j]]
    BY <1>1, <1>2
  <2>2. ASSUME NEW j \in 1 .. n PROVE g[f[j]] = j
    <3>1. CASE j <= n - i + 1
      BY <1>1, <3>1
    <3>2. CASE ~(j <= n - i + 1)
      BY <1>1, <3>2
    <3>3. QED
      BY <3>1, <3>2
  <2>3. ASSUME NEW j \in 1 .. n PROVE f[g[j]] = j
    <3>1. CASE j >= i
      BY <1>1, <3>1
    <3>2. CASE ~(j >= i)
      BY <1>1, <3>2
    <3>3. QED
      BY <3>1, <3>2
  <2>4. QED
    BY <2>1, <2>2, <2>3
<1> HIDE DEF f, g
<1>5. ItemsOf(r) = ItemsOf(q) /\ (Distinct(q) => Distinct(r))
  <2>1. Renumbers(q, r, f, g)
    BY <1>1, <1>2, <1>3, <1>4 DEF Renumbers
  <2>2. QED
    BY <2>1, Reordered
<1>6. QED
  BY <1>1, <1>2, <1>5 DEF r

LEMMA RetainKeeps ==
  ASSUME NEW N, NEW q \in Seq(N), Distinct(q), NEW x
  PROVE  /\ Retain(q, x) \in Seq(N)
         /\ ItemsOf(Retain(q, x)) = ItemsOf(q) \ {x}
         /\ Distinct(Retain(q, x))
         /\ q # <<>> /\ q[1] # x => Retain(q, x) # <<>> /\ Retain(q, x)[1] = q[1]
<1> DEFINE i == FirstAt(q, x)
           r == Retain(q, x)
           n == Len(q)
<1>1. CASE x \notin ItemsOf(q)
  BY <1>1 DEF Retain
<1>2. CASE x \in ItemsOf(q)
  <2>1. i \in 1 .. n /\ q[i] = x /\ n \in Nat
    BY <1>2, FirstAtIs
  <2>2. /\ r \in Seq(N) /\ Len(r) = n - 1
        /\ \A j \in 1 .. n - 1 : r[j] = q[IF j < i THEN j ELSE j + 1]
    <3> DEFINE left == SubSeq(q, 1, i - 1)
               right == SubSeq(q, i + 1, n)
    <3> HIDE DEF i
    <3>1. r = left \o right
      BY <1>2 DEF Retain, i
    <3>2. right \in Seq(N) /\ Len(right) = n - i /\ \A j \in 1 .. n - i : right[j] = q[i + j]
      BY <2>1, SubSeqIs
    <3>3. left \in Seq(N) /\ Len(left) = i - 1 /\ \A j \in 1 .. i - 1 : left[j] = q[j]
      BY <2>1, SubSeqIs
    <3> HIDE DEF r, left, right
    <3>4. r \in Seq(N) /\ Len(r) = n - 1
          /\ \A j \in 1 .. n - 1 : r[j] = IF j <= i - 1 THEN left[j] ELSE right[j - (i - 1)]
      <4>1. /\ r \in Seq(N) /\ Len(r) = Len(left) + Len(right)
            /\ \A j \in 1 .. Len(left) + Len(right) :
                 r[j] = IF j <= Len(left) THEN left[j] ELSE right[j - Len(left)]
        BY <3>1, <3>2, <3>3, ConcatProperties
      <4>2. Len(left) + Len(right) = n - 1
        BY <2>1, <3>2, <3>3
      <4>3. QED
        BY <3>3, <4>1, <4>2
    <3>5. QED
      BY <2>1, <3>2, <3>3, <3>4
  <2> HIDE DEF i, r
  <2>3. \A j \in 1 .. n : j # i => q[j] = r[IF j < i THEN j ELSE j - 1] /\ q[j] # x
    BY <2>1, <2>2 DEF Distinct
  <2>4. ItemsOf(r) \subseteq ItemsOf(q) \ {x}
    <3> SUFFICES ASSUME NEW k \in 1 .. Len(r) PROVE r[k] \in ItemsOf(q) /\ r[k] # x
      BY DEF ItemsOf
    <3> DEFINE j == IF k < i THEN k ELSE k + 1
    <3>1. j \in 1 .. n /\ j # i /\ r[k] = q[j]
      BY <2>1, <2>2
    <3>2. QED
      BY <2>3, <3>1 DEF ItemsOf
  <2>5. ItemsOf(q) \ {x} \subseteq ItemsOf(r)
    <3> SUFFICES ASSUME NEW j \in 1 .. n, q[j] # x PROVE \E k \in 1 .. Len(r) : r[k] = q[j]
      BY DEF ItemsOf
    <3> DEFINE k == IF j < i THEN j ELSE j - 1
    <3>1. j # i /\ k \in 1 .. Len(r) /\ r[k] = q[j]
      BY <2>1, <2>2, <2>3
    <3> QED BY <3>1
  <2>6. Distinct(r)
    BY <2>1, <2>2 DEF Distinct
  <2>7. q # <<>> /\ q[1] # x => r # <<>> /\ r[1] = q[1]
    BY <2>1, <2>2
  <2>8. QED
    BY <2>2, <2>4, <2>5, <2>6, <2>7 DEF r
<1>3. QED
  BY <1>1, <1>2
-----------------------------------------------------------------------------
(* Multi-stacks.                                                           *)

IsRecord(k) == k = [name |-> k.name, items |-> k.items, cap |-> k.cap]

(* What every operation keeps, over a set N of names.                      *)
Good(N, s) ==
  /\ s = [current |-> s.current, others |-> s.others, order |-> s.order,
          epoch |-> s.epoch, cell |-> s.cell]
  /\ IsRecord(s.current)
  /\ \A n \in DOMAIN s.others : IsRecord(s.others[n])
  /\ s.order \in Seq(N)
  /\ s.epoch \in Nat /\ s.epoch <= MaxEpoch /\ s.cell = s.epoch
  /\ RingIsTheStacks(s)

(* t may come after s: the epoch did not go back, and it moved, or had no  *)
(* room to, if another stack is current.                                   *)
Reaches(s, t) ==
  /\ t.epoch >= s.epoch
  /\ t.current.name # s.current.name => t.epoch > s.epoch \/ t.epoch = MaxEpoch

(* Only the items or the capacity of some stack differ between s and t.    *)
Still(N, s, t) ==
  /\ Good(N, t)
  /\ t.epoch = s.epoch /\ t.order = s.order
  /\ t.current.name = s.current.name
  /\ StackNames(t) = StackNames(s)

(* From s to t at most one change of the current stack, counted exactly.   *)
Moves(N, s, t) ==
  /\ Good(N, t)
  /\ Reaches(s, t)
  /\ t.epoch # s.epoch => t.current.name # s.current.name

LEMMA ReachesTransitive ==
  ASSUME NEW N, NEW s, NEW t, NEW u, Good(N, s), Good(N, t), Good(N, u),
         Reaches(s, t), Reaches(t, u)
  PROVE  Reaches(s, u)
BY MaxEpochIsNat DEF Good, Reaches

LEMMA StillIsMoves ==
  ASSUME NEW N, NEW s, NEW t, Good(N, s), Still(N, s, t)
  PROVE  Moves(N, s, t)
BY DEF Still, Moves, Reaches, Good

LEMMA StillThenMoves ==
  ASSUME NEW N, NEW s, NEW t, NEW u, Good(N, s), Still(N, s, t), Moves(N, t, u)
  PROVE  Moves(N, s, u)
BY DEF Still, Moves, Reaches

LEMMA MovesThenStill ==
  ASSUME NEW N, NEW s, NEW t, NEW u, Good(N, s), Moves(N, s, t), Still(N, t, u)
  PROVE  Moves(N, s, u)
BY DEF Still, Moves, Reaches

LEMMA StillThenStill ==
  ASSUME NEW N, NEW s, NEW t, NEW u, Good(N, s), Still(N, s, t), Still(N, t, u)
  PROVE  Still(N, s, u)
BY DEF Still

LEMMA PutKeeps ==
  ASSUME NEW N, NEW s, Good(N, s), NEW n, NEW k, IsRecord(k), k.name = n
  PROVE  Still(N, s, Put(s, n, k))
<1> DEFINE t == Put(s, n, k)
<1>1. CASE n = s.current.name
  BY <1>1 DEF Put, Still, Good, RingIsTheStacks, StackNames
<1>2. CASE n # s.current.name /\ n \in DOMAIN s.others
  <2>1. t = [s EXCEPT !.others[n] = k]
    BY <1>2 DEF Put
  <2>2. /\ t.current = s.current /\ t.order = s.order /\ t.epoch = s.epoch /\ t.cell = s.cell
        /\ DOMAIN t.others = DOMAIN s.others
        /\ \A m \in DOMAIN s.others : t.others[m] = IF m = n THEN k ELSE s.others[m]
        /\ t = [current |-> t.current, others |-> t.others, order |-> t.order,
                epoch |-> t.epoch, cell |-> t.cell]
    BY <2>1 DEF Good
  <2> HIDE DEF t
  <2>3. Still(N, s, t)
    BY <2>2 DEF Still, Good, RingIsTheStacks, StackNames
  <2>4. QED
    BY <2>3 DEF t
<1>3. CASE n # s.current.name /\ n \notin DOMAIN s.others
  BY <1>3 DEF Put, Still
<1>4. QED
  BY <1>1, <1>2, <1>3

LEMMA OnCurrentKeeps ==
  ASSUME NEW N, NEW s, Good(N, s), NEW k, IsRecord(k), k.name = s.current.name
  PROVE  Still(N, s, OnCurrent(s, k)) /\ OnCurrent(s, k).current = k
BY DEF OnCurrent, Still, Good, RingIsTheStacks, StackNames

(* A move of the ring that keeps its names.                                *)
Resettled(s, q) == Settle([s EXCEPT !.order = q], TRUE)

LEMMA SettleKeeps ==
  ASSUME NEW N, NEW s, Good(N, s), NEW q \in Seq(N), q # <<>>,
         ItemsOf(q) = ItemsOf(s.order), Distinct(q)
  PROVE  LET t == Resettled(s, q)
         IN /\ Good(N, t)
            /\ t.order = q /\ t.current.name = q[1]
            /\ t.epoch = s.epoch
            /\ StackNames(t) = StackNames(s)
<1> DEFINE a == [s EXCEPT !.order = q]
           t == Resettled(s, q)
<1>1. /\ a = [current |-> s.current, others |-> s.others, order |-> q,
              epoch |-> s.epoch, cell |-> s.cell]
  BY DEF Good
<1>2. q[1] \in ItemsOf(q)
  BY LenProperties, EmptySeq DEF ItemsOf
<1>3. CASE s.current.name = q[1]
  <2>1. t = a
    BY <1>1, <1>3 DEF Settle, Resettled
  <2>2. QED
    BY <1>1, <1>3, <2>1 DEF Good, RingIsTheStacks, StackNames
<1>4. CASE s.current.name # q[1]
  <2>1. q[1] \in DOMAIN s.others
    BY <1>2, <1>4 DEF Good, RingIsTheStacks, StackNames
  <2> DEFINE rest == Delete(s.others, q[1])
             oth == Insert(rest, s.current.name, s.current)
  <2>2. t = [current |-> s.others[q[1]], others |-> oth, order |-> q,
             epoch |-> s.epoch, cell |-> s.cell]
    BY <1>1, <1>4, <2>1 DEF Settle, Resettled
  <2>3. /\ DOMAIN oth = (DOMAIN s.others \ {q[1]}) \cup {s.current.name}
        /\ oth[s.current.name] = s.current
        /\ \A m \in DOMAIN s.others \ {q[1]} : oth[m] = s.others[m]
    BY DEF Insert, Delete, Good, RingIsTheStacks
  <2> HIDE DEF rest, oth, t
  <2>4. /\ t.current = s.others[q[1]] /\ t.others = oth /\ t.order = q
        /\ t.epoch = s.epoch /\ t.cell = s.cell
    BY <2>2
  <2>5. StackNames(t) = StackNames(s)
    BY <2>1, <2>3, <2>4 DEF StackNames, Good, RingIsTheStacks
  <2>6. IsRecord(t.current) /\ t.current.name = q[1]
    BY <2>1, <2>4 DEF Good, RingIsTheStacks
  <2>7. \A m \in DOMAIN t.others : IsRecord(t.others[m]) /\ t.others[m].name = m
    BY <2>3, <2>4 DEF Good, RingIsTheStacks
  <2>8. q[1] \notin DOMAIN t.others
    BY <1>4, <2>3, <2>4
  <2>9. RingIsTheStacks(t)
    BY <2>4, <2>5, <2>6, <2>7, <2>8 DEF Good, RingIsTheStacks
  <2>10. QED
    BY <2>2, <2>4, <2>5, <2>6, <2>7, <2>9 DEF Good, t
<1>5. QED
  BY <1>3, <1>4

LEMMA BumpKeeps ==
  ASSUME NEW N, NEW s, Good(N, s)
  PROVE  LET t == BumpEpoch(s)
         IN /\ Good(N, t)
            /\ t.current = s.current /\ t.order = s.order /\ t.others = s.others
            /\ t.epoch >= s.epoch
            /\ t.epoch > s.epoch \/ t.epoch = MaxEpoch
            /\ StackNames(t) = StackNames(s)
<1> DEFINE e == IF s.epoch < MaxEpoch THEN s.epoch + 1 ELSE s.epoch
<1>1. BumpEpoch(s) = [current |-> s.current, others |-> s.others, order |-> s.order,
                      epoch |-> e, cell |-> e]
  <2> DEFINE t == BumpEpoch(s)
  <2>1. t = [s EXCEPT !.epoch = e, !.cell = e]
    BY DEF BumpEpoch
  <2>2. s = [current |-> s.current, others |-> s.others, order |-> s.order,
             epoch |-> s.epoch, cell |-> s.cell]
    BY DEF Good
  <2> HIDE DEF e, t
  <2>3. t = [current |-> s.current, others |-> s.others, order |-> s.order,
             epoch |-> e, cell |-> e]
    BY <2>1, <2>2
  <2>4. QED
    BY <2>3 DEF t
<1>2. e \in Nat /\ e <= MaxEpoch /\ e >= s.epoch /\ (e > s.epoch \/ e = MaxEpoch)
  BY MaxEpochIsNat DEF Good
<1> HIDE DEF e
<1>3. QED
  BY <1>1, <1>2 DEF Good, RingIsTheStacks, StackNames

(* A name new to the ring, appended as the reference appends it.           *)
LEMMA AddKeeps ==
  ASSUME NEW N, NEW s, Good(N, s), NEW n \in N, ~Has(s, n)
  PROVE  LET t == AddAsCurrent(Create(s, n), n)
         IN /\ Moves(N, s, t) /\ StackNames(t) = StackNames(s) \cup {n}
            /\ t.current.name = n
<1> DEFINE c == Create(s, n)
           q == <<n>> \o RotateLeft(s.order)
           u == Settle([c EXCEPT !.order = q], TRUE)
           oth == Insert(s.others, n, NamedStack(n))
           back == Insert(Delete(oth, n), s.current.name, s.current)
<1>1. c = [current |-> s.current, others |-> oth, order |-> s.order,
           epoch |-> s.epoch, cell |-> s.cell]
  BY DEF Create, Good
<1>2. /\ n \notin DOMAIN s.others /\ n # s.current.name /\ n \notin ItemsOf(s.order)
      /\ s.order # <<>> /\ s.order \in Seq(N) /\ Distinct(s.order)
  BY DEF Has, Good, RingIsTheStacks, StackNames
<1>3. /\ RotateLeft(s.order) \in Seq(N) /\ ItemsOf(RotateLeft(s.order)) = ItemsOf(s.order)
      /\ Distinct(RotateLeft(s.order))
  BY <1>2, RotateLeftKeeps
<1>4. /\ q \in Seq(N) /\ q # <<>> /\ q[1] = n /\ ItemsOf(q) = ItemsOf(s.order) \cup {n}
      /\ Distinct(q)
  BY <1>2, <1>3, ConsKeeps
<1>5. /\ DOMAIN oth = DOMAIN s.others \cup {n} /\ oth[n] = NamedStack(n)
      /\ \A m \in DOMAIN s.others : oth[m] = s.others[m]
  BY <1>2 DEF Insert
<1>6. /\ DOMAIN back = DOMAIN s.others \cup {s.current.name}
      /\ back[s.current.name] = s.current
      /\ \A m \in DOMAIN s.others : back[m] = s.others[m]
  BY <1>2, <1>5 DEF Insert, Delete, Good, RingIsTheStacks
<1> HIDE DEF q
<1>7. u = [current |-> NamedStack(n), others |-> back, order |-> q,
           epoch |-> s.epoch, cell |-> s.cell]
  <2>1. [c EXCEPT !.order = q] = [current |-> s.current, others |-> oth, order |-> q,
                                  epoch |-> s.epoch, cell |-> s.cell]
    BY <1>1
  <2> HIDE DEF c, oth
  <2>2. QED
    BY <1>2, <1>4, <1>5, <2>1 DEF Settle
<1> HIDE DEF oth, back
<1>8. IsRecord(NamedStack(n)) /\ NamedStack(n).name = n
  BY DEF IsRecord, NamedStack
<1>9. Good(N, u) /\ StackNames(u) = StackNames(s) \cup {n} /\ u.epoch = s.epoch /\ u.current.name = n
  <2> HIDE DEF u
  <2>1. StackNames(u) = StackNames(s) \cup {n}
    BY <1>6, <1>7, <1>8 DEF StackNames
  <2>2. RingIsTheStacks(u)
    BY <1>2, <1>4, <1>6, <1>7, <1>8, <2>1 DEF RingIsTheStacks, Good
  <2>3. QED
    BY <1>4, <1>6, <1>7, <1>8, <2>1, <2>2 DEF Good, RingIsTheStacks
<1>10. AddAsCurrent(c, n) = BumpEpoch(u)
  BY <1>1 DEF AddAsCurrent, q
<1> HIDE DEF u, c
<1>11. QED
  BY <1>2, <1>9, <1>10, BumpKeeps DEF Moves, Reaches, c

(* A drop of the current stack: the ring's next name comes into current,   *)
(* or the generated one if there is none.                                  *)
LEMMA DropKeeps ==
  ASSUME NEW N, NEW s, Good(N, s), NEW fresh \in N,
         fresh \notin StackNames(s) \/ Len(s.order) > 1
  PROVE  Moves(N, s, DropNamed(s, s.current.name, fresh))
<1> DEFINE n == s.current.name
           kept == Retain(s.order, n)
           q == IF kept = <<>> THEN <<fresh>> ELSE kept
           gone == [s EXCEPT !.others = Delete(@, n), !.order = q]
           t == Settle(gone, FALSE)
<1>1. /\ kept \in Seq(N) /\ ItemsOf(kept) = StackNames(s) \ {n} /\ Distinct(kept)
      /\ StackNames(s) \ {n} = DOMAIN s.others
  BY RetainKeeps DEF Good, RingIsTheStacks, StackNames
<1>2. /\ q \in Seq(N) /\ q # <<>> /\ Distinct(q) /\ q[1] # n
      /\ ItemsOf(q) = DOMAIN s.others \cup {q[1]}
  <2>1. CASE kept # <<>>
    <3>1. kept[1] \in ItemsOf(kept)
      BY <1>1, <2>1, LenProperties, EmptySeq DEF ItemsOf
    <3>2. QED
      BY <1>1, <2>1, <3>1
  <2>2. CASE kept = <<>>
    <3>1. StackNames(s) = {n} /\ DOMAIN s.others = {}
      <4>1. ItemsOf(kept) = {}
        BY <2>2 DEF ItemsOf
      <4>2. QED
        BY <1>1, <4>1 DEF StackNames
    <3>2. Len(s.order) <= 1
      <4>1. \A i \in 1 .. Len(s.order) : s.order[i] = n
        BY <3>1 DEF Good, RingIsTheStacks, ItemsOf
      <4>2. Len(s.order) \in Nat
        BY LenProperties DEF Good
      <4>3. QED
        BY <4>1, <4>2 DEF Good, RingIsTheStacks, Distinct
    <3>3. fresh # n /\ q = <<fresh>>
      BY <2>2, <3>1, <3>2, LenProperties DEF Good
    <3>4. ItemsOf(<<fresh>>) = {fresh} /\ Distinct(<<fresh>>) /\ <<fresh>> \in Seq(N)
      BY DEF ItemsOf, Distinct
    <3> HIDE DEF q
    <3>5. QED
      BY <3>1, <3>3, <3>4
  <2>3. QED
    BY <2>1, <2>2
<1> HIDE DEF kept, q
<1> DEFINE in == IF q[1] \in DOMAIN s.others THEN s.others[q[1]] ELSE NamedStack(q[1])
           less == Delete(s.others, n)
           oth == Delete(less, q[1])
<1>3. /\ DOMAIN less = DOMAIN s.others /\ DOMAIN oth = DOMAIN s.others \ {q[1]}
      /\ \A m \in DOMAIN s.others : less[m] = s.others[m]
      /\ \A m \in DOMAIN oth : oth[m] = s.others[m]
  BY DEF Delete, Good, RingIsTheStacks
<1>4. t = [current |-> in, others |-> oth, order |-> q, epoch |-> s.epoch, cell |-> s.cell]
  <2>1. gone = [current |-> s.current, others |-> less, order |-> q,
                epoch |-> s.epoch, cell |-> s.cell]
    <3>1. s = [current |-> s.current, others |-> s.others, order |-> s.order,
               epoch |-> s.epoch, cell |-> s.cell]
      BY DEF Good
    <3>2. gone = [s EXCEPT !.others = less, !.order = q]
      OBVIOUS
    <3> HIDE DEF gone, less
    <3>3. QED
      BY <3>1, <3>2
  <2> HIDE DEF gone
  <2>2. t = [gone EXCEPT !.current = in, !.others = oth]
    BY <1>2, <1>3, <2>1 DEF Settle
  <2> HIDE DEF t, in, oth
  <2>3. QED
    BY <2>1, <2>2
<1>5. IsRecord(in) /\ in.name = q[1]
  BY DEF IsRecord, NamedStack, Good, RingIsTheStacks
<1> HIDE DEF in, less, oth, t
<1>6. /\ t.current = in /\ t.others = oth /\ t.order = q
      /\ t.epoch = s.epoch /\ t.cell = s.cell
  BY <1>4
<1>7. Good(N, t)
  <2>1. RingIsTheStacks(t)
    BY <1>2, <1>3, <1>5, <1>6 DEF Good, RingIsTheStacks, StackNames
  <2>2. \A m \in DOMAIN t.others : IsRecord(t.others[m])
    BY <1>3, <1>6 DEF Good
  <2>3. QED
    BY <1>2, <1>4, <1>5, <1>6, <2>1, <2>2 DEF Good
<1>8. DropNamed(s, n, fresh) = BumpEpoch(t)
  <2>1. t.order[1] # s.order[1]
    BY <1>2, <1>6 DEF Good, RingIsTheStacks
  <2>2. DropNamed(s, n, fresh) = BumpIfMoved(s, t)
    BY DEF DropNamed, t, q, kept
  <2>3. QED
    BY <2>1, <2>2 DEF BumpIfMoved
<1>9. QED
  BY <1>2, <1>5, <1>6, <1>7, <1>8, BumpKeeps DEF Moves, Reaches

(* The ring turned, with the bump its two words have.                      *)
LEMMA TurnKeeps ==
  ASSUME NEW N, NEW s, Good(N, s)
  PROVE  /\ Moves(N, s, RotateStacksLeft(s))
         /\ Moves(N, s, RotateStacksRight(s))
<1>1. ASSUME NEW q \in Seq(N), q # <<>>, ItemsOf(q) = ItemsOf(s.order), Distinct(q),
             Len(s.order) > 1 => q[1] # s.order[1]
      PROVE  Moves(N, s, TurnRing(s, q))
  <2>1. CASE Len(s.order) > 1
    <3> DEFINE t == Resettled(s, q)
    <3>1. Good(N, t) /\ t.current.name = q[1] /\ t.epoch = s.epoch
      BY <1>1, SettleKeeps
    <3>2. TurnRing(s, q) = BumpEpoch(t)
      BY <2>1 DEF TurnRing, Resettled
    <3>3. s.current.name = s.order[1]
      BY DEF Good, RingIsTheStacks
    <3> HIDE DEF t
    <3>4. QED
      BY <1>1, <2>1, <3>1, <3>2, <3>3, BumpKeeps DEF Moves, Reaches
  <2>2. CASE ~(Len(s.order) > 1)
    BY <2>2 DEF TurnRing, Moves, Reaches, Good
  <2>3. QED
    BY <2>1, <2>2
<1>2. s.order \in Seq(N) /\ s.order # <<>> /\ Distinct(s.order) /\ Len(s.order) \in Nat
  BY LenProperties DEF Good, RingIsTheStacks
<1>3. Moves(N, s, RotateStacksLeft(s))
  <2> DEFINE q == RotateLeft(s.order)
  <2>1. /\ q \in Seq(N) /\ Len(q) = Len(s.order)
        /\ ItemsOf(q) = ItemsOf(s.order) /\ Distinct(q)
    BY <1>2, RotateLeftKeeps
  <2>2. Len(s.order) > 1 => q[1] = s.order[2]
    BY <1>2 DEF RotateLeft
  <2> HIDE DEF q
  <2>3. q # <<>> /\ (Len(s.order) > 1 => q[1] # s.order[1])
    BY <1>2, <2>1, <2>2, EmptySeq DEF Distinct
  <2>4. QED
    BY <1>1, <2>1, <2>3 DEF RotateStacksLeft, q
<1>4. Moves(N, s, RotateStacksRight(s))
  <2> DEFINE q == RotateRight(s.order)
  <2>1. /\ q \in Seq(N) /\ Len(q) = Len(s.order)
        /\ ItemsOf(q) = ItemsOf(s.order) /\ Distinct(q)
    BY <1>2, RotateRightKeeps
  <2>2. q[1] = s.order[Len(s.order)]
    <3>1. q = <<s.order[Len(s.order)]>> \o SubSeq(s.order, 1, Len(s.order) - 1)
      BY <1>2 DEF RotateRight
    <3>2. SubSeq(s.order, 1, Len(s.order) - 1) \in Seq(N) /\ s.order[Len(s.order)] \in N
      BY <1>2, SubSeqIs, ElementOfSeq, EmptySeq
    <3>3. QED
      BY <3>1, <3>2, ConsKeeps
  <2> HIDE DEF q
  <2>3. q # <<>> /\ (Len(s.order) > 1 => q[1] # s.order[1])
    BY <1>2, <2>1, <2>2, EmptySeq DEF Distinct
  <2>4. QED
    BY <1>1, <2>1, <2>3 DEF RotateStacksRight, q
<1>5. QED
  BY <1>3, <1>4

(* A switch to a stack, created at the end of the ring if it is not there. *)
LEMMA ToStackKeeps ==
  ASSUME NEW N, NEW s, Good(N, s), NEW n \in N
  PROVE  /\ Moves(N, s, ToStack(s, n)) /\ Has(ToStack(s, n), n)
         /\ ToStack(s, n).current.name = n
         /\ StackNames(ToStack(s, n)) = StackNames(s) \cup {n}
<1>1. ItemsOf(s.order) = StackNames(s) /\ s.order \in Seq(N) /\ Distinct(s.order)
      /\ s.current.name = s.order[1]
  BY DEF Good, RingIsTheStacks
<1>2. CASE ~Has(s, n)
  <2>1. Create(s, n).order = s.order
    BY <1>2 DEF Create, Good
  <2>2. ToStack(s, n) = AddAsCurrent(Create(s, n), n)
    BY <1>1, <1>2, <2>1 DEF ToStack, Has
  <2>3. QED
    BY <1>2, <2>2, AddKeeps DEF Has
<1>3. CASE Has(s, n)
  <2> DEFINE q == TurnedTo(s.order, n)
             t == Resettled(s, q)
  <2>1. n \in ItemsOf(s.order)
    BY <1>1, <1>3 DEF Has
  <2>2. q \in Seq(N) /\ q # <<>> /\ ItemsOf(q) = ItemsOf(s.order) /\ Distinct(q) /\ q[1] = n
    BY <1>1, <2>1, TurnedToKeeps
  <2>3. /\ Good(N, t) /\ t.order = q /\ t.current.name = n /\ t.epoch = s.epoch
        /\ StackNames(t) = StackNames(s)
    BY <2>2, SettleKeeps
  <2>4. ToStack(s, n) = BumpIfMoved(s, t)
    BY <1>3, <2>1 DEF ToStack, Create, Resettled
  <2> HIDE DEF q, t
  <2>5. CASE n # s.order[1]
    <3>1. ToStack(s, n) = BumpEpoch(t)
      BY <2>2, <2>3, <2>4, <2>5 DEF BumpIfMoved
    <3>2. QED
      BY <1>1, <1>3, <2>3, <2>5, <3>1, BumpKeeps DEF Moves, Reaches, Has
  <2>6. CASE n = s.order[1]
    <3>1. ToStack(s, n) = t
      BY <2>2, <2>3, <2>4, <2>6 DEF BumpIfMoved
    <3>2. QED
      BY <1>1, <1>3, <2>3, <2>6, <3>1 DEF Moves, Reaches, Has, Good
  <2>7. QED
    BY <2>5, <2>6
<1>4. QED
  BY <1>2, <1>3
-----------------------------------------------------------------------------
(* What the words are made of.                                             *)

LEMMA EnsureKeeps ==
  ASSUME NEW N, NEW s, Good(N, s), NEW n \in N
  PROVE  Moves(N, s, EnsureStack(s, n)) /\ Has(EnsureStack(s, n), n)
<1>1. ItemsOf(s.order) = StackNames(s)
  BY DEF Good, RingIsTheStacks
<1>2. CASE ~Has(s, n)
  <2>1. Create(s, n).order = s.order
    BY <1>2 DEF Create, Good
  <2>2. EnsureStack(s, n) = AddAsCurrent(Create(s, n), n)
    BY <1>1, <1>2, <2>1 DEF EnsureStack, Has
  <2>3. QED
    BY <1>2, <2>2, AddKeeps DEF Has
<1>3. CASE Has(s, n)
  <2>1. EnsureStack(s, n) = s
    BY <1>1, <1>3 DEF EnsureStack, Create, Has
  <2>2. QED
    BY <1>3, <2>1 DEF Moves, Reaches, Good
<1>4. QED
  BY <1>2, <1>3

LEMMA GetIs ==
  ASSUME NEW N, NEW s, Good(N, s), NEW n, Has(s, n)
  PROVE  IsRecord(Get(s, n)) /\ Get(s, n).name = n
BY DEF Get, Has, StackNames, Good, RingIsTheStacks

LEMMA NewItems ==
  ASSUME NEW k, IsRecord(k), NEW q
  PROVE  IsRecord([k EXCEPT !.items = q]) /\ [k EXCEPT !.items = q].name = k.name
BY DEF IsRecord

LEMMA PushIs ==
  ASSUME NEW k, IsRecord(k), NEW v
  PROVE  IsRecord(Push(k, v)) /\ Push(k, v).name = k.name
BY NewItems DEF Push

LEMMA PushEachIs ==
  ASSUME NEW k, IsRecord(k), NEW q
  PROVE  IsRecord(PushEach(k, q)) /\ PushEach(k, q).name = k.name
<1>1. PICK items : PushEach(k, q) = [k EXCEPT !.items = items]
  BY Zenon DEF PushEach
<1>2. QED
  BY <1>1, NewItems

LEMMA FoldedIs ==
  ASSUME NEW k, IsRecord(k)
  PROVE  IsRecord(Folded(k)) /\ Folded(k).name = k.name
<1> DEFINE q == BeneathMarker(k.items)
           l == [k EXCEPT !.items = q]
<1>1. Folded(k) = Push(l, Datum)
  BY DEF Folded
<1> HIDE DEF q
<1>2. IsRecord(l) /\ l.name = k.name
  BY NewItems
<1> HIDE DEF l
<1>3. QED
  BY <1>1, <1>2, PushIs

LEMMA CurrentKeeps ==
  ASSUME NEW N, NEW s, Good(N, s)
  PROVE  /\ \A q : Still(N, s, OnCurrent(s, [s.current EXCEPT !.items = q]))
         /\ \A v : Still(N, s, PushCurrent(s, v))
         /\ \A q : Still(N, s, OnCurrent(s, PushEach(s.current, q)))
         /\ Still(N, s, PullCurrent(s))
         /\ Still(N, s, RotateItemsLeft(s))
         /\ Still(N, s, RotateItemsRight(s))
<1>1. IsRecord(s.current)
  BY DEF Good
<1>2. ASSUME NEW q PROVE Still(N, s, OnCurrent(s, [s.current EXCEPT !.items = q]))
  BY <1>1, NewItems, OnCurrentKeeps
<1>3. ASSUME NEW v PROVE Still(N, s, PushCurrent(s, v))
  BY <1>1, PushIs, OnCurrentKeeps DEF PushCurrent
<1>4. ASSUME NEW q PROVE Still(N, s, OnCurrent(s, PushEach(s.current, q)))
  BY <1>1, PushEachIs, OnCurrentKeeps
<1>5. QED
  BY <1>2, <1>3, <1>4 DEF PullCurrent, Pull, RotateItemsLeft, RotateItemsRight

LEMMA PullFromKeeps ==
  ASSUME NEW N, NEW s, Good(N, s), NEW n
  PROVE  Still(N, s, PullFrom(s, n)) /\ Still(N, s, ClearStack(s, n))
<1>1. CASE Has(s, n)
  <2> DEFINE k == Get(s, n)
  <2>1. IsRecord(k) /\ k.name = n
    BY <1>1, GetIs
  <2> HIDE DEF k
  <2>2. ASSUME NEW q PROVE Still(N, s, Put(s, n, [k EXCEPT !.items = q]))
    BY <2>1, NewItems, PutKeeps
  <2>3. QED
    BY <1>1, <2>2 DEF PullFrom, ClearStack, Pull, k
<1>2. CASE ~Has(s, n)
  BY <1>2 DEF PullFrom, ClearStack, Still
<1>3. QED
  BY <1>1, <1>2

LEMMA PushToKeeps ==
  ASSUME NEW N, NEW s, Good(N, s), NEW n \in N
  PROVE  /\ \A v : Moves(N, s, PushTo(s, n, v))
         /\ \A q : Moves(N, s, PushEachTo(s, n, q))
         /\ \A c : Moves(N, s, EnsureStackWithCapacity(s, n, c))
<1> DEFINE e == EnsureStack(s, n)
           k == Get(e, n)
<1>1. Moves(N, s, e) /\ Good(N, e) /\ Has(e, n) /\ IsRecord(k) /\ k.name = n
  BY EnsureKeeps, GetIs DEF Moves
<1> HIDE DEF e, k
<1>2. ASSUME NEW l, IsRecord(l), l.name = n PROVE Moves(N, s, Put(e, n, l))
  BY <1>1, <1>2, PutKeeps, MovesThenStill
<1>3. ASSUME NEW v PROVE Moves(N, s, PushTo(s, n, v))
  BY <1>1, <1>2, PushIs DEF PushTo, e, k
<1>4. ASSUME NEW q PROVE Moves(N, s, PushEachTo(s, n, q))
  <2>1. CASE q = <<>>
    BY <2>1 DEF PushEachTo, Moves, Reaches, Good
  <2>2. CASE q # <<>>
    BY <1>1, <1>2, <2>2, PushEachIs DEF PushEachTo, e, k
  <2>3. QED
    BY <2>1, <2>2
<1>5. ASSUME NEW c PROVE Moves(N, s, EnsureStackWithCapacity(s, n, c))
  <2>1. IsRecord([k EXCEPT !.cap = {c}]) /\ [k EXCEPT !.cap = {c}].name = n
    BY <1>1 DEF IsRecord
  <2>2. Moves(N, s, Put(e, n, [k EXCEPT !.cap = {c}]))
    BY <1>2, <2>1
  <2>3. QED
    BY <1>1, <2>2 DEF EnsureStackWithCapacity, e, k
<1>6. QED
  BY <1>3, <1>4, <1>5
-----------------------------------------------------------------------------
(* The words.                                                              *)

RingInv == Good(Strings, stacks) /\ contexts \in Seq(Strings)

S == Strings

LEMMA PoppedIs ==
  ASSUME RingInv
  PROVE  Still(S, stacks, Popped) /\ Still(S, stacks, PoppedTwo)
<1>1. Still(S, stacks, Popped)
  BY CurrentKeeps DEF RingInv, Popped, S
<1>2. Still(S, Popped, PoppedTwo)
  BY <1>1, CurrentKeeps DEF PoppedTwo, Still
<1>3. QED
  BY <1>1, <1>2, StillThenStill DEF RingInv, S

LEMMA TurnedIs ==
  ASSUME NEW s, Good(S, s), NEW c
  PROVE  Still(S, s, Turned(s, c)) /\ Still(S, s, TurnedBack(s, c))
BY CurrentKeeps DEF Turned, TurnedBack

LEMMA SwapAtIs ==
  ASSUME NEW s, Good(S, s), NEW c
  PROVE  Still(S, s, SwapAt(s, c))
<1> DEFINE top == Top(s.current)
           down == Turned(s, c)
           other == Top(down.current)
           one == PullCurrent(down)
           two == PushCurrent(one, top)
           back == TurnedBack(two, c)
           three == PullCurrent(back)
<1>1. SwapAt(s, c) = PushCurrent(three, other)
  BY DEF SwapAt
<1>2. Still(S, s, down)
  BY TurnedIs
<1> HIDE DEF top, other, down
<1>3. Still(S, s, one)
  BY <1>2, CurrentKeeps, StillThenStill DEF Still
<1> HIDE DEF one
<1>4. Still(S, s, two)
  BY <1>3, CurrentKeeps, StillThenStill DEF Still
<1> HIDE DEF two
<1>5. Still(S, s, back)
  BY <1>4, TurnedIs, StillThenStill DEF Still
<1> HIDE DEF back
<1>6. Still(S, s, three)
  BY <1>5, CurrentKeeps, StillThenStill DEF Still
<1> HIDE DEF three
<1>7. QED
  BY <1>1, <1>6, CurrentKeeps, StillThenStill DEF Still

(* What is left of a word once its operands are spent.                     *)
LEMMA Afterwards ==
  ASSUME RingInv, NEW p \in {stacks, Popped, PoppedTwo}, NEW t, Moves(S, p, t)
  PROVE  Moves(S, stacks, t)
BY PoppedIs, StillThenMoves DEF RingInv, S

LEMMA CurrentStackWords ==
  ASSUME RingInv, OnTheCurrentStack
  PROVE  /\ Moves(S, stacks, stacks') /\ Cross(stacks') /\ UNCHANGED contexts
         /\ stacks'.order = stacks.order
<1>1. /\ Still(S, stacks, Popped) /\ Still(S, stacks, PoppedTwo)
      /\ Good(S, stacks) /\ Good(S, Popped) /\ Good(S, PoppedTwo)
  BY PoppedIs DEF RingInv, Still, S
<1>2. ASSUME NEW p \in {stacks, Popped, PoppedTwo}, NEW t, Still(S, p, t), Leaves(t), Quiet
      PROVE  /\ Moves(S, stacks, stacks') /\ Cross(stacks') /\ UNCHANGED contexts
             /\ stacks'.order = stacks.order
  <2>1. Moves(S, p, t)
    BY <1>1, <1>2, StillIsMoves
  <2>2. QED
    BY <1>1, <1>2, <2>1, Afterwards DEF Leaves, Quiet, Still
<1>3. ASSUME NEW p \in {stacks, Popped, PoppedTwo}
      PROVE  Still(S, p, p)
  BY <1>1 DEF Still
<1>4. CASE Literal
  BY <1>1, <1>2, <1>4, CurrentKeeps DEF Literal
<1>5. CASE Refused \/ DropWord
  BY <1>2, <1>3, <1>5 DEF Refused, DropWord
<1>6. CASE DupOne
  BY <1>1, <1>2, <1>6, CurrentKeeps DEF DupOne
<1>7. CASE SwapOne
  <2>1. Still(S, PoppedTwo, PushCurrent(PoppedTwo, Items[Depth]))
    BY <1>1, CurrentKeeps
  <2>2. Still(S, PushCurrent(PoppedTwo, Items[Depth]),
              PushCurrent(PushCurrent(PoppedTwo, Items[Depth]), Items[Depth - 1]))
    BY <2>1, CurrentKeeps DEF Still
  <2>3. QED
    BY <1>1, <1>2, <1>7, <2>1, <2>2, StillThenStill DEF SwapOne
<1>8. CASE DupMany
  BY <1>1, <1>2, <1>8, CurrentKeeps DEF DupMany
<1>9. CASE SwapN
  BY <1>1, <1>2, <1>9, SwapAtIs DEF SwapN
<1>10. CASE Clear
  BY <1>1, <1>2, <1>10, PullFromKeeps DEF Clear
<1>11. CASE RotateCurrentLeft \/ RotateCurrentRight
  BY <1>1, <1>2, <1>11, CurrentKeeps DEF RotateCurrentLeft, RotateCurrentRight
<1>12. CASE CurrentWord
  BY <1>1, <1>2, <1>12, CurrentKeeps DEF CurrentWord
<1>13. CASE Fold
  <2>1. IsRecord(Folded(stacks.current)) /\ Folded(stacks.current).name = stacks.current.name
    BY <1>1, FoldedIs DEF Good
  <2>2. QED
    BY <1>1, <1>2, <1>13, <2>1, OnCurrentKeeps DEF Fold
<1>14. CASE StackExists
  BY <1>1, <1>2, <1>14, CurrentKeeps DEF StackExists
<1>15. QED
  BY <1>4, <1>5, <1>6, <1>7, <1>8, <1>9, <1>10, <1>11, <1>12, <1>13, <1>14
     DEF OnTheCurrentStack

LEMMA NamedStackWords ==
  ASSUME RingInv, OnANamedStack
  PROVE  Moves(S, stacks, stacks') /\ Cross(stacks') /\ UNCHANGED contexts
<1>1. /\ Still(S, stacks, Popped) /\ Still(S, stacks, PoppedTwo)
      /\ Good(S, stacks) /\ Good(S, Popped) /\ Good(S, PoppedTwo)
  BY PoppedIs DEF RingInv, Still, S
<1>2. ASSUME NEW p \in {stacks, Popped, PoppedTwo}, NEW t, Moves(S, p, t), Leaves(t),
             UNCHANGED contexts
      PROVE  Moves(S, stacks, stacks') /\ Cross(stacks') /\ UNCHANGED contexts
  BY <1>2, Afterwards DEF Leaves
<1>3. ASSUME NEW p \in {stacks, Popped, PoppedTwo}
      PROVE  /\ Good(S, p)
             /\ Moves(S, p, p)
             /\ \A n : Moves(S, p, PullFrom(p, n)) /\ Moves(S, p, ClearStack(p, n))
             /\ \A n \in S : \A v : Moves(S, p, PushTo(p, n, v))
             /\ \A m, n \in S : \A q : /\ Moves(S, p, PushEachTo(PullFrom(p, m), n, q))
                                  /\ Moves(S, p, PushEachTo(ClearStack(p, m), n, q))
  <2>1. Good(S, p)
    BY <1>1
  <2>2. Moves(S, p, p)
    BY <2>1 DEF Moves, Reaches, Good
  <2>3. \A n : Moves(S, p, PullFrom(p, n)) /\ Moves(S, p, ClearStack(p, n))
    BY <2>1, PullFromKeeps, StillIsMoves
  <2>4. \A n \in S : \A v : Moves(S, p, PushTo(p, n, v))
    BY <2>1, PushToKeeps
  <2>5. ASSUME NEW m \in S, NEW n \in S, NEW q
        PROVE  /\ Moves(S, p, PushEachTo(PullFrom(p, m), n, q))
               /\ Moves(S, p, PushEachTo(ClearStack(p, m), n, q))
    <3>1. ASSUME NEW t, Still(S, p, t) PROVE Moves(S, p, PushEachTo(t, n, q))
      <4>1. Good(S, t)
        BY <3>1 DEF Still
      <4>2. Moves(S, t, PushEachTo(t, n, q))
        BY <4>1, PushToKeeps
      <4>3. QED
        BY <2>1, <3>1, <4>2, StillThenMoves
    <3>2. QED
      BY <2>1, <3>1, PullFromKeeps
  <2>6. QED
    BY <2>1, <2>2, <2>3, <2>4, <2>5
<1>4. CASE DupOneIn
  BY <1>2, <1>3, <1>4 DEF DupOneIn, Quiet, S
<1>5. CASE DupManyIn
  BY <1>2, <1>3, <1>5 DEF DupManyIn, Quiet, S
<1>6. CASE DropIn \/ ClearIn
  BY <1>2, <1>3, <1>6 DEF DropIn, ClearIn, Quiet, S
<1>7. CASE Move
  <2> DEFINE q == Reverse(Popped.current.items)
  <2>1. PICK n \in S : Leaves(PushEachTo(ClearStack(Popped, Here), n, q)) /\ UNCHANGED contexts
    BY <1>7 DEF Move, Quiet, S
  <2> HIDE DEF q
  <2>2. Moves(S, Popped, PushEachTo(ClearStack(Popped, Here), n, q))
    <3>1. Here \in S
      BY <1>1, ElementOfSeq, LenProperties, EmptySeq DEF Good, RingIsTheStacks, Here, S
    <3>2. QED
      BY <1>3, <3>1
  <2>3. QED
    BY <1>2, <2>1, <2>2
<1>8. CASE MoveFrom
  BY <1>2, <1>3, <1>8 DEF MoveFrom, Quiet, S
<1>9. CASE FoldStack
  <2>1. PICK n \in S : Leaves(LET e == EnsureStack(Popped, n)
                              IN Put(e, n, Folded(Get(e, n)))) /\ UNCHANGED contexts
    BY <1>9 DEF FoldStack, Quiet, S
  <2> DEFINE e == EnsureStack(Popped, n)
             k == Get(e, n)
  <2>2. Moves(S, Popped, e) /\ Good(S, e) /\ IsRecord(k) /\ k.name = n
    BY <1>1, EnsureKeeps, GetIs DEF Moves
  <2>3. Leaves(Put(e, n, Folded(k)))
    BY <2>1
  <2> HIDE DEF e, k
  <2>4. Still(S, e, Put(e, n, Folded(k)))
    BY <2>2, FoldedIs, PutKeeps
  <2>5. Moves(S, Popped, Put(e, n, Folded(k)))
    BY <1>1, <2>2, <2>4, MovesThenStill
  <2>6. QED
    BY <1>2, <2>1, <2>3, <2>5
<1>10. CASE Take
  BY <1>1, <1>2, <1>10, CurrentKeeps, StillIsMoves DEF Take, Unbenched
<1>11. CASE Return
  BY <1>2, <1>3, <1>11 DEF Return, Benched
<1>12. CASE ReturnTo
  BY <1>2, <1>3, <1>12 DEF ReturnTo, Unbenched, S
<1>13. CASE ReturnFrom
  BY <1>2, <1>3, <1>13 DEF ReturnFrom, Benched, Quiet, S
<1>14. QED
  BY <1>4, <1>5, <1>6, <1>7, <1>8, <1>9, <1>10, <1>11, <1>12, <1>13 DEF OnANamedStack

LEMMA RingWords ==
  ASSUME RingInv, OnTheRing
  PROVE  Moves(S, stacks, stacks') /\ Cross(stacks') /\ contexts' \in Seq(S)
<1>1. /\ Good(S, stacks) /\ Good(S, Popped) /\ Good(S, PoppedTwo)
      /\ Here \in S /\ contexts \in Seq(S)
  <2>1. Here \in S
    BY ElementOfSeq, LenProperties, EmptySeq DEF RingInv, Good, RingIsTheStacks, Here, S
  <2>2. QED
    BY <2>1, PoppedIs DEF RingInv, Still, S
<1>2. ASSUME NEW p \in {stacks, Popped, PoppedTwo}, NEW t, Moves(S, p, t), Leaves(t)
      PROVE  Moves(S, stacks, stacks') /\ Cross(stacks')
  BY <1>2, Afterwards DEF Leaves
<1>3. CASE ToCurrent
  <2>1. Moves(S, Popped, Popped)
    BY <1>1 DEF Moves, Reaches, Good
  <2>2. QED
    BY <1>1, <1>2, <1>3, <2>1, ToStackKeeps DEF ToCurrent, Quiet, S
<1>4. CASE ToStackWord \/ EnsureStackWord
  BY <1>1, <1>2, <1>4, ToStackKeeps, EnsureKeeps DEF ToStackWord, EnsureStackWord, Quiet, S
<1>5. CASE EnsureWithCapacity
  BY <1>1, <1>2, <1>5, PushToKeeps DEF EnsureWithCapacity, Quiet, S
<1>6. CASE DropStack
  <2>1. PICK fresh \in Fresh : Leaves(DropNamed(stacks, Here, fresh)) /\ Quiet
    BY <1>6 DEF DropStack
  <2>2. fresh \in S /\ (fresh \notin StackNames(stacks) \/ Len(stacks.order) > 1)
    BY NamesAreStrings DEF Fresh, S
  <2>3. Moves(S, stacks, DropNamed(stacks, Here, fresh))
    BY <1>1, <2>2, DropKeeps DEF Here
  <2>4. QED
    BY <1>1, <1>2, <2>1, <2>3 DEF Quiet
<1>7. CASE StacksLeft \/ StacksRight
  BY <1>1, <1>2, <1>7, TurnKeeps DEF StacksLeft, StacksRight, Quiet
<1>8. CASE Context
  <2>1. contexts' \in Seq(S)
    BY <1>1, <1>8 DEF Context
  <2>2. QED
    BY <1>1, <1>2, <1>8, <2>1, ToStackKeeps DEF Context, S
<1>9. QED
  BY <1>3, <1>4, <1>5, <1>6, <1>7, <1>8 DEF OnTheRing

(* Words that change the current stack more than once only reach.          *)
LEMMA VisitingWords ==
  ASSUME RingInv, Visiting \/ EndContext
  PROVE  /\ Good(S, stacks') /\ Reaches(stacks, stacks')
         /\ Cross(stacks') /\ contexts' \in Seq(S)
<1>1. /\ Still(S, stacks, Popped) /\ Still(S, stacks, PoppedTwo)
      /\ Good(S, stacks) /\ Good(S, Popped) /\ Good(S, PoppedTwo)
      /\ Here \in S /\ contexts \in Seq(S)
  <2>1. Here \in S
    BY ElementOfSeq, LenProperties, EmptySeq DEF RingInv, Good, RingIsTheStacks, Here, S
  <2>2. QED
    BY <2>1, PoppedIs DEF RingInv, Still, S
<1>2. ASSUME NEW p \in {stacks, Popped, PoppedTwo}, NEW t, Moves(S, p, t)
      PROVE  Good(S, t) /\ Reaches(stacks, t)
  BY <1>2, Afterwards DEF Moves
<1>3. ASSUME NEW p \in {stacks, Popped, PoppedTwo}, NEW t, Moves(S, p, t),
             NEW n \in S, Leaves(ToStack(t, n))
      PROVE  Good(S, stacks') /\ Reaches(stacks, stacks') /\ Cross(stacks')
  <2>1. Good(S, t) /\ Reaches(stacks, t)
    BY <1>2, <1>3
  <2>2. Good(S, ToStack(t, n)) /\ Reaches(t, ToStack(t, n))
    BY <1>3, <2>1, ToStackKeeps DEF Moves
  <2>3. Reaches(stacks, ToStack(t, n))
    BY <1>1, <2>1, <2>2, ReachesTransitive
  <2>4. QED
    BY <1>3, <2>2, <2>3 DEF Leaves
<1>4. ASSUME NEW p \in {Popped, PoppedTwo}, NEW n \in S
      PROVE  /\ \A c : Moves(S, p, SwapAt(ToStack(p, n), c))
             /\ Moves(S, p, RotateItemsLeft(ToStack(p, n)))
             /\ Moves(S, p, RotateItemsRight(ToStack(p, n)))
  <2> DEFINE t == ToStack(p, n)
  <2>1. Good(S, p) /\ Good(S, t) /\ Moves(S, p, t)
    <3>1. Good(S, p)
      BY <1>1
    <3>2. Moves(S, p, t)
      BY <3>1, ToStackKeeps
    <3>3. QED
      BY <3>1, <3>2 DEF Moves
  <2> HIDE DEF t
  <2>2. /\ \A c : Still(S, t, SwapAt(t, c))
        /\ Still(S, t, RotateItemsLeft(t)) /\ Still(S, t, RotateItemsRight(t))
    BY <2>1, SwapAtIs, CurrentKeeps
  <2>3. /\ \A c : Moves(S, p, SwapAt(t, c))
        /\ Moves(S, p, RotateItemsLeft(t)) /\ Moves(S, p, RotateItemsRight(t))
    BY <2>1, <2>2, MovesThenStill
  <2>4. QED
    BY <2>3 DEF t
<1>5. CASE SwapIn
  <2>1. PICK n \in S, c \in Counts :
          /\ Leaves(IF DepthOf(PoppedTwo, n) < 2 THEN PoppedTwo
                    ELSE ToStack(SwapAt(ToStack(PoppedTwo, n), c), Here))
          /\ Quiet
    BY <1>5 DEF SwapIn, S
  <2>2. CASE DepthOf(PoppedTwo, n) < 2
    BY <1>1, <2>1, <2>2, StillIsMoves DEF Moves, Leaves, Quiet
  <2>3. CASE ~(DepthOf(PoppedTwo, n) < 2)
    BY <1>1, <1>3, <1>4, <2>1, <2>3 DEF Quiet
  <2>4. QED
    BY <2>2, <2>3
<1>6. CASE RotateStackLeft \/ RotateStackRight
  BY <1>1, <1>3, <1>4, <1>6 DEF RotateStackLeft, RotateStackRight, Quiet, S
<1>7. CASE EndContext
  <2> DEFINE p == IF Depth > 0 THEN Popped ELSE stacks
             back == contexts[Len(contexts)]
  <2>1. PICK fresh \in Fresh : Leaves(ToStack(DropNamed(p, Here, fresh), back))
    BY <1>7 DEF EndContext
  <2>2. Still(S, stacks, p) /\ p \in {stacks, Popped, PoppedTwo}
    BY <1>1 DEF Still
  <2> HIDE DEF p
  <2>3. fresh \in S /\ (fresh \notin StackNames(p) \/ Len(p.order) > 1)
    BY <2>2, NamesAreStrings DEF Fresh, Still, S
  <2>4. Moves(S, p, DropNamed(p, Here, fresh))
    BY <2>2, <2>3, DropKeeps DEF Still, Here
  <2>5. back \in S /\ contexts' \in Seq(S)
    <3>1. contexts # <<>> /\ Len(contexts) \in Nat \ {0}
      BY <1>1, <1>7, LenProperties, EmptySeq DEF EndContext
    <3>2. contexts' = SubSeq(contexts, 1, Len(contexts) - 1)
      BY <1>7, <3>1 DEF EndContext, PopBack
    <3>3. QED
      BY <1>1, <3>1, <3>2, ElementOfSeq, SubSeqIs
  <2> HIDE DEF back
  <2>6. QED
    BY <1>3, <2>1, <2>2, <2>4, <2>5
<1>8. QED
  BY <1>5, <1>6, <1>7 DEF Visiting
-----------------------------------------------------------------------------
(* The theorems.                                                           *)

CrossInv ==
  /\ crossing \in [on : BOOLEAN, epoch : Nat, moved : BOOLEAN]
  /\ crossing.on => crossing.epoch <= stacks.cell
  /\ SteadyEpoch

IInv == RingInv /\ CrossInv

LEMMA InitHolds ==
  ASSUME Init
  PROVE  IInv
<1>1. /\ NewStacks.current = NamedStack(Main) /\ DOMAIN NewStacks.others = {}
      /\ NewStacks.order = <<Main>> /\ NewStacks.epoch = 0 /\ NewStacks.cell = 0
      /\ NewStacks = [current |-> NewStacks.current, others |-> NewStacks.others,
                      order |-> NewStacks.order, epoch |-> NewStacks.epoch,
                      cell |-> NewStacks.cell]
  BY DEF NewStacks
<1>2. IsRecord(NamedStack(Main)) /\ NamedStack(Main).name = Main
  BY DEF IsRecord, NamedStack
<1>3. ItemsOf(<<Main>>) = {Main} /\ Distinct(<<Main>>) /\ <<Main>> \in Seq(S)
  BY NamesAreStrings DEF ItemsOf, Distinct, S
<1>4. Good(S, NewStacks)
  BY <1>1, <1>2, <1>3, MaxEpochIsNat DEF Good, RingIsTheStacks, StackNames
<1>5. QED
  BY <1>1, <1>4 DEF Init, IInv, RingInv, CrossInv, SteadyEpoch, S

(* Whatever leaves a multi-stack that is good and reached keeps both.      *)
LEMMA LeavesHolds ==
  ASSUME IInv, Good(S, stacks'), Reaches(stacks, stacks'), Cross(stacks'), contexts' \in Seq(S)
  PROVE  IInv'
<1>1. /\ stacks.epoch = stacks.cell /\ stacks'.epoch = stacks'.cell
      /\ stacks.cell \in Nat /\ stacks'.cell \in Nat /\ stacks'.cell >= stacks.cell
      /\ stacks'.current.name # stacks.current.name
           => stacks'.cell > stacks.cell \/ stacks'.cell = MaxEpoch
  BY DEF IInv, RingInv, Good, Reaches, S
<1>2. /\ crossing' \in [on : BOOLEAN, epoch : Nat, moved : BOOLEAN]
      /\ crossing'.on = crossing.on /\ crossing'.epoch = crossing.epoch
      /\ crossing'.moved = (crossing.moved \/ (crossing.on /\ stacks'.current.name # Here))
  BY DEF Cross, IInv, CrossInv
<1>3. CrossInv'
  <2>1. crossing'.on => crossing'.epoch <= stacks'.cell
    BY <1>1, <1>2 DEF IInv, CrossInv
  <2>2. SteadyEpoch'
    BY <1>1, <1>2 DEF IInv, CrossInv, SteadyEpoch, Here
  <2>3. QED
    BY <1>2, <2>1, <2>2 DEF CrossInv
<1>4. QED
  BY <1>3 DEF IInv, RingInv, S

LEMMA StepHolds ==
  ASSUME IInv, [Next]_vars
  PROVE  IInv'
<1>1. ASSUME Good(S, stacks'), Reaches(stacks, stacks'), Cross(stacks'), contexts' \in Seq(S)
      PROVE  IInv'
  BY <1>1, LeavesHolds
<1>2. CASE OnTheCurrentStack \/ OnANamedStack \/ OnTheRing
  BY <1>1, <1>2, CurrentStackWords, NamedStackWords, RingWords DEF IInv, RingInv, Moves, S
<1>3. CASE Visiting \/ EndContext
  BY <1>1, <1>3, VisitingWords DEF IInv
<1>4. CASE CrossBegin
  BY <1>4 DEF CrossBegin, IInv, RingInv, Good, CrossInv, SteadyEpoch
<1>5. CASE CrossEnd
  BY <1>5 DEF CrossEnd, IInv, RingInv, Good, CrossInv, SteadyEpoch
<1>6. CASE UNCHANGED vars
  BY <1>6 DEF vars, IInv, RingInv, Good, CrossInv, SteadyEpoch
<1>7. QED
  BY <1>2, <1>3, <1>4, <1>5, <1>6 DEF Next

(* Both parts hold in every state, for every set of names and values.      *)
THEOREM Inductive == Spec => []IInv
BY InitHolds, StepHolds, PTL DEF Spec

(* A stack is in exactly one place and the ring lists each once, the       *)
(* current one in front (settle and its callers in stacks.rs).             *)
THEOREM RingIsTheStacksAlways == Spec => []OneRing
<1>1. IInv => OneRing
  BY DEF IInv, RingInv, Good, OneRing
<1>2. QED
  BY <1>1, Inductive, PTL

(* An epoch that compiled code finds unchanged after a call means that no  *)
(* other stack has been current during it (the compare of lower.rs).       *)
THEOREM EpochGuardSound == Spec => []SteadyEpoch
<1>1. IInv => SteadyEpoch
  BY DEF IInv, CrossInv
<1>2. QED
  BY <1>1, Inductive, PTL

(* The bump is exact: the epoch moves only when another stack becomes      *)
(* current (stacks.rs, bump_epoch and its callers).                        *)
THEOREM EpochExact ==
  Spec => [][~(Visiting \/ EndContext) /\ stacks'.epoch # stacks.epoch
               => stacks'.current.name # Here]_vars
<1>1. IInv /\ [Next]_vars
        => [~(Visiting \/ EndContext) /\ stacks'.epoch # stacks.epoch
              => stacks'.current.name # Here]_vars
  <2>1. SUFFICES ASSUME IInv, Next, ~(Visiting \/ EndContext), stacks'.epoch # stacks.epoch
                 PROVE  stacks'.current.name # Here
    BY DEF vars
  <2>2. OnTheCurrentStack \/ OnANamedStack \/ OnTheRing
    BY <2>1 DEF Next, CrossBegin, CrossEnd
  <2>3. Moves(S, stacks, stacks')
    BY <2>1, <2>2, CurrentStackWords, NamedStackWords, RingWords DEF IInv
  <2>4. QED
    BY <2>1, <2>3 DEF Moves, Here
<1>2. QED
  BY <1>1, Inductive, PTL DEF Spec

-----------------------------------------------------------------------------
(* Bridges.                                                                *)

(* The bridges that run are on the stacks of the pool, from the first on.  *)
PoolRight ==
  /\ pool \in Seq(FreshNames) /\ active \in Seq([name : S, prev : S])
  /\ Len(active) <= Len(pool)
  /\ Distinct(pool)
  /\ \A i \in 1 .. Len(active) :
       active[i].name = pool[i] /\ active[i].prev # pool[i]

BIInv == IInv /\ PoolRight /\ OnlyTheProgramsStacks

LEMMA SeqSet ==
  ASSUME NEW N, NEW q \in Seq(N), NEW n
  PROVE  n \in ToSet(q) <=> \E i \in 1 .. Len(q) : q[i] = n
<1>1. DOMAIN q = 1 .. Len(q)
  OBVIOUS
<1>2. QED
  BY <1>1 DEF ToSet

-----------------------------------------------------------------------------
(* A drop of a stack that is not current.                                  *)

LEMMA DropOtherKeeps ==
  ASSUME NEW N, NEW s, Good(N, s), NEW n, n # s.current.name, NEW fresh
  PROVE  LET t == DropNamed(s, n, fresh)
         IN /\ Moves(N, s, t)
            /\ t.current.name = s.current.name
            /\ StackNames(t) = StackNames(s) \ {n}
<1> DEFINE kept == Retain(s.order, n)
           oth == Delete(s.others, n)
           t == [current |-> s.current, others |-> oth, order |-> kept,
                 epoch |-> s.epoch, cell |-> s.cell]
<1>1. /\ s.order \in Seq(N) /\ s.order # <<>> /\ Distinct(s.order)
      /\ s.order[1] = s.current.name /\ ItemsOf(s.order) = StackNames(s)
  BY DEF Good, RingIsTheStacks
<1>2. /\ kept \in Seq(N) /\ ItemsOf(kept) = StackNames(s) \ {n} /\ Distinct(kept)
      /\ kept # <<>> /\ kept[1] = s.current.name
  BY <1>1, RetainKeeps
<1>3. /\ DOMAIN oth = DOMAIN s.others \ {n}
      /\ \A m \in DOMAIN oth : oth[m] = s.others[m]
  BY DEF Delete
<1> HIDE DEF kept, oth
<1> DEFINE gone == [s EXCEPT !.others = oth, !.order = kept]
<1>4. gone = t
  <2>1. s = [current |-> s.current, others |-> s.others, order |-> s.order,
             epoch |-> s.epoch, cell |-> s.cell]
    BY DEF Good
  <2>2. gone = [s EXCEPT !.others = oth, !.order = kept]
    OBVIOUS
  <2> HIDE DEF gone
  <2>3. QED
    BY <2>1, <2>2
<1>5. Good(N, t) /\ StackNames(t) = StackNames(s) \ {n}
  <2>1. StackNames(t) = StackNames(s) \ {n}
    BY <1>3 DEF StackNames
  <2>2. RingIsTheStacks(t)
    BY <1>2, <1>3, <2>1 DEF RingIsTheStacks, Good
  <2>3. QED
    BY <1>2, <1>3, <2>1, <2>2 DEF Good
<1>6. DropNamed(s, n, fresh) = t
  <2>1. [s EXCEPT !.others = Delete(@, n),
                  !.order = IF Retain(s.order, n) = <<>> THEN <<fresh>> ELSE Retain(s.order, n)]
          = t
    BY <1>2, <1>4 DEF kept, oth, gone
  <2>2. Settle(t, s.current.name # n) = t
    BY <1>2 DEF Settle
  <2>3. BumpIfMoved(s, t) = t
    BY <1>1, <1>2 DEF BumpIfMoved
  <2>4. QED
    BY <2>1, <2>2, <2>3 DEF DropNamed
<1> HIDE DEF t
<1>7. t.current = s.current /\ t.epoch = s.epoch /\ s.epoch \in Nat
  BY DEF t, Good
<1>8. QED
  BY <1>5, <1>6, <1>7 DEF Moves, Reaches

(* The way back of a bridge whose scratch stack is not its caller's.       *)
LEMMA ReturnedKeeps ==
  ASSUME NEW s, Good(S, s), NEW a, a.name \in S, a.prev \in S, a.name # a.prev, NEW fresh
  PROVE  LET t == Returned(s, a, fresh)
         IN /\ Good(S, t) /\ Reaches(s, t)
            /\ t.current.name = a.prev
            /\ StackNames(t) = (StackNames(s) \cup {a.prev}) \ {a.name}
<1> DEFINE back == ToStack(s, a.prev)
           read == PullFrom(back, a.name)
           t == DropNamed(read, a.name, fresh)
<1>1. /\ Moves(S, s, back) /\ back.current.name = a.prev
      /\ StackNames(back) = StackNames(s) \cup {a.prev}
  BY ToStackKeeps
<1> HIDE DEF back
<1>2. Good(S, back) /\ Reaches(s, back)
  BY <1>1 DEF Moves
<1>3. Still(S, back, read)
  BY <1>2, PullFromKeeps
<1> HIDE DEF read
<1>4. /\ Good(S, read) /\ read.current.name = a.prev
      /\ StackNames(read) = StackNames(s) \cup {a.prev}
  BY <1>1, <1>3 DEF Still
<1>5. /\ Moves(S, read, t) /\ t.current.name = a.prev
      /\ StackNames(t) = (StackNames(s) \cup {a.prev}) \ {a.name}
  <2>1. a.name # read.current.name
    BY <1>4
  <2>2. Good(S, read)
    BY <1>4
  <2>3. /\ Moves(S, read, DropNamed(read, a.name, fresh))
        /\ DropNamed(read, a.name, fresh).current.name = read.current.name
        /\ StackNames(DropNamed(read, a.name, fresh)) = StackNames(read) \ {a.name}
    <3> DEFINE m == a.name
    <3>1. m # read.current.name
      BY <2>1
    <3> HIDE DEF m
    <3>2. /\ Moves(S, read, DropNamed(read, m, fresh))
          /\ DropNamed(read, m, fresh).current.name = read.current.name
          /\ StackNames(DropNamed(read, m, fresh)) = StackNames(read) \ {m}
      BY <2>2, <3>1, DropOtherKeeps
    <3>3. QED
      BY <3>2 DEF m
  <2> HIDE DEF t
  <2>4. QED
    BY <1>4, <2>3 DEF t
<1>6. Returned(s, a, fresh) = t
  BY <1>4 DEF Returned, back, read
<1> HIDE DEF t
<1>7. Reaches(back, t) /\ Good(S, t)
  BY <1>2, <1>3, <1>5 DEF Still, Moves, Reaches
<1>8. Reaches(s, t)
  BY <1>2, <1>7, ReachesTransitive
<1>9. QED
  BY <1>5, <1>6, <1>7, <1>8

-----------------------------------------------------------------------------
(* The pool.                                                               *)

(* A name for depth d that no stack goes by, and the pool stays one name   *)
(* to a depth.                                                             *)
LEMMA ScratchIsNew ==
  ASSUME PoolRight, NEW d, d = Len(active) + 1, NEW p \in ScratchPool(d)
  PROVE  /\ p \in Seq(FreshNames) /\ Distinct(p) /\ d <= Len(p)
         /\ p[d] \notin StackNames(stacks) /\ p[d] \in S
         /\ \A i \in 1 .. Len(active) : p[i] = pool[i]
<1>1. Len(active) \in Nat /\ Len(pool) \in Nat /\ Len(active) <= Len(pool)
  BY LenProperties DEF PoolRight
<1>2. d \in Nat /\ 1 <= d /\ d <= Len(pool) + 1
  BY <1>1
<1>3. FreshNames \subseteq S
  BY NamesAreStrings DEF S
<1>4. ASSUME NEW f \in Unused
      PROVE  f \in FreshNames /\ f \notin StackNames(stacks) /\ \A i \in 1 .. Len(pool) : pool[i] # f
  <2>1. f \notin ToSet(pool)
    BY <1>4 DEF Unused
  <2>2. QED
    BY <1>4, <2>1, SeqSet DEF Unused, PoolRight
<1>5. CASE d > Len(pool)
  <2>1. PICK f \in Unused : p = Append(pool, f)
    BY <1>5 DEF ScratchPool
  <2>2. d = Len(pool) + 1
    BY <1>2, <1>5, <1>1
  <2>3. /\ p \in Seq(FreshNames) /\ Len(p) = d /\ p[d] = f
        /\ \A i \in 1 .. Len(pool) : p[i] = pool[i]
    BY <1>4, <2>1, <2>2 DEF PoolRight
  <2>4. Distinct(p)
    BY <1>1, <1>4, <2>2, <2>3 DEF Distinct, PoolRight
  <2>5. QED
    BY <1>1, <1>2, <1>3, <1>4, <2>3, <2>4
<1>6. CASE ~(d > Len(pool))
  <2>1. d \in 1 .. Len(pool) /\ pool[d] \in FreshNames
    BY <1>1, <1>2, <1>6 DEF PoolRight
  <2>2. CASE ~Has(stacks, pool[d])
    <3>1. p = pool
      BY <1>6, <2>2 DEF ScratchPool
    <3>2. QED
      BY <1>3, <2>1, <2>2, <3>1 DEF Has, PoolRight
  <2>3. CASE Has(stacks, pool[d])
    <3>1. PICK f \in Unused : p = [pool EXCEPT ![d] = f]
      BY <1>6, <2>3 DEF ScratchPool
    <3>2. /\ p \in Seq(FreshNames) /\ Len(p) = Len(pool) /\ p[d] = f
          /\ \A i \in 1 .. Len(pool) : i # d => p[i] = pool[i]
      BY <1>4, <2>1, <3>1, ExceptSeq DEF PoolRight
    <3>3. Distinct(p)
      BY <1>1, <1>4, <2>1, <3>2 DEF Distinct, PoolRight
    <3>4. QED
      BY <1>1, <1>2, <1>3, <1>4, <2>1, <3>2, <3>3
  <2>4. QED
    BY <2>2, <2>3
<1>7. QED
  BY <1>5, <1>6

(* The names of the bridges that run, from the pool.                       *)
LEMMA NamesOf ==
  ASSUME NEW N, NEW q \in Seq(N), NEW p, \A i \in 1 .. Len(q) : q[i].name = p[i]
  PROVE  {q[i].name : i \in DOMAIN q} = {p[i] : i \in 1 .. Len(q)}
<1>1. DOMAIN q = 1 .. Len(q)
  OBVIOUS
<1>2. QED
  BY <1>1

-----------------------------------------------------------------------------
(* The invariant.                                                          *)

LEMMA BridgeInitHolds == BridgeInit => BIInv
<1> SUFFICES ASSUME BridgeInit PROVE BIInv
  OBVIOUS
<1>1. IInv
  BY InitHolds DEF BridgeInit
<1>2. PoolRight
  BY DEF BridgeInit, PoolRight, Distinct
<1>3. Scratch = {} /\ StackNames(stacks) = {Main}
  BY DEF BridgeInit, Init, NewStacks, StackNames, NamedStack, Scratch
<1>4. QED
  BY <1>1, <1>2, <1>3 DEF BIInv, OnlyTheProgramsStacks, BridgeInit

LEMMA ProgramHolds ==
  ASSUME BIInv, ProgramWord
  PROVE  BIInv'
<1>1. IInv'
  BY StepHolds DEF ProgramWord, BIInv
<1>2. PoolRight' /\ Scratch' = Scratch
  BY DEF ProgramWord, PoolRight, BIInv, Scratch
<1>3. OnlyTheProgramsStacks'
  BY <1>2 DEF ProgramWord, OnlyTheProgramsStacks, BIInv
<1>4. QED
  BY <1>1, <1>2, <1>3 DEF BIInv

LEMMA BeginHolds ==
  ASSUME BIInv, BridgeBegins
  PROVE  BIInv'
<1> DEFINE d == Len(active) + 1
           a == [name |-> pool'[d], prev |-> Here]
<1>1. /\ pool' \in ScratchPool(d) /\ active' = Append(active, a)
      /\ Leaves(ToStack(stacks, pool'[d])) /\ Quiet /\ made' = made
  BY DEF BridgeBegins
<1>2. /\ pool' \in Seq(FreshNames) /\ Distinct(pool') /\ d <= Len(pool')
      /\ pool'[d] \notin StackNames(stacks) /\ pool'[d] \in S
      /\ \A i \in 1 .. Len(active) : pool'[i] = pool[i]
  BY <1>1, ScratchIsNew DEF BIInv
<1>3. Good(S, stacks) /\ contexts \in Seq(S) /\ Here \in StackNames(stacks) /\ Here \in S
  <2>1. Good(S, stacks) /\ contexts \in Seq(S)
    BY DEF BIInv, IInv, RingInv, S
  <2>2. stacks.order \in Seq(S) /\ stacks.order # <<>> /\ Here = stacks.order[1]
    BY <2>1 DEF Good, RingIsTheStacks, Here
  <2>3. QED
    BY <2>1, <2>2 DEF StackNames, Here
<1>4. /\ stacks' = ToStack(stacks, pool'[d]) /\ Cross(stacks')
      /\ Moves(S, stacks, ToStack(stacks, pool'[d]))
      /\ StackNames(stacks') = StackNames(stacks) \cup {pool'[d]}
  BY <1>1, <1>2, <1>3, ToStackKeeps DEF Leaves
<1>5. IInv'
  BY <1>1, <1>3, <1>4, LeavesHolds DEF BIInv, Moves, Quiet
<1>6. PoolRight'
  <2>1. active \in Seq([name : S, prev : S]) /\ Len(active) \in Nat
    BY LenProperties DEF BIInv, PoolRight
  <2>2. a \in [name : S, prev : S] /\ a.name = pool'[d] /\ a.prev # pool'[d]
    BY <1>2, <1>3
  <2> HIDE DEF a
  <2>3. active' \in Seq([name : S, prev : S]) /\ Len(active') = d
    BY <1>1, <2>1, <2>2
  <2>4. \A i \in 1 .. d : active'[i] = IF i = d THEN a ELSE active[i]
    BY <1>1, <2>1, <2>2
  <2>5. \A i \in 1 .. d : active'[i].name = pool'[i] /\ active'[i].prev # pool'[i]
    BY <1>2, <2>1, <2>2, <2>4 DEF BIInv, PoolRight
  <2>6. QED
    BY <1>2, <2>3, <2>5 DEF PoolRight
<1>7. Scratch' = Scratch \cup {pool'[d]}
  <2>1. Scratch = {pool[i] : i \in 1 .. Len(active)} /\ Len(active) \in Nat
    BY NamesOf, LenProperties DEF BIInv, PoolRight, Scratch
  <2>2. Scratch' = {pool'[i] : i \in 1 .. Len(active')}
    BY <1>6, NamesOf DEF PoolRight, Scratch
  <2>3. Len(active') = d
    BY <1>1 DEF BIInv, PoolRight
  <2>4. QED
    BY <1>2, <2>1, <2>2, <2>3
<1>8. OnlyTheProgramsStacks'
  BY <1>1, <1>4, <1>7 DEF OnlyTheProgramsStacks, BIInv
<1>9. QED
  BY <1>5, <1>6, <1>8 DEF BIInv

LEMMA RefusedHolds ==
  ASSUME BIInv, BridgeRefused
  PROVE  BIInv'
<1>1. IInv'
  BY StepHolds DEF BridgeRefused, BIInv, vars
<1>2. /\ pool' \in Seq(FreshNames) /\ Distinct(pool') /\ Len(active) + 1 <= Len(pool')
      /\ \A i \in 1 .. Len(active) : pool'[i] = pool[i]
  BY ScratchIsNew DEF BridgeRefused, BIInv
<1>3. PoolRight' /\ Scratch' = Scratch
  <2>1. Len(active) \in Nat /\ Len(pool') \in Nat
    BY <1>2, LenProperties DEF BIInv, PoolRight
  <2>2. active' = active
    BY DEF BridgeRefused
  <2>3. QED
    BY <1>2, <2>1, <2>2 DEF BIInv, PoolRight, Scratch
<1>4. QED
  BY <1>1, <1>3 DEF BridgeRefused, BIInv, OnlyTheProgramsStacks

(* The end of a bridge: what it leaves, and that it is the caller's stack. *)
LEMMA EndIs ==
  ASSUME BIInv, BridgeEnds
  PROVE  LET a == active[Len(active)]
         IN /\ Good(S, stacks') /\ Reaches(stacks, stacks') /\ Cross(stacks')
            /\ stacks'.current.name = a.prev
            /\ StackNames(stacks') = (StackNames(stacks) \cup {a.prev}) \ {a.name}
            /\ active' = SubSeq(active, 1, Len(active) - 1)
            /\ Len(active) \in Nat \ {0}
<1> DEFINE a == active[Len(active)]
<1>1. active \in Seq([name : S, prev : S]) /\ active # <<>>
  BY DEF BridgeEnds, BIInv, PoolRight
<1>2. Len(active) \in Nat \ {0}
  BY <1>1, LenProperties, EmptySeq
<1>3. a \in [name : S, prev : S] /\ a.name # a.prev
  <2>1. Len(active) \in 1 .. Len(active)
    BY <1>2
  <2>2. a \in [name : S, prev : S]
    BY <1>1, <2>1, ElementOfSeq
  <2>3. a.name = pool[Len(active)] /\ a.prev # pool[Len(active)]
    BY <2>1 DEF BIInv, PoolRight
  <2>4. QED
    BY <2>2, <2>3
<1>4. PICK fresh \in Fresh : Leaves(Returned(stacks, a, fresh))
  BY DEF BridgeEnds
<1>5. Good(S, stacks)
  BY DEF BIInv, IInv, RingInv, S
<1>6. stacks' = Returned(stacks, a, fresh) /\ Cross(stacks')
  BY <1>4 DEF Leaves
<1>7. active' = SubSeq(active, 1, Len(active) - 1)
  BY <1>1 DEF BridgeEnds, PopBack
<1>8. a.name \in S /\ a.prev \in S
  BY <1>3
<1> HIDE DEF a
<1>9. /\ Good(S, stacks') /\ Reaches(stacks, stacks') /\ stacks'.current.name = a.prev
      /\ StackNames(stacks') = (StackNames(stacks) \cup {a.prev}) \ {a.name}
  BY <1>3, <1>5, <1>6, <1>8, ReturnedKeeps
<1>10. QED
  BY <1>2, <1>6, <1>7, <1>9 DEF a

LEMMA EndHolds ==
  ASSUME BIInv, BridgeEnds
  PROVE  BIInv'
<1> DEFINE n == Len(active)
           a == active[n]
<1>1. /\ Good(S, stacks') /\ Reaches(stacks, stacks') /\ Cross(stacks')
      /\ StackNames(stacks') = (StackNames(stacks) \cup {a.prev}) \ {a.name}
      /\ active' = SubSeq(active, 1, n - 1)
      /\ n \in Nat \ {0}
  BY EndIs
<1>2. contexts' = contexts /\ pool' = pool /\ made' = (made \cup {a.prev}) \ {a.name}
  BY DEF BridgeEnds, Quiet
<1>3. IInv'
  BY <1>1, <1>2, LeavesHolds DEF BIInv, IInv, RingInv, S
<1>4. /\ active' \in Seq([name : S, prev : S]) /\ Len(active') = n - 1
      /\ \A i \in 1 .. n - 1 : active'[i] = active[i]
  <2>1. active \in Seq([name : S, prev : S])
    BY DEF BIInv, PoolRight
  <2>2. CASE n = 1
    BY <1>1, <2>1, <2>2
  <2>3. CASE n > 1
    <3>1. n - 1 \in Int /\ 1 <= n - 1 /\ n - 1 <= Len(active)
      BY <1>1, <2>3
    <3> DEFINE k == n - 1
               q == SubSeq(active, 1, k)
    <3>2. k \in Int /\ 1 <= k /\ k <= Len(active) /\ q = active'
      BY <1>1, <3>1
    <3> DEFINE R == [name : S, prev : S]
    <3>25. active \in Seq(R)
      BY <2>1
    <3> HIDE DEF k, R
    <3>3. /\ q \in Seq(R)
          /\ Len(q) = IF 1 <= k THEN k - 1 + 1 ELSE 0
          /\ \A j \in 1 .. k - 1 + 1 : q[j] = active[1 + j - 1]
      BY <3>25, <3>2, SubSeqIs
    <3> HIDE DEF q
    <3>4. QED
      BY <1>1, <3>2, <3>3 DEF k, R
  <2>4. n = 1 \/ n > 1
    <3>1. n \in Nat \ {0}
      BY <1>1, Zenon
    <3> HIDE DEF n
    <3>2. QED
      BY <3>1
  <2>5. QED
    BY <2>2, <2>3, <2>4, Zenon
<1>5. PoolRight'
  BY <1>1, <1>2, <1>4 DEF BIInv, PoolRight
<1>6. Scratch = Scratch' \cup {a.name} /\ a.name \notin Scratch'
  <2>1. Scratch = {pool[i] : i \in 1 .. n} /\ Scratch' = {pool[i] : i \in 1 .. n - 1}
    <3>1. Scratch = {pool[i] : i \in 1 .. n}
      BY NamesOf DEF BIInv, PoolRight, Scratch
    <3>2. Scratch' = {pool'[i] : i \in 1 .. Len(active')}
      BY <1>5, NamesOf DEF PoolRight, Scratch
    <3>3. QED
      BY <1>2, <1>4, <3>1, <3>2
  <2>2. a.name = pool[n] /\ n <= Len(pool) /\ Distinct(pool) /\ Len(pool) \in Nat
    BY <1>1, LenProperties DEF BIInv, PoolRight
  <2>3. \A i \in 1 .. n - 1 : pool[i] # pool[n]
    BY <1>1, <2>2 DEF Distinct
  <2>4. QED
    BY <1>1, <2>1, <2>2, <2>3
<1>7. OnlyTheProgramsStacks'
  <2> HIDE DEF a
  <2>1. QED
    BY <1>1, <1>2, <1>6 DEF OnlyTheProgramsStacks, BIInv
<1>8. QED
  BY <1>3, <1>5, <1>7 DEF BIInv

LEMMA BridgeStepHolds ==
  ASSUME BIInv, [BridgeNext]_bridgeVars
  PROVE  BIInv'
<1>1. CASE UNCHANGED bridgeVars
  <2>1. IInv'
    BY <1>1, StepHolds DEF BIInv, bridgeVars, vars
  <2>2. QED
    BY <1>1, <2>1 DEF BIInv, bridgeVars, PoolRight, OnlyTheProgramsStacks, Scratch
<1>2. QED
  BY <1>1, ProgramHolds, BeginHolds, RefusedHolds, EndHolds DEF BridgeNext

(* The ring, the epoch and the pool are right whatever bridges run.        *)
THEOREM BridgeInductive == BridgeSpec => []BIInv
BY BridgeInitHolds, BridgeStepHolds, PTL DEF BridgeSpec

(* A stack is in one place, listed once, and the current one is the ring's *)
(* front, also while lambdas run on scratch stacks and come back.          *)
THEOREM BridgesKeepTheRing == BridgeSpec => []OneRing
<1>1. BIInv => OneRing
  BY DEF BIInv, IInv, RingInv, Good, OneRing
<1>2. QED
  BY <1>1, BridgeInductive, PTL

(* The epoch compiled code compares is sound across bridges.               *)
THEOREM BridgesKeepTheEpoch == BridgeSpec => []SteadyEpoch
<1>1. BIInv => SteadyEpoch
  BY DEF BIInv, IInv, CrossInv
<1>2. QED
  BY <1>1, BridgeInductive, PTL

(* No bridge leaves a stack behind or drops one the program made           *)
(* (scratch_name and run of bridge.rs).                                    *)
THEOREM NoScratchLeft == BridgeSpec => []OnlyTheProgramsStacks
<1>1. BIInv => OnlyTheProgramsStacks
  BY DEF BIInv
<1>2. QED
  BY <1>1, BridgeInductive, PTL

(* A bridge gives its caller the stack it started on, whatever the lambda  *)
(* did to the ring (scoped_frame's exit action, run of bridge.rs).         *)
THEOREM BridgesGiveBack == BridgeSpec => CallerBack
<1>1. ASSUME BIInv, BridgeNext, Len(active') < Len(active)
      PROVE  BridgeEnds
  <2>1. active \in Seq([name : S, prev : S]) /\ Len(active) \in Nat
    BY <1>1, LenProperties DEF BIInv, PoolRight
  <2>2. CASE BridgeBegins
    <3> DEFINE a == [name |-> pool'[Len(active) + 1], prev |-> Here]
    <3>1. active' = Append(active, a)
      BY <2>2 DEF BridgeBegins
    <3> HIDE DEF a
    <3>2. Len(active') = Len(active) + 1
      BY <2>1, <3>1
    <3>3. QED
      BY <1>1, <2>1, <3>2
  <2>3. CASE ProgramWord \/ BridgeRefused
    BY <1>1, <2>1, <2>3 DEF ProgramWord, BridgeRefused
  <2>4. QED
    BY <1>1, <2>2, <2>3 DEF BridgeNext
<1>2. ASSUME BIInv, BridgeEnds
      PROVE  LET a == active[Len(active)]
             IN stacks'.current.name = a.prev /\ ~Has(stacks', a.name)
  BY <1>2, EndIs DEF Has
<1>3. BIInv /\ [BridgeNext]_bridgeVars
        => [Len(active') < Len(active) =>
              LET a == active[Len(active)]
              IN stacks'.current.name = a.prev /\ ~Has(stacks', a.name)]_bridgeVars
  BY <1>1, <1>2
<1>4. QED
  BY <1>3, BridgeInductive, PTL DEF BridgeSpec, CallerBack

-----------------------------------------------------------------------------
(* Words that go to another stack and come back.                           *)

(* Every stack of s but those named in M is there in t as it was.          *)
Spares(s, t, M) ==
  \A n \in StackNames(s) \ M : n \in StackNames(t) /\ Get(t, n) = Get(s, n)

(* Only the items of the current stack differ.                             *)
OnlyCurrent(N, s, t) == Still(N, s, t) /\ t.others = s.others

LEMMA SettleSpares ==
  ASSUME NEW N, NEW s, Good(N, s), NEW q \in Seq(N), q # <<>>,
         ItemsOf(q) = ItemsOf(s.order), Distinct(q)
  PROVE  Spares(s, Resettled(s, q), {})
<1> DEFINE a == [s EXCEPT !.order = q]
           t == Resettled(s, q)
<1>1. a = [current |-> s.current, others |-> s.others, order |-> q,
           epoch |-> s.epoch, cell |-> s.cell]
  BY DEF Good
<1>2. q[1] \in ItemsOf(q)
  BY LenProperties, EmptySeq DEF ItemsOf
<1>3. CASE s.current.name = q[1]
  <2>1. t = a
    BY <1>1, <1>3 DEF Settle, Resettled
  <2>2. QED
    BY <1>1, <2>1 DEF Spares, StackNames, Get
<1>4. CASE s.current.name # q[1]
  <2>1. q[1] \in DOMAIN s.others
    BY <1>2, <1>4 DEF Good, RingIsTheStacks, StackNames
  <2> DEFINE rest == Delete(s.others, q[1])
             oth == Insert(rest, s.current.name, s.current)
  <2>2. t = [current |-> s.others[q[1]], others |-> oth, order |-> q,
             epoch |-> s.epoch, cell |-> s.cell]
    BY <1>1, <1>4, <2>1 DEF Settle, Resettled
  <2>3. /\ DOMAIN oth = (DOMAIN s.others \ {q[1]}) \cup {s.current.name}
        /\ oth[s.current.name] = s.current
        /\ \A m \in DOMAIN s.others \ {q[1]} : oth[m] = s.others[m]
    BY DEF Insert, Delete, Good, RingIsTheStacks
  <2> HIDE DEF rest, oth, t
  <2>4. t.current = s.others[q[1]] /\ t.others = oth /\ t.current.name = q[1]
    BY <2>1, <2>2 DEF Good, RingIsTheStacks
  <2>5. Spares(s, t, {})
    BY <1>4, <2>1, <2>3, <2>4 DEF Spares, StackNames, Get, Good, RingIsTheStacks
  <2>6. QED
    BY <2>5 DEF t
<1>5. QED
  BY <1>3, <1>4

LEMMA AddSpares ==
  ASSUME NEW N, NEW s, Good(N, s), NEW n \in N, ~Has(s, n)
  PROVE  /\ Spares(s, AddAsCurrent(Create(s, n), n), {})
         /\ AddAsCurrent(Create(s, n), n).current = NamedStack(n)
<1> DEFINE c == Create(s, n)
           q == <<n>> \o RotateLeft(s.order)
           u == Settle([c EXCEPT !.order = q], TRUE)
           oth == Insert(s.others, n, NamedStack(n))
           back == Insert(Delete(oth, n), s.current.name, s.current)
           t == AddAsCurrent(c, n)
<1>1. c = [current |-> s.current, others |-> oth, order |-> s.order,
           epoch |-> s.epoch, cell |-> s.cell]
  BY DEF Create, Good
<1>2. n \notin DOMAIN s.others /\ n # s.current.name
      /\ s.order # <<>> /\ s.order \in Seq(N)
  BY DEF Has, Good, RingIsTheStacks, StackNames
<1>3. q # <<>> /\ q[1] = n
  <2>1. RotateLeft(s.order) \in Seq(N)
    BY <1>2, RotateLeftKeeps
  <2>2. QED
    BY <2>1, ConsKeeps
<1>4. /\ DOMAIN oth = DOMAIN s.others \cup {n} /\ oth[n] = NamedStack(n)
      /\ \A m \in DOMAIN s.others : oth[m] = s.others[m]
  BY <1>2 DEF Insert
<1>5. /\ DOMAIN back = DOMAIN s.others \cup {s.current.name}
      /\ back[s.current.name] = s.current
      /\ \A m \in DOMAIN s.others : back[m] = s.others[m]
  BY <1>2, <1>4 DEF Insert, Delete, Good, RingIsTheStacks
<1> HIDE DEF q
<1>6. u = [current |-> NamedStack(n), others |-> back, order |-> q,
           epoch |-> s.epoch, cell |-> s.cell]
  <2>1. [c EXCEPT !.order = q] = [current |-> s.current, others |-> oth, order |-> q,
                                  epoch |-> s.epoch, cell |-> s.cell]
    BY <1>1
  <2> HIDE DEF c, oth
  <2>2. QED
    BY <1>2, <1>3, <1>4, <2>1 DEF Settle
<1> HIDE DEF oth, back
<1>7. t = BumpEpoch(u)
  BY <1>1 DEF AddAsCurrent, q
<1> HIDE DEF u, t, c
<1>8. t.current = NamedStack(n) /\ t.others = back /\ t.current.name = n
  BY <1>6, <1>7 DEF BumpEpoch, NamedStack
<1>9. Spares(s, t, {})
  BY <1>2, <1>5, <1>8 DEF Spares, StackNames, Get
<1>10. QED
  BY <1>8, <1>9 DEF t, c

LEMMA ToStackSpares ==
  ASSUME NEW N, NEW s, Good(N, s), NEW n \in N
  PROVE  Spares(s, ToStack(s, n), {})
<1>1. ItemsOf(s.order) = StackNames(s) /\ s.order \in Seq(N) /\ Distinct(s.order)
  BY DEF Good, RingIsTheStacks
<1>2. CASE ~Has(s, n)
  <2>1. Create(s, n).order = s.order
    BY <1>2 DEF Create, Good
  <2>2. ToStack(s, n) = AddAsCurrent(Create(s, n), n)
    BY <1>1, <1>2, <2>1 DEF ToStack, Has
  <2>3. QED
    BY <1>2, <2>2, AddSpares
<1>3. CASE Has(s, n)
  <2> DEFINE q == TurnedTo(s.order, n)
             t == Resettled(s, q)
  <2>1. n \in ItemsOf(s.order)
    BY <1>1, <1>3 DEF Has
  <2>2. q \in Seq(N) /\ q # <<>> /\ ItemsOf(q) = ItemsOf(s.order) /\ Distinct(q)
    BY <1>1, <2>1, TurnedToKeeps
  <2>3. Good(N, t) /\ Spares(s, t, {})
    BY <2>2, SettleKeeps, SettleSpares
  <2>4. ToStack(s, n) = BumpIfMoved(s, t)
    BY <1>3, <2>1 DEF ToStack, Create, Resettled
  <2> HIDE DEF q, t
  <2>5. ToStack(s, n) \in {t, BumpEpoch(t)}
    BY <2>4 DEF BumpIfMoved
  <2>6. BumpEpoch(t).current = t.current /\ BumpEpoch(t).others = t.others
    BY <2>3, BumpKeeps
  <2>7. QED
    BY <2>3, <2>5, <2>6 DEF Spares, StackNames, Get
<1>4. QED
  BY <1>2, <1>3

(* What the words do to the items of the current stack.                    *)
LEMMA CurrentAlone ==
  ASSUME NEW s, Good(S, s)
  PROVE  /\ \A q : OnlyCurrent(S, s, OnCurrent(s, [s.current EXCEPT !.items = q]))
         /\ \A v : OnlyCurrent(S, s, PushCurrent(s, v))
         /\ OnlyCurrent(S, s, PullCurrent(s))
         /\ OnlyCurrent(S, s, RotateItemsLeft(s))
         /\ OnlyCurrent(S, s, RotateItemsRight(s))
<1>1. \A k : OnCurrent(s, k).others = s.others
  BY DEF OnCurrent, Good
<1>2. QED
  BY <1>1, CurrentKeeps DEF OnlyCurrent, PushCurrent, PullCurrent, RotateItemsLeft, RotateItemsRight

LEMMA AloneTwice ==
  ASSUME NEW s, NEW t, NEW u, Good(S, s), OnlyCurrent(S, s, t), OnlyCurrent(S, t, u)
  PROVE  OnlyCurrent(S, s, u)
BY StillThenStill DEF OnlyCurrent

LEMMA SwapAtAlone ==
  ASSUME NEW s, Good(S, s), NEW c
  PROVE  OnlyCurrent(S, s, SwapAt(s, c))
<1> DEFINE top == Top(s.current)
           down == Turned(s, c)
           other == Top(down.current)
           one == PullCurrent(down)
           two == PushCurrent(one, top)
           back == TurnedBack(two, c)
           three == PullCurrent(back)
<1>1. SwapAt(s, c) = PushCurrent(three, other)
  BY DEF SwapAt
<1>2. OnlyCurrent(S, s, down)
  BY CurrentAlone DEF Turned
<1> HIDE DEF top, other, down
<1>3. OnlyCurrent(S, s, one)
  BY <1>2, CurrentAlone, AloneTwice DEF OnlyCurrent, Still
<1> HIDE DEF one
<1>4. OnlyCurrent(S, s, two)
  BY <1>3, CurrentAlone, AloneTwice DEF OnlyCurrent, Still
<1> HIDE DEF two
<1>5. OnlyCurrent(S, s, back)
  <2>1. OnlyCurrent(S, two, back)
    BY <1>4, CurrentAlone DEF OnlyCurrent, Still, TurnedBack
  <2>2. QED
    BY <1>4, <2>1, AloneTwice
<1> HIDE DEF back
<1>6. OnlyCurrent(S, s, three)
  BY <1>5, CurrentAlone, AloneTwice DEF OnlyCurrent, Still
<1> HIDE DEF three
<1>7. OnlyCurrent(S, three, PushCurrent(three, other))
  BY <1>6, CurrentAlone DEF OnlyCurrent, Still
<1>8. QED
  BY <1>1, <1>6, <1>7, AloneTwice

(* One visit: p has the operands spent, n is visited, t is what the word   *)
(* makes of it there.                                                      *)
LEMMA VisitIs ==
  ASSUME RingInv, NEW p, OnlyCurrent(S, stacks, p), NEW n \in S, NEW t,
         OnlyCurrent(S, ToStack(p, n), t), stacks' = ToStack(t, Here)
  PROVE  Back(p, n)
<1> DEFINE u == ToStack(p, n)
           w == ToStack(t, Here)
<1>1. Here \in S /\ Here \in StackNames(p) /\ Good(S, p)
  BY ElementOfSeq, LenProperties, EmptySeq
     DEF RingInv, Good, RingIsTheStacks, Here, S, OnlyCurrent, Still, StackNames
<1>2. /\ Good(S, u) /\ u.current.name = n /\ Spares(p, u, {})
      /\ StackNames(u) = StackNames(p) \cup {n}
  BY <1>1, ToStackKeeps, ToStackSpares DEF Moves
<1> HIDE DEF u
<1>3. OnlyCurrent(S, u, t)
  BY DEF u
<1>4. Good(S, t) /\ StackNames(t) = StackNames(u)
  BY <1>3 DEF OnlyCurrent, Still
<1>5. /\ w.current.name = Here /\ Spares(t, w, {})
      /\ StackNames(w) = StackNames(t) \cup {Here}
  BY <1>1, <1>4, ToStackKeeps, ToStackSpares
<1> HIDE DEF w
<1>6. StackNames(w) \ {n} = StackNames(p) \ {n}
  BY <1>1, <1>2, <1>4, <1>5
<1>7. ASSUME NEW m \in StackNames(p) \ {n}
      PROVE  Get(w, m) = Get(p, m)
  <2>1. m \in StackNames(u) /\ Get(u, m) = Get(p, m)
    BY <1>2, <1>7 DEF Spares
  <2>2. m \in StackNames(t) /\ Get(t, m) = Get(u, m)
    BY <1>2, <1>3, <1>7, <2>1 DEF OnlyCurrent, Still, StackNames, Get
  <2>3. QED
    BY <1>5, <2>1, <2>2 DEF Spares
<1>8. stacks' = w
  BY DEF w
<1>9. QED
  BY <1>5, <1>6, <1>7, <1>8 DEF Back

(* The words that visit leave the operands spent and nothing more.         *)
LEMMA OperandsSpent ==
  ASSUME RingInv
  PROVE  /\ OnlyCurrent(S, stacks, Popped) /\ OnlyCurrent(S, stacks, PoppedTwo)
         /\ Good(S, Popped) /\ Good(S, PoppedTwo)
<1>1. OnlyCurrent(S, stacks, Popped)
  BY CurrentAlone DEF Popped, RingInv, S
<1>2. OnlyCurrent(S, Popped, PoppedTwo)
  BY <1>1, CurrentAlone DEF PoppedTwo, OnlyCurrent, Still
<1>3. QED
  BY <1>1, <1>2, AloneTwice DEF RingInv, S, OnlyCurrent, Still

LEMMA RotationReturns ==
  ASSUME RingInv, NEW n \in Strings, Operand(n), RotateStackLeft \/ RotateStackRight
  PROVE  Back(Popped, n)
<1> DEFINE u == ToStack(Popped, n)
<1>1. \/ stacks' = ToStack(RotateItemsLeft(u), Here)
      \/ stacks' = ToStack(RotateItemsRight(u), Here)
  BY DEF RotateStackLeft, RotateStackRight, Operand, Leaves
<1>2. n \in S /\ Good(S, u)
  BY OperandsSpent, ToStackKeeps DEF Moves, S
<1>3. OnlyCurrent(S, u, RotateItemsLeft(u)) /\ OnlyCurrent(S, u, RotateItemsRight(u))
  BY <1>2, CurrentAlone
<1>4. QED
  BY <1>1, <1>2, <1>3, OperandsSpent, VisitIs

LEMMA SwapReturns ==
  ASSUME RingInv, NEW n \in Strings, Depth >= 2, Items[Depth] = n, SwapIn
  PROVE  Back(PoppedTwo, n)
<1>1. PICK c \in Counts :
        Leaves(IF DepthOf(PoppedTwo, n) < 2 THEN PoppedTwo
               ELSE ToStack(SwapAt(ToStack(PoppedTwo, n), c), Here))
  BY DEF SwapIn, Operands
<1>2. CASE DepthOf(PoppedTwo, n) < 2
  <2>1. stacks' = PoppedTwo
    BY <1>1, <1>2 DEF Leaves
  <2>2. PoppedTwo.current.name = Here
    BY OperandsSpent DEF OnlyCurrent, Still, Here
  <2>3. QED
    BY <2>1, <2>2 DEF Back
<1>3. CASE ~(DepthOf(PoppedTwo, n) < 2)
  <2> DEFINE t == SwapAt(ToStack(PoppedTwo, n), c)
  <2>1. stacks' = ToStack(t, Here)
    BY <1>1, <1>3 DEF Leaves
  <2>2. n \in S /\ Good(S, ToStack(PoppedTwo, n))
    BY OperandsSpent, ToStackKeeps DEF Moves, S
  <2>3. OnlyCurrent(S, ToStack(PoppedTwo, n), t)
    BY <2>2, SwapAtAlone
  <2> HIDE DEF t
  <2>4. QED
    BY <2>1, <2>2, <2>3, OperandsSpent, VisitIs
<1>4. QED
  BY <1>2, <1>3

(* The stack a visiting word starts on is current again when it is done,   *)
(* with the values its operands left; every stack but the visited one is   *)
(* as it was and none but that one is made, whether the visited stack was  *)
(* there or had to be made (swap_in, rotate_stack_* of stack.rs).          *)
THEOREM VisitorsAlwaysReturn == Spec => VisitorsReturn
<1> DEFINE Visited(n) ==
      /\ Operand(n) /\ (RotateStackLeft \/ RotateStackRight) => Back(Popped, n)
      /\ (\E c \in Counts : Operands(n, c)) /\ SwapIn => Back(PoppedTwo, n)
<1>1. ASSUME IInv, NEW n \in Strings
      PROVE  Visited(n)
  <2>1. Operand(n) /\ (RotateStackLeft \/ RotateStackRight) => Back(Popped, n)
    BY <1>1, RotationReturns DEF IInv
  <2>2. (\E c \in Counts : Operands(n, c)) /\ SwapIn => Back(PoppedTwo, n)
    BY <1>1, SwapReturns DEF IInv, Operands
  <2>3. QED
    BY <2>1, <2>2
<1>2. IInv /\ [Next]_vars => [\A n \in Strings : Visited(n)]_vars
  BY <1>1
<1>3. QED
  BY <1>2, Inductive, PTL DEF Spec, VisitorsReturn

-----------------------------------------------------------------------------
(* The ring and the reference's deque.                                     *)

LEMMA RotateLeftIs ==
  ASSUME NEW N, NEW q \in Seq(N), q # <<>>
  PROVE  /\ RotateLeft(q) \in Seq(N) /\ Len(RotateLeft(q)) = Len(q) /\ Len(q) \in Nat \ {0}
         /\ \A i \in 1 .. Len(q) : RotateLeft(q)[i] = q[IF i = Len(q) THEN 1 ELSE i + 1]
<1> DEFINE r == RotateLeft(q)
<1>1. /\ r \in Seq(N) /\ Len(r) = Len(q) /\ Len(q) \in Nat \ {0}
      /\ \A i \in 1 .. Len(q) - 1 : r[i] = q[i + 1]
      /\ r[Len(q)] = q[1]
  BY DEF RotateLeft
<1> HIDE DEF r
<1>2. \A i \in 1 .. Len(q) : r[i] = q[IF i = Len(q) THEN 1 ELSE i + 1]
  BY <1>1
<1>3. QED
  BY <1>1, <1>2 DEF r

(* The first k of q moved behind the rest.                                 *)
LEMMA CutIs ==
  ASSUME NEW N, NEW q \in Seq(N), NEW k \in 0 .. Len(q)
  PROVE  LET r == SubSeq(q, k + 1, Len(q)) \o SubSeq(q, 1, k)
         IN /\ r \in Seq(N) /\ Len(r) = Len(q)
            /\ \A j \in 1 .. Len(q) :
                 r[j] = q[IF j <= Len(q) - k THEN k + j ELSE j - (Len(q) - k)]
<1> DEFINE n == Len(q)
           front == SubSeq(q, k + 1, n)
           rear == SubSeq(q, 1, k)
           r == front \o rear
<1>1. n \in Nat
  BY LenProperties
<1>2. /\ front \in Seq(N) /\ Len(front) = n - k
      /\ \A j \in 1 .. n - k : front[j] = q[k + j]
  <2>1. /\ front \in Seq(N) /\ Len(front) = IF k + 1 <= n THEN n - (k + 1) + 1 ELSE 0
        /\ \A j \in 1 .. n - (k + 1) + 1 : front[j] = q[k + 1 + j - 1]
    BY <1>1, SubSeqIs
  <2> HIDE DEF front
  <2>2. QED
    BY <1>1, <2>1
<1>3. /\ rear \in Seq(N) /\ Len(rear) = k
      /\ \A j \in 1 .. k : rear[j] = q[j]
  <2>1. /\ rear \in Seq(N) /\ Len(rear) = IF 1 <= k THEN k - 1 + 1 ELSE 0
        /\ \A j \in 1 .. k - 1 + 1 : rear[j] = q[1 + j - 1]
    BY <1>1, SubSeqIs
  <2> HIDE DEF rear
  <2>2. QED
    BY <1>1, <2>1
<1> HIDE DEF front, rear
<1>4. /\ r \in Seq(N) /\ Len(r) = n - k + k
      /\ \A j \in 1 .. n - k + k : r[j] = IF j <= n - k THEN front[j] ELSE rear[j - (n - k)]
  BY <1>2, <1>3, ConcatProperties
<1> HIDE DEF r
<1>5. r \in Seq(N) /\ Len(r) = n
      /\ \A j \in 1 .. n : r[j] = q[IF j <= n - k THEN k + j ELSE j - (n - k)]
  BY <1>1, <1>2, <1>3, <1>4
<1>6. QED
  BY <1>5 DEF r, front, rear

(* A stack is in the deque if it is in the ring.                           *)
LEMMA InDeque ==
  ASSUME NEW N, NEW q \in Seq(N), q # <<>>, NEW x
  PROVE  Reference!In(RotateLeft(q), x) <=> x \in ItemsOf(q)
<1> DEFINE d == RotateLeft(q)
<1>1. ItemsOf(d) = ItemsOf(q)
  BY RotateLeftKeeps
<1> HIDE DEF d
<1>2. Reference!In(d, x) <=> x \in ItemsOf(d)
  BY DEF Reference!In, ItemsOf
<1>3. QED
  BY <1>1, <1>2 DEF d

(* Turning the ring until x is in front turns the deque until x is at its  *)
(* back.                                                                   *)
LEMMA SelectionTurns ==
  ASSUME NEW N, NEW q \in Seq(N), Distinct(q), NEW x \in ItemsOf(q)
  PROVE  RotateLeft(TurnedTo(q, x)) = Reference!AtBack(RotateLeft(q), x)
<1> DEFINE n == Len(q)
           i == FirstAt(q, x)
           t == TurnedTo(q, x)
           d == RotateLeft(q)
           k == CHOOSE j \in 1 .. Len(d) : d[j] = x
           b == Reference!AtBack(d, x)
           r == RotateLeft(t)
<1>1. i \in 1 .. n /\ q[i] = x /\ n \in Nat \ {0} /\ q # <<>>
  BY FirstAtIs, LenProperties, EmptySeq DEF ItemsOf
<1>2. /\ t \in Seq(N) /\ Len(t) = n
      /\ \A j \in 1 .. n : t[j] = q[IF j <= n - (i - 1) THEN i - 1 + j ELSE j - (n - (i - 1))]
  <2> HIDE DEF i
  <2>1. t = SubSeq(q, i - 1 + 1, n) \o SubSeq(q, 1, i - 1)
    <3>1. t = SubSeq(q, i, n) \o SubSeq(q, 1, i - 1)
      BY DEF TurnedTo, i
    <3>2. i - 1 + 1 = i
      BY <1>1
    <3> HIDE DEF t
    <3>3. QED
      BY <3>1, <3>2
  <2>2. i - 1 \in 0 .. n
    BY <1>1
  <2> HIDE DEF t
  <2>3. QED
    BY <2>1, <2>2, CutIs
<1>3. /\ d \in Seq(N) /\ Len(d) = n /\ Distinct(d)
      /\ \A j \in 1 .. n : d[j] = q[IF j = n THEN 1 ELSE j + 1]
  BY <1>1, RotateLeftIs, RotateLeftKeeps
<1>4. b = SubSeq(d, k + 1, n) \o SubSeq(d, 1, k)
  BY <1>3 DEF Reference!AtBack
<1> HIDE DEF i, d
<1> DEFINE at == IF i = 1 THEN n ELSE i - 1
<1>5. at \in 1 .. n /\ d[at] = x
  BY <1>1, <1>3
<1>6. k \in 1 .. n /\ d[k] = x
  BY <1>3, <1>5
<1>7. k = at
  <2> HIDE DEF k, at
  <2>1. QED
    BY <1>3, <1>5, <1>6 DEF Distinct
<1> HIDE DEF k, b
<1>8. /\ b \in Seq(N) /\ Len(b) = n
      /\ \A j \in 1 .. n : b[j] = d[IF j <= n - at THEN at + j ELSE j - (n - at)]
  <2> HIDE DEF at
  <2>1. at \in 0 .. Len(d) /\ n = Len(d)
    BY <1>1, <1>3, <1>5
  <2>2. b = SubSeq(d, at + 1, Len(d)) \o SubSeq(d, 1, at)
    BY <1>4, <1>7, <2>1
  <2>3. /\ b \in Seq(N) /\ Len(b) = Len(d)
        /\ \A j \in 1 .. Len(d) : b[j] = d[IF j <= Len(d) - at THEN at + j ELSE j - (Len(d) - at)]
    <3>1. d \in Seq(N)
      BY <1>3
    <3>2. QED
      BY <2>1, <2>2, <3>1, CutIs
  <2>4. QED
    BY <2>1, <2>3
<1> HIDE DEF t
<1>9. /\ r \in Seq(N) /\ Len(r) = n
      /\ \A j \in 1 .. n : r[j] = t[IF j = n THEN 1 ELSE j + 1]
  <2>1. t # <<>>
    BY <1>1, <1>2, EmptySeq
  <2>2. QED
    BY <1>2, <2>1, RotateLeftIs
<1> HIDE DEF r
<1>10. ASSUME NEW j \in 1 .. n PROVE r[j] = b[j]
  <2> DEFINE l == IF j = n THEN 1 ELSE j + 1
             m == IF j <= n - at THEN at + j ELSE j - (n - at)
  <2>1. l \in 1 .. n /\ m \in 1 .. n
    BY <1>1
  <2>2. r[j] = t[l] /\ b[j] = d[m]
    BY <1>8, <1>9
  <2>3. t[l] = q[IF l <= n - (i - 1) THEN i - 1 + l ELSE l - (n - (i - 1))]
    BY <1>2, <2>1
  <2>4. d[m] = q[IF m = n THEN 1 ELSE m + 1]
    BY <1>3, <2>1
  <2>5. (IF l <= n - (i - 1) THEN i - 1 + l ELSE l - (n - (i - 1)))
          = (IF m = n THEN 1 ELSE m + 1)
    BY <1>1
  <2>6. QED
    BY <2>2, <2>3, <2>4, <2>5
<1>11. r = b
  BY <1>8, <1>9, <1>10, SeqEqual
<1>12. QED
  BY <1>11 DEF r, b, t, d

(* A stack made at the ring's front is appended to the deque.              *)
LEMMA CreationAppends ==
  ASSUME NEW N, NEW q \in Seq(N), q # <<>>, NEW x \in N
  PROVE  RotateLeft(<<x>> \o RotateLeft(q)) = Append(RotateLeft(q), x)
<1> DEFINE d == RotateLeft(q)
           r == <<x>> \o d
<1>1. d \in Seq(N)
  BY RotateLeftKeeps
<1> HIDE DEF d
<1>2. r # <<>> /\ Head(r) = x /\ Tail(r) = d
  <2>1. /\ r \in Seq(N) /\ r # <<>> /\ r[1] = x /\ Len(d) \in Nat /\ Len(r) = Len(d) + 1
        /\ \A i \in 1 .. Len(d) : r[i + 1] = d[i]
    BY <1>1
  <2> HIDE DEF r
  <2>2. /\ Tail(r) \in Seq(N) /\ Len(Tail(r)) = Len(d)
        /\ \A i \in 1 .. Len(d) : Tail(r)[i] = d[i]
    BY <2>1, HeadTailProperties
  <2>3. Tail(r) = d
    BY <1>1, <2>2, SeqEqual
  <2>4. QED
    BY <2>1, <2>3
<1>3. QED
  BY <1>2 DEF RotateLeft, d

(* Turning the ring back gives what turning the deque back gives.          *)
LEMMA TurnsBack ==
  ASSUME NEW N, NEW q \in Seq(N), q # <<>>
  PROVE  RotateLeft(RotateRight(q)) = Reference!TurnRight(RotateLeft(q))
<1> DEFINE n == Len(q)
           r == RotateRight(q)
           d == RotateLeft(q)
           most == SubSeq(d, 1, n - 1)
           b == <<d[n]>> \o most
<1>1. /\ d \in Seq(N) /\ Len(d) = n /\ n \in Nat \ {0}
      /\ \A i \in 1 .. n : d[i] = q[IF i = n THEN 1 ELSE i + 1]
  BY RotateLeftIs
<1>2. Reference!TurnRight(d) = b
  BY <1>1 DEF Reference!TurnRight
<1> HIDE DEF d
<1>3. /\ most \in Seq(N) /\ Len(most) = n - 1
      /\ \A i \in 1 .. n - 1 : most[i] = d[i]
  <2>1. /\ most \in Seq(N) /\ Len(most) = IF 1 <= n - 1 THEN n - 1 - 1 + 1 ELSE 0
        /\ \A j \in 1 .. n - 1 - 1 + 1 : most[j] = d[1 + j - 1]
    BY <1>1, SubSeqIs
  <2> HIDE DEF most
  <2>2. QED
    BY <1>1, <2>1
<1> HIDE DEF most
<1>4. /\ b \in Seq(N) /\ Len(b) = n
      /\ \A i \in 1 .. n : b[i] = q[i]
  <2>1. d[n] \in N /\ d[n] = q[1]
    BY <1>1, ElementOfSeq
  <2>2. b \in Seq(N) /\ Len(b) = n /\ b[1] = q[1] /\ \A i \in 2 .. n : b[i] = most[i - 1]
    BY <1>1, <1>3, <2>1
  <2> HIDE DEF b
  <2>3. ASSUME NEW i \in 2 .. n PROVE b[i] = q[i]
    <3>1. i - 1 \in 1 .. n - 1 /\ i - 1 \in 1 .. n /\ i - 1 # n /\ i - 1 + 1 = i
      BY <1>1
    <3>2. most[i - 1] = d[i - 1] /\ d[i - 1] = q[i]
      BY <1>1, <1>3, <3>1
    <3>3. QED
      BY <2>2, <3>2
  <2>4. QED
    BY <1>1, <2>2, <2>3
<1> HIDE DEF b
<1>5. b = q
  BY <1>4, SeqEqual
<1>6. RotateLeft(r) = q
  <2>1. /\ r \in Seq(N) /\ Len(r) = n /\ r[1] = q[n] /\ \A i \in 2 .. n : r[i] = q[i - 1]
    <3> DEFINE front == SubSeq(q, 1, n - 1)
    <3>1. r = <<q[n]>> \o front
      BY DEF RotateRight
    <3>2. /\ front \in Seq(N) /\ Len(front) = IF 1 <= n - 1 THEN n - 1 - 1 + 1 ELSE 0
          /\ \A j \in 1 .. n - 1 - 1 + 1 : front[j] = q[1 + j - 1]
      BY <1>1, SubSeqIs
    <3>3. q[n] \in N
      BY <1>1, ElementOfSeq
    <3> HIDE DEF front, r
    <3>4. QED
      BY <1>1, <3>1, <3>2, <3>3
  <2> HIDE DEF r
  <2>2. r # <<>>
    BY <1>1, <2>1, EmptySeq
  <2>3. /\ RotateLeft(r) \in Seq(N) /\ Len(RotateLeft(r)) = n
        /\ \A i \in 1 .. n : RotateLeft(r)[i] = r[IF i = n THEN 1 ELSE i + 1]
    BY <2>1, <2>2, RotateLeftIs
  <2>4. \A i \in 1 .. n : RotateLeft(r)[i] = q[i]
    BY <1>1, <2>1, <2>3
  <2>5. QED
    BY <2>3, <2>4, SeqEqual
<1>7. QED
  BY <1>2, <1>5, <1>6 DEF d, r

(* r is the ring q, or what a step of the reference makes of its deque.    *)
TurnsAs(q, r) ==
  LET d == RotateLeft(q)
      e == RotateLeft(r)
  IN \/ r = q
     \/ \E n \in S : e = Reference!Selected(d, n)
     \/ \E n \in S : ~Reference!In(d, n) /\ e = Append(d, n)
     \/ \E n \in S : e = Reference!AtBack(Reference!Selected(d, n), d[Len(d)])
     \/ e = Reference!TurnLeft(d)
     \/ e = Reference!TurnRight(d)

LEMMA TurnsAsReference ==
  ASSUME TurnsAs(stacks.order, stacks'.order)
  PROVE  UNCHANGED stacks.order \/ Reference!Next
BY DEF TurnsAs, Reference!Next, Reference!Select, Reference!Ensure, Reference!Visit,
       Reference!Turn, Reference!Back, S

LEMMA CreateTurns ==
  ASSUME NEW N, NEW s, Good(N, s), NEW n \in N, ~Has(s, n)
  PROVE  AddAsCurrent(Create(s, n), n).order = <<n>> \o RotateLeft(s.order)
<1> DEFINE c == Create(s, n)
           q == <<n>> \o RotateLeft(s.order)
           a == [c EXCEPT !.order = q]
           u == Settle(a, TRUE)
<1>1. c.order = s.order /\ c = [current |-> s.current, others |-> c.others, order |-> s.order,
                                epoch |-> s.epoch, cell |-> s.cell]
  BY DEF Create, Good
<1>2. AddAsCurrent(c, n) = BumpEpoch(u)
  BY <1>1 DEF AddAsCurrent
<1> HIDE DEF q, c
<1>3. a = [current |-> s.current, others |-> c.others, order |-> q,
           epoch |-> s.epoch, cell |-> s.cell]
  BY <1>1
<1> HIDE DEF a
<1>4. u.order = q /\ BumpEpoch(u).order = u.order
  BY <1>3 DEF Settle, BumpEpoch
<1>5. QED
  BY <1>2, <1>4 DEF q, c

(* The ring after a switch is the deque after a selection.                 *)
LEMMA ToStackTurns ==
  ASSUME NEW N, NEW s, Good(N, s), NEW n \in N
  PROVE  RotateLeft(ToStack(s, n).order) = Reference!Selected(RotateLeft(s.order), n)
<1>1. /\ ItemsOf(s.order) = StackNames(s) /\ s.order \in Seq(N) /\ Distinct(s.order)
      /\ s.order # <<>>
  BY DEF Good, RingIsTheStacks
<1>2. Reference!In(RotateLeft(s.order), n) <=> Has(s, n)
  BY <1>1, InDeque DEF Has
<1>3. CASE ~Has(s, n)
  <2>1. Create(s, n).order = s.order
    BY <1>3 DEF Create, Good
  <2>2. ToStack(s, n) = AddAsCurrent(Create(s, n), n)
    BY <1>1, <1>3, <2>1 DEF ToStack, Has
  <2>3. ToStack(s, n).order = <<n>> \o RotateLeft(s.order)
    BY <1>3, <2>2, CreateTurns
  <2>4. QED
    BY <1>1, <1>2, <1>3, <2>3, CreationAppends DEF Reference!Selected
<1>4. CASE Has(s, n)
  <2> DEFINE q == TurnedTo(s.order, n)
             t == Resettled(s, q)
  <2>1. n \in ItemsOf(s.order)
    BY <1>1, <1>4 DEF Has
  <2>2. q \in Seq(N) /\ q # <<>> /\ ItemsOf(q) = ItemsOf(s.order) /\ Distinct(q)
    BY <1>1, <2>1, TurnedToKeeps
  <2>3. Good(N, t) /\ t.order = q
    BY <2>2, SettleKeeps
  <2>4. ToStack(s, n) = BumpIfMoved(s, t)
    BY <1>4, <2>1 DEF ToStack, Create, Resettled
  <2> HIDE DEF q, t
  <2>5. ToStack(s, n).order = q
    BY <2>3, <2>4, BumpKeeps DEF BumpIfMoved
  <2>6. QED
    BY <1>1, <1>2, <1>4, <2>1, <2>5, SelectionTurns DEF Reference!Selected, q
<1>5. QED
  BY <1>3, <1>4

(* The ring after a stack was asked for: as it was, or with the new one.   *)
LEMMA EnsureTurns ==
  ASSUME NEW s, Good(S, s), NEW n \in S
  PROVE  TurnsAs(s.order, EnsureStack(s, n).order)
<1>1. ItemsOf(s.order) = StackNames(s) /\ s.order \in Seq(S) /\ s.order # <<>>
  BY DEF Good, RingIsTheStacks
<1>2. CASE ~Has(s, n)
  <2>1. Create(s, n).order = s.order
    BY <1>2 DEF Create, Good
  <2>2. EnsureStack(s, n) = AddAsCurrent(Create(s, n), n)
    BY <1>1, <1>2, <2>1 DEF EnsureStack, Has
  <2>3. RotateLeft(EnsureStack(s, n).order) = Append(RotateLeft(s.order), n)
    BY <1>1, <1>2, <2>2, CreateTurns, CreationAppends
  <2>4. ~Reference!In(RotateLeft(s.order), n)
    BY <1>1, <1>2, InDeque DEF Has
  <2>5. QED
    BY <2>3, <2>4 DEF TurnsAs
<1>3. CASE Has(s, n)
  BY <1>1, <1>3 DEF EnsureStack, Create, Has, TurnsAs
<1>4. QED
  BY <1>2, <1>3

(* A stack that is asked for and then changed.                             *)
LEMMA PushToTurns ==
  ASSUME NEW s, Good(S, s), NEW n \in S
  PROVE  /\ \A v : TurnsAs(s.order, PushTo(s, n, v).order)
         /\ \A q : TurnsAs(s.order, PushEachTo(s, n, q).order)
         /\ \A c : TurnsAs(s.order, EnsureStackWithCapacity(s, n, c).order)
         /\ TurnsAs(s.order, Put(EnsureStack(s, n), n, Folded(Get(EnsureStack(s, n), n))).order)
<1> DEFINE e == EnsureStack(s, n)
           k == Get(e, n)
<1>1. Good(S, e) /\ IsRecord(k) /\ k.name = n /\ TurnsAs(s.order, e.order)
  BY EnsureKeeps, EnsureTurns, GetIs DEF Moves
<1> HIDE DEF e, k
<1>2. ASSUME NEW l, IsRecord(l), l.name = n PROVE TurnsAs(s.order, Put(e, n, l).order)
  <2>1. Put(e, n, l).order = e.order
    BY <1>1, <1>2, PutKeeps DEF Still
  <2>2. QED
    BY <1>1, <2>1
<1>3. ASSUME NEW v PROVE TurnsAs(s.order, PushTo(s, n, v).order)
  BY <1>1, <1>2, PushIs DEF PushTo, e, k
<1>4. ASSUME NEW q PROVE TurnsAs(s.order, PushEachTo(s, n, q).order)
  <2>1. CASE q = <<>>
    BY <2>1 DEF PushEachTo, TurnsAs
  <2>2. CASE q # <<>>
    BY <1>1, <1>2, <2>2, PushEachIs DEF PushEachTo, e, k
  <2>3. QED
    BY <2>1, <2>2
<1>5. ASSUME NEW c PROVE TurnsAs(s.order, EnsureStackWithCapacity(s, n, c).order)
  <2>1. IsRecord([k EXCEPT !.cap = {c}]) /\ [k EXCEPT !.cap = {c}].name = n
    BY <1>1 DEF IsRecord
  <2>2. TurnsAs(s.order, Put(e, n, [k EXCEPT !.cap = {c}]).order)
    BY <1>2, <2>1
  <2>3. QED
    BY <1>1, <2>2 DEF EnsureStackWithCapacity, e, k
<1>6. TurnsAs(s.order, Put(e, n, Folded(k)).order)
  BY <1>1, <1>2, FoldedIs
<1>7. QED
  BY <1>3, <1>4, <1>5, <1>6 DEF e, k

LEMMA RotationTurns ==
  ASSUME NEW s, Good(S, s)
  PROVE  /\ TurnsAs(s.order, RotateStacksLeft(s).order)
         /\ TurnsAs(s.order, RotateStacksRight(s).order)
<1>1. s.order \in Seq(S) /\ s.order # <<>>
  BY DEF Good, RingIsTheStacks
<1>2. ASSUME NEW q PROVE TurnRing(s, q).order \in {s.order, q}
  <2> DEFINE a == [s EXCEPT !.order = q]
             u == Settle(a, TRUE)
  <2>1. a = [current |-> s.current, others |-> s.others, order |-> q,
             epoch |-> s.epoch, cell |-> s.cell]
    BY DEF Good
  <2>2. TurnRing(s, q) \in {s, BumpEpoch(u)}
    BY DEF TurnRing
  <2> HIDE DEF a
  <2>3. u.order = q /\ BumpEpoch(u).order = u.order
    BY <2>1 DEF Settle, BumpEpoch
  <2>4. QED
    BY <2>2, <2>3
<1>3. TurnsAs(s.order, RotateStacksLeft(s).order)
  <2>1. RotateLeft(s.order) # <<>>
    BY <1>1, RotateLeftIs, EmptySeq
  <2>2. RotateLeft(RotateLeft(s.order)) = Reference!TurnLeft(RotateLeft(s.order))
    BY <2>1 DEF RotateLeft, Reference!TurnLeft
  <2>3. QED
    BY <1>2, <2>2 DEF RotateStacksLeft, TurnsAs
<1>4. TurnsAs(s.order, RotateStacksRight(s).order)
  BY <1>1, <1>2, TurnsBack DEF RotateStacksRight, TurnsAs
<1>5. QED
  BY <1>3, <1>4

(* Every word but those that drop the current stack turns the ring as the  *)
(* reference turns its deque.                                              *)
LEMMA OperandsStill ==
  ASSUME RingInv, NEW p \in {stacks, Popped, PoppedTwo}
  PROVE  Good(S, p) /\ p.order = stacks.order /\ p.current.name = Here
BY PoppedIs DEF RingInv, Still, S, Here

LEMMA NamedStackTurns ==
  ASSUME RingInv, OnANamedStack
  PROVE  TurnsAs(stacks.order, stacks'.order)
<1>1. ASSUME NEW p \in {stacks, Popped, PoppedTwo}, NEW t, TurnsAs(p.order, t.order), Leaves(t)
      PROVE  TurnsAs(stacks.order, stacks'.order)
  BY <1>1, OperandsStill DEF Leaves
<1>2. ASSUME NEW p \in {stacks, Popped, PoppedTwo}
      PROVE  /\ TurnsAs(p.order, p.order)
             /\ \A n : /\ TurnsAs(p.order, PullFrom(p, n).order)
                       /\ TurnsAs(p.order, ClearStack(p, n).order)
             /\ \A n \in S : \A v : TurnsAs(p.order, PushTo(p, n, v).order)
             /\ \A n \in S : \A q : TurnsAs(p.order, PushEachTo(p, n, q).order)
             /\ \A m, n \in S : \A q : /\ TurnsAs(p.order, PushEachTo(PullFrom(p, m), n, q).order)
                                  /\ TurnsAs(p.order, PushEachTo(ClearStack(p, m), n, q).order)
  <2>1. Good(S, p)
    BY OperandsStill
  <2>2. TurnsAs(p.order, p.order)
    BY DEF TurnsAs
  <2>3. ASSUME NEW n PROVE Still(S, p, PullFrom(p, n)) /\ Still(S, p, ClearStack(p, n))
    BY <2>1, PullFromKeeps
  <2>4. \A n : PullFrom(p, n).order = p.order /\ ClearStack(p, n).order = p.order
    BY <2>3 DEF Still
  <2>5. ASSUME NEW t, Still(S, p, t), NEW n \in S, NEW q
        PROVE  TurnsAs(p.order, PushEachTo(t, n, q).order)
    BY <2>5, PushToTurns DEF Still
  <2>6. QED
    BY <2>1, <2>2, <2>3, <2>4, <2>5, PushToTurns
<1>3. CASE DupOneIn
  BY <1>1, <1>2, <1>3 DEF DupOneIn, S
<1>4. CASE DupManyIn
  BY <1>1, <1>2, <1>4 DEF DupManyIn, S
<1>5. CASE DropIn \/ ClearIn
  BY <1>1, <1>2, <1>5 DEF DropIn, ClearIn
<1>6. CASE Move
  <2> DEFINE q == Reverse(Popped.current.items)
  <2>1. PICK n \in S : Leaves(PushEachTo(ClearStack(Popped, Here), n, q))
    BY <1>6 DEF Move, S
  <2> HIDE DEF q
  <2>2. Here \in S
    BY ElementOfSeq, LenProperties, EmptySeq DEF RingInv, Good, RingIsTheStacks, Here, S
  <2>3. TurnsAs(Popped.order, PushEachTo(ClearStack(Popped, Here), n, q).order)
    BY <1>2, <2>2
  <2>4. QED
    BY <1>1, <2>1, <2>3
<1>7. CASE MoveFrom
  BY <1>1, <1>2, <1>7 DEF MoveFrom, S
<1>8. CASE FoldStack
  <2>1. PICK n \in S : Leaves(LET e == EnsureStack(Popped, n)
                              IN Put(e, n, Folded(Get(e, n))))
    BY <1>8 DEF FoldStack, S
  <2> DEFINE t == Put(EnsureStack(Popped, n), n, Folded(Get(EnsureStack(Popped, n), n)))
  <2>2. Leaves(t)
    BY <2>1
  <2>3. TurnsAs(Popped.order, t.order)
    BY OperandsStill, PushToTurns
  <2> HIDE DEF t
  <2>4. QED
    BY <1>1, <2>2, <2>3
<1>9. CASE Take
  <2> DEFINE t == PushCurrent(stacks, bench[Len(bench)])
  <2>1. Leaves(t)
    BY <1>9 DEF Take
  <2>2. t.order = stacks.order
    <3>1. Good(S, stacks)
      BY DEF RingInv, S
    <3>2. ASSUME NEW v PROVE PushCurrent(stacks, v).order = stacks.order
      <4>1. Still(S, stacks, PushCurrent(stacks, v))
        BY <3>1, CurrentKeeps
      <4>2. QED
        BY <4>1 DEF Still
    <3>3. QED
      BY <3>2
  <2> HIDE DEF t
  <2>3. QED
    BY <1>1, <1>2, <2>1, <2>2
<1>10. CASE Return
  BY <1>1, <1>2, <1>10 DEF Return
<1>11. CASE ReturnTo
  BY <1>1, <1>2, <1>11 DEF ReturnTo, S
<1>12. CASE ReturnFrom
  BY <1>1, <1>2, <1>12 DEF ReturnFrom
<1>13. QED
  BY <1>3, <1>4, <1>5, <1>6, <1>7, <1>8, <1>9, <1>10, <1>11, <1>12 DEF OnANamedStack

LEMMA RingTurns ==
  ASSUME RingInv, OnTheRing, ~DropStack
  PROVE  TurnsAs(stacks.order, stacks'.order)
<1>1. ASSUME NEW p \in {stacks, Popped, PoppedTwo}, NEW t, TurnsAs(p.order, t.order), Leaves(t)
      PROVE  TurnsAs(stacks.order, stacks'.order)
  BY <1>1, OperandsStill DEF Leaves
<1>2. ASSUME NEW p \in {stacks, Popped, PoppedTwo}
      PROVE  /\ TurnsAs(p.order, p.order)
             /\ \A n \in S : TurnsAs(p.order, ToStack(p, n).order)
             /\ \A n \in S : TurnsAs(p.order, EnsureStack(p, n).order)
             /\ \A n \in S : \A c : TurnsAs(p.order, EnsureStackWithCapacity(p, n, c).order)
             /\ TurnsAs(p.order, RotateStacksLeft(p).order)
             /\ TurnsAs(p.order, RotateStacksRight(p).order)
  <2>1. Good(S, p)
    BY OperandsStill
  <2>2. TurnsAs(p.order, p.order)
    BY DEF TurnsAs
  <2>3. ASSUME NEW n \in S PROVE TurnsAs(p.order, ToStack(p, n).order)
    BY <2>1, ToStackTurns DEF TurnsAs
  <2>4. QED
    BY <2>1, <2>2, <2>3, EnsureTurns, PushToTurns, RotationTurns
<1>3. CASE ToCurrent
  BY <1>1, <1>2, <1>3 DEF ToCurrent, S
<1>4. CASE ToStackWord \/ EnsureStackWord
  BY <1>1, <1>2, <1>4 DEF ToStackWord, EnsureStackWord, S
<1>5. CASE EnsureWithCapacity
  BY <1>1, <1>2, <1>5 DEF EnsureWithCapacity, S
<1>6. CASE StacksLeft \/ StacksRight
  BY <1>1, <1>2, <1>6 DEF StacksLeft, StacksRight
<1>7. CASE Context
  BY <1>1, <1>2, <1>7 DEF Context, S
<1>8. QED
  BY <1>3, <1>4, <1>5, <1>6, <1>7 DEF OnTheRing

LEMMA VisitingTurns ==
  ASSUME RingInv, Visiting
  PROVE  TurnsAs(stacks.order, stacks'.order)
<1>1. Here \in S
  BY ElementOfSeq, LenProperties, EmptySeq DEF RingInv, Good, RingIsTheStacks, Here, S
<1>2. ASSUME NEW p \in {Popped, PoppedTwo}, NEW n \in S, NEW t,
             Still(S, ToStack(p, n), t), Leaves(ToStack(t, Here))
      PROVE  TurnsAs(stacks.order, stacks'.order)
  <2> DEFINE d == RotateLeft(stacks.order)
  <2>1. Good(S, p) /\ p.order = stacks.order
    BY OperandsStill
  <2>2. RotateLeft(t.order) = Reference!Selected(d, n) /\ Good(S, t)
    BY <1>2, <2>1, ToStackTurns DEF Still
  <2>3. RotateLeft(ToStack(t, Here).order) = Reference!Selected(Reference!Selected(d, n), Here)
    BY <1>1, <2>2, ToStackTurns
  <2>4. Here = d[Len(d)] /\ Reference!In(Reference!Selected(d, n), Here)
    <3>1. Here = stacks.order[1] /\ stacks.order # <<>> /\ stacks.order \in Seq(S)
      BY DEF RingInv, Good, RingIsTheStacks, Here, S
    <3>2. Here = d[Len(d)]
      BY <3>1, RotateLeftIs
    <3>3. Here \in StackNames(t)
      <4>1. StackNames(t) = StackNames(ToStack(p, n))
        BY <1>2 DEF Still
      <4>2. Here \in StackNames(p)
        BY OperandsStill DEF StackNames
      <4>3. QED
        BY <2>1, <4>1, <4>2, ToStackKeeps
    <3>4. ItemsOf(t.order) = StackNames(t) /\ t.order \in Seq(S) /\ t.order # <<>>
      BY <2>2 DEF Good, RingIsTheStacks
    <3>5. Reference!In(RotateLeft(t.order), Here)
      BY <3>3, <3>4, InDeque
    <3>6. QED
      BY <2>2, <3>2, <3>5
  <2>5. RotateLeft(stacks'.order) = Reference!AtBack(Reference!Selected(d, n), d[Len(d)])
    BY <1>2, <2>3, <2>4 DEF Leaves, Reference!Selected
  <2>6. QED
    BY <2>5 DEF TurnsAs
<1>3. ASSUME NEW p \in {Popped, PoppedTwo}, NEW n \in S
      PROVE  Good(S, ToStack(p, n))
  BY OperandsStill, ToStackKeeps DEF Moves
<1>4. CASE SwapIn
  <2>1. PICK n \in S, c \in Counts :
          Leaves(IF DepthOf(PoppedTwo, n) < 2 THEN PoppedTwo
                 ELSE ToStack(SwapAt(ToStack(PoppedTwo, n), c), Here))
    BY <1>4 DEF SwapIn, S
  <2>2. CASE DepthOf(PoppedTwo, n) < 2
    BY <2>1, <2>2, OperandsStill DEF Leaves, TurnsAs
  <2>3. CASE ~(DepthOf(PoppedTwo, n) < 2)
    <3>1. Still(S, ToStack(PoppedTwo, n), SwapAt(ToStack(PoppedTwo, n), c))
      BY <1>3, SwapAtIs
    <3>2. Leaves(ToStack(SwapAt(ToStack(PoppedTwo, n), c), Here))
      BY <2>1, <2>3
    <3>3. QED
      BY <1>2, <3>1, <3>2
  <2>4. QED
    BY <2>2, <2>3
<1>5. CASE RotateStackLeft
  <2>1. PICK n \in S : Leaves(ToStack(RotateItemsLeft(ToStack(Popped, n)), Here))
    BY <1>5 DEF RotateStackLeft, S
  <2>2. Still(S, ToStack(Popped, n), RotateItemsLeft(ToStack(Popped, n)))
    BY <1>3, CurrentKeeps
  <2>3. QED
    BY <1>2, <2>1, <2>2
<1>6. CASE RotateStackRight
  <2>1. PICK n \in S : Leaves(ToStack(RotateItemsRight(ToStack(Popped, n)), Here))
    BY <1>6 DEF RotateStackRight, S
  <2>2. Still(S, ToStack(Popped, n), RotateItemsRight(ToStack(Popped, n)))
    BY <1>3, CurrentKeeps
  <2>3. QED
    BY <1>2, <2>1, <2>2
<1>7. QED
  BY <1>4, <1>5, <1>6 DEF Visiting

LEMMA WordsTurn ==
  ASSUME RingInv, Next, ~DropStack, ~EndContext
  PROVE  TurnsAs(stacks.order, stacks'.order)
<1>1. CASE OnTheCurrentStack
  BY <1>1, CurrentStackWords DEF TurnsAs
<1>2. CASE CrossBegin \/ CrossEnd
  BY <1>2 DEF CrossBegin, CrossEnd, TurnsAs
<1>3. QED
  BY <1>1, <1>2, NamedStackTurns, RingTurns, VisitingTurns DEF Next

(* Whoever turns the ring, a program, a lambda of a query, or a bridge on  *)
(* its way to a scratch stack, the reference's deque could turn so; only   *)
(* dropping the current stack chooses another neighbour (add_as_current,   *)
(* to_stack and rotate_stacks_* of stacks.rs).                             *)
THEOREM RingTurnsAsReference == BridgeSpec => BridgesTurnAsReference
<1>1. ASSUME BIInv, BridgeNext
      PROVE  \/ UNCHANGED stacks.order \/ Reference!Next
             \/ DropStack \/ EndContext \/ BridgeEnds
  <2>1. CASE ProgramWord
    BY <1>1, <2>1, WordsTurn, TurnsAsReference DEF ProgramWord, BIInv, IInv
  <2>2. CASE BridgeBegins
    <3>1. PICK n \in S : n = pool'[Len(active) + 1]
      BY <1>1, <2>2, ScratchIsNew DEF BIInv, BridgeBegins
    <3>2. stacks' = ToStack(stacks, n) /\ Good(S, stacks)
      BY <1>1, <2>2, <3>1 DEF BridgeBegins, Leaves, BIInv, IInv, RingInv, S
    <3>3. TurnsAs(stacks.order, stacks'.order)
      BY <3>2, ToStackTurns DEF TurnsAs
    <3>4. QED
      BY <3>3, TurnsAsReference
  <2>3. CASE BridgeRefused
    BY <2>3 DEF BridgeRefused
  <2>4. QED
    BY <1>1, <2>1, <2>2, <2>3 DEF BridgeNext
<1>2. BIInv /\ [BridgeNext]_bridgeVars
        => [\/ UNCHANGED stacks.order \/ Reference!Next
            \/ DropStack \/ EndContext \/ BridgeEnds]_bridgeVars
  BY <1>1
<1>3. QED
  BY <1>2, BridgeInductive, PTL DEF BridgeSpec, BridgesTurnAsReference

-----------------------------------------------------------------------------
(* Values are neither lost nor made.  How often a value is on the stacks   *)
(* is the number of its places; what a word does to it is the difference   *)
(* of its counts on the stacks the word changes.                           *)

LEMMA LeastNumber ==
  ASSUME NEW T \in SUBSET Nat, T # {}
  PROVE  \E n \in T : \A m \in T : n <= m
<1> DEFINE R == {1 .. n : n \in T}
<1>1. ASSUME NEW n \in Nat PROVE 1 .. n \in FiniteSubsetsOf(Nat)
  <2>1. IsFiniteSet(1 .. n)
    BY FS_Interval
  <2>2. QED
    BY <2>1 DEF FiniteSubsetsOf
<1>2. R \subseteq FiniteSubsetsOf(Nat) /\ R # {}
  BY <1>1
<1>3. PICK r \in R : \A q \in R : ~(<<q, r>> \in StrictSubsetOrdering(Nat))
  <2> HIDE DEF R
  <2>1. QED
    BY <1>2, FS_StrictSubsetOrderingWellFounded, WFMin
<1>4. PICK n \in T : r = 1 .. n
  OBVIOUS
<1>5. ASSUME NEW m \in T, m < n PROVE FALSE
  <2>1. 1 .. m \in R
    OBVIOUS
  <2>2. n \in 1 .. n /\ n \notin 1 .. m /\ 1 .. m \subseteq 1 .. n
    BY <1>5
  <2>3. 1 .. m \in SUBSET Nat /\ 1 .. n \in SUBSET Nat /\ 1 .. m # 1 .. n
    BY <2>2
  <2>4. <<1 .. m, r>> \in StrictSubsetOrdering(Nat)
    BY <1>4, <2>2, <2>3 DEF StrictSubsetOrdering
  <2>5. QED
    BY <1>3, <2>1, <2>4
<1>6. QED
  BY <1>5

(* What holds of 0, and of each number below n that follows one it holds   *)
(* of, holds up to n.                                                      *)
LEMMA UpTo ==
  ASSUME NEW T, NEW n \in Nat, 0 \in T, \A k \in 0 .. n - 1 : k \in T => k + 1 \in T
  PROVE  \A k \in 0 .. n : k \in T
<1> DEFINE Wrong == {k \in 0 .. n : k \notin T}
<1>1. SUFFICES ASSUME Wrong # {} PROVE FALSE
  OBVIOUS
<1>2. Wrong \in SUBSET Nat
  OBVIOUS
<1>3. PICK k \in Wrong : \A j \in Wrong : k <= j
  <2> HIDE DEF Wrong
  <2>1. QED
    BY <1>1, <1>2, LeastNumber
<1>4. k # 0 /\ k \in 0 .. n /\ k \notin T
  OBVIOUS
<1>5. k - 1 \in 0 .. n - 1 /\ k - 1 \notin Wrong /\ k - 1 + 1 = k
  BY <1>3, <1>4
<1>6. k - 1 \in T
  BY <1>5
<1>7. QED
  BY <1>4, <1>5, <1>6

(* r holds what n applications of F make of x, one after the other.        *)
Iterates(F, x, n, r) ==
  r = [i \in 0 .. n |-> IF i = 0 THEN x ELSE F[<<i, r[i - 1]>>]]

LEMMA IteratesExist ==
  ASSUME NEW A, NEW F \in [Nat \X A -> A], NEW x \in A, NEW n \in Nat
  PROVE  \E r \in [0 .. n -> A] : Iterates(F, x, n, r)
<1> DEFINE T == {m \in Nat : \E r \in [0 .. m -> A] : Iterates(F, x, m, r)}
<1>1. 0 \in T
  <2> DEFINE g == [i \in 0 .. 0 |-> x]
  <2>1. g \in [0 .. 0 -> A] /\ Iterates(F, x, 0, g)
    BY DEF Iterates
  <2>2. QED
    BY <2>1
<1>2. ASSUME NEW m \in Nat, m \in T PROVE m + 1 \in T
  <2>1. PICK r \in [0 .. m -> A] : Iterates(F, x, m, r)
    BY <1>2
  <2> DEFINE g == [i \in 0 .. m + 1 |-> IF i = m + 1 THEN F[<<m + 1, r[m]>>] ELSE r[i]]
  <2>2. g \in [0 .. m + 1 -> A]
    <3>1. <<m + 1, r[m]>> \in Nat \X A
      OBVIOUS
    <3>2. F[<<m + 1, r[m]>>] \in A
      BY <3>1
    <3>3. QED
      BY <3>2
  <2>3. ASSUME NEW i \in 0 .. m + 1
        PROVE  g[i] = IF i = 0 THEN x ELSE F[<<i, g[i - 1]>>]
    <3>1. CASE i = m + 1
      <4>1. g[i] = F[<<i, r[m]>>] /\ i # 0 /\ i - 1 = m
        BY <3>1
      <4>2. g[m] = r[m]
        OBVIOUS
      <4>3. QED
        BY <4>1, <4>2
    <3>2. CASE i \in 0 .. m
      <4>1. g[i] = r[i]
        BY <3>2
      <4>2. r[i] = IF i = 0 THEN x ELSE F[<<i, r[i - 1]>>]
        BY <2>1, <3>2 DEF Iterates
      <4>3. i # 0 => g[i - 1] = r[i - 1]
        BY <3>2
      <4>4. QED
        BY <4>1, <4>2, <4>3
    <3>3. QED
      BY <3>1, <3>2
  <2>4. Iterates(F, x, m + 1, g)
    <3> HIDE DEF g
    <3>1. g = [i \in 0 .. m + 1 |-> g[i]]
      BY <2>2
    <3>2. QED
      BY <2>3, <3>1 DEF Iterates
  <2> HIDE DEF g
  <2>5. QED
    BY <2>2, <2>4
<1>3. \A k \in 0 .. n : k \in T
  <2>1. \A k \in 0 .. n - 1 : k \in T => k + 1 \in T
    BY <1>2
  <2> HIDE DEF T
  <2>2. QED
    BY <1>1, <2>1, UpTo
<1>4. QED
  BY <1>3

-----------------------------------------------------------------------------
(* How often a value is in a sequence.                                     *)

LEMMA CountType ==
  ASSUME NEW q, Len(q) \in Nat, NEW v
  PROVE  IsFiniteSet(Where(q, v)) /\ Count(q, v) \in Nat
<1>1. IsFiniteSet(1 .. Len(q)) /\ Where(q, v) \subseteq 1 .. Len(q)
  BY FS_Interval DEF Where
<1>2. IsFiniteSet(Where(q, v))
  BY <1>1, FS_Subset
<1>3. QED
  BY <1>2, FS_CardinalityType DEF Count

LEMMA CountEmpty ==
  ASSUME NEW v
  PROVE  Where(<<>>, v) = {} /\ Count(<<>>, v) = 0
<1>1. Where(<<>>, v) = {}
  BY DEF Where
<1>2. QED
  BY <1>1, FS_EmptySet DEF Count

One(x, v) == IF x = v THEN 1 ELSE 0

LEMMA CountAppend ==
  ASSUME NEW N, NEW q \in Seq(N), NEW x, NEW v
  PROVE  Count(Append(q, x), v) = Count(q, v) + One(x, v)
<1> DEFINE r == Append(q, x)
           n == Len(q)
<1>1. n \in Nat /\ Len(r) = n + 1 /\ r[n + 1] = x /\ \A i \in 1 .. n : r[i] = q[i]
  OBVIOUS
<1> HIDE DEF r
<1>2. IsFiniteSet(Where(q, v)) /\ Count(q, v) \in Nat
  BY <1>1, CountType
<1>3. CASE x = v
  <2>1. Where(r, v) = Where(q, v) \cup {n + 1} /\ n + 1 \notin Where(q, v)
    BY <1>1, <1>3 DEF Where
  <2>2. QED
    BY <1>2, <1>3, <2>1, FS_AddElement DEF Count, One, r
<1>4. CASE x # v
  <2>1. Where(r, v) = Where(q, v)
    BY <1>1, <1>4 DEF Where
  <2>2. QED
    BY <1>2, <1>4, <2>1 DEF Count, One, r
<1>5. QED
  BY <1>3, <1>4

LEMMA PopBackIs ==
  ASSUME NEW N, NEW q \in Seq(N), q # <<>>
  PROVE  /\ PopBack(q) \in Seq(N) /\ Len(PopBack(q)) = Len(q) - 1
         /\ \A i \in 1 .. Len(q) - 1 : PopBack(q)[i] = q[i]
         /\ q[Len(q)] \in N /\ Len(q) \in Nat \ {0}
         /\ q = Append(PopBack(q), q[Len(q)])
<1> DEFINE n == Len(q)
           r == PopBack(q)
<1>1. n \in Nat \ {0} /\ q[n] \in N
  BY EmptySeq, ElementOfSeq
<1>2. r = SubSeq(q, 1, n - 1)
  BY DEF PopBack
<1>3. r \in Seq(N) /\ Len(r) = n - 1 /\ \A i \in 1 .. n - 1 : r[i] = q[i]
  <2> DEFINE m == n - 1
  <2>1. m \in Nat /\ m <= Len(q)
    BY <1>1
  <2> HIDE DEF m, r, n
  <2>2. /\ r \in Seq(N) /\ Len(r) = IF 1 <= m THEN m - 1 + 1 ELSE 0
        /\ \A j \in 1 .. m - 1 + 1 : r[j] = q[1 + j - 1]
    BY <1>2, <2>1, SubSeqIs DEF m
  <2>3. QED
    BY <2>1, <2>2 DEF m
<1> HIDE DEF r
<1>4. q = Append(r, q[n])
  <2> DEFINE t == Append(r, q[n])
  <2>1. t \in Seq(N) /\ Len(t) = n /\ \A i \in 1 .. n : t[i] = q[i]
    BY <1>1, <1>3
  <2> HIDE DEF t
  <2>2. q = t
    BY <2>1, SeqEqual
  <2>3. QED
    BY <2>2 DEF t
<1>5. QED
  BY <1>1, <1>3, <1>4 DEF r

LEMMA CountPopBack ==
  ASSUME NEW N, NEW q \in Seq(N), q # <<>>, NEW v
  PROVE  Count(q, v) = Count(PopBack(q), v) + One(q[Len(q)], v)
<1> DEFINE r == PopBack(q)
           x == q[Len(q)]
<1>1. r \in Seq(N) /\ q = Append(r, x)
  BY PopBackIs
<1> HIDE DEF r, x
<1>2. Count(Append(r, x), v) = Count(r, v) + One(x, v)
  BY <1>1, CountAppend
<1>3. QED
  BY <1>1, <1>2 DEF r, x

LEMMA CountRenumbers ==
  ASSUME NEW q, NEW r, NEW f, NEW g, Renumbers(q, r, f, g), NEW v
  PROVE  Count(r, v) = Count(q, v)
<1> DEFINE A == Where(r, v)
           B == Where(q, v)
           h == [i \in A |-> f[i]]
<1>1. Len(r) = Len(q) /\ Len(q) \in Nat
  BY DEF Renumbers
<1>2. h \in [A -> B]
  BY <1>1 DEF Where, Renumbers
<1>3. \A i, j \in A : h[i] = h[j] => i = j
  <2>1. \A i \in A : g[h[i]] = i
    BY <1>1 DEF Where, Renumbers
  <2>2. QED
    BY <2>1
<1>4. ASSUME NEW k \in B PROVE \E i \in A : h[i] = k
  <2>1. g[k] \in A /\ f[g[k]] = k
    BY <1>1 DEF Where, Renumbers
  <2>2. QED
    BY <2>1
<1> HIDE DEF h
<1>5. h \in Bijection(A, B)
  BY <1>2, <1>3, <1>4 DEF Bijection, Injection, Surjection, IsInjective
<1>6. IsFiniteSet(A)
  BY <1>1, CountType
<1>7. QED
  BY <1>5, <1>6, FS_Bijection DEF Count, ExistsBijection

LEMMA CountRotated ==
  ASSUME NEW N, NEW q \in Seq(N), NEW v
  PROVE  /\ RotateLeft(q) \in Seq(N) /\ Count(RotateLeft(q), v) = Count(q, v)
         /\ RotateRight(q) \in Seq(N) /\ Count(RotateRight(q), v) = Count(q, v)
<1>1. CASE q = <<>>
  BY <1>1 DEF RotateLeft, RotateRight
<1>2. CASE q # <<>>
  BY <1>2, RotateLeftKeeps, RotateRightKeeps, CountRenumbers
<1>3. QED
  BY <1>1, <1>2

LEMMA CountReversed ==
  ASSUME NEW N, NEW q \in Seq(N), NEW v
  PROVE  Reverse(q) \in Seq(N) /\ Count(Reverse(q), v) = Count(q, v)
<1> DEFINE r == Reverse(q)
           n == Len(q)
           f == [i \in 1 .. n |-> n - i + 1]
<1>1. n \in Nat /\ \A i \in 1 .. n : q[i] \in N
  BY LenProperties, ElementOfSeq
<1>2. r = [i \in 1 .. n |-> q[n - i + 1]]
  BY DEF Reverse
<1>3. r \in Seq(N) /\ Len(r) = n
  <2>1. \A i \in 1 .. n : q[n - i + 1] \in N
    BY <1>1
  <2> HIDE DEF r, n
  <2>2. QED
    BY <1>1, <1>2, <2>1
<1>4. f \in [1 .. n -> 1 .. n]
  BY <1>1
<1>5. \A j \in 1 .. n : r[j] = q[f[j]] /\ f[f[j]] = j
  BY <1>1, <1>2
<1> HIDE DEF f, r
<1>6. Renumbers(q, r, f, f)
  BY <1>1, <1>3, <1>4, <1>5 DEF Renumbers
<1>7. QED
  BY <1>3, <1>6, CountRenumbers DEF r

(* r holds q and what each of n rotations by Op makes of it.               *)
Lefts(q, n, r) == r = [i \in 0 .. n |-> IF i = 0 THEN q ELSE RotateLeft(r[i - 1])]
Rights(q, n, r) == r = [i \in 0 .. n |-> IF i = 0 THEN q ELSE RotateRight(r[i - 1])]

LEMMA RotationsExist ==
  ASSUME NEW N, NEW q \in Seq(N), NEW n \in Nat
  PROVE  (\E r : Lefts(q, n, r)) /\ (\E r : Rights(q, n, r))
<1> DEFINE A == Seq(N)
           F == [p \in Nat \X A |-> RotateLeft(p[2])]
           G == [p \in Nat \X A |-> RotateRight(p[2])]
<1>1. ASSUME NEW p \in A PROVE RotateLeft(p) \in A /\ RotateRight(p) \in A
  BY CountRotated
<1>2. F \in [Nat \X A -> A] /\ G \in [Nat \X A -> A]
  BY <1>1
<1>3. ASSUME NEW i \in Nat, NEW p \in A
      PROVE  F[<<i, p>>] = RotateLeft(p) /\ G[<<i, p>>] = RotateRight(p)
  OBVIOUS
<1> HIDE DEF A, F, G
<1>4. \E r : Lefts(q, n, r)
  <2>1. PICK r \in [0 .. n -> A] : Iterates(F, q, n, r)
    BY <1>2, IteratesExist DEF A
  <2>2. \A i \in 0 .. n : r[i] = IF i = 0 THEN q ELSE RotateLeft(r[i - 1])
    BY <1>3, <2>1 DEF Iterates
  <2>3. Lefts(q, n, r)
    BY <2>1, <2>2 DEF Lefts
  <2>4. QED
    BY <2>3
<1>5. \E r : Rights(q, n, r)
  <2>1. PICK r \in [0 .. n -> A] : Iterates(G, q, n, r)
    BY <1>2, IteratesExist DEF A
  <2>2. \A i \in 0 .. n : r[i] = IF i = 0 THEN q ELSE RotateRight(r[i - 1])
    BY <1>3, <2>1 DEF Iterates
  <2>3. Rights(q, n, r)
    BY <2>1, <2>2 DEF Rights
  <2>4. QED
    BY <2>3
<1>6. QED
  BY <1>4, <1>5

(* What the iterates are, one after the other.                             *)
LEMMA LeftsAre ==
  ASSUME NEW N, NEW q \in Seq(N), NEW n \in Nat, NEW r, Lefts(q, n, r), NEW v
  PROVE  /\ r[0] = q
         /\ \A i \in 0 .. n - 1 : r[i + 1] = RotateLeft(r[i])
         /\ \A i \in 0 .. n : r[i] \in Seq(N) /\ Len(r[i]) = Len(q) /\ Count(r[i], v) = Count(q, v)
<1>1. \A i \in 0 .. n : r[i] = IF i = 0 THEN q ELSE RotateLeft(r[i - 1])
  BY DEF Lefts
<1>2. r[0] = q
  BY <1>1
<1>3. ASSUME NEW i \in 0 .. n - 1 PROVE r[i + 1] = RotateLeft(r[i])
  <2>1. i + 1 \in 0 .. n /\ i + 1 # 0 /\ i + 1 - 1 = i
    OBVIOUS
  <2>2. QED
    BY <1>1, <2>1
<1> DEFINE Right(p) == p \in Seq(N) /\ Len(p) = Len(q) /\ Count(p, v) = Count(q, v)
           T == {i \in Nat : Right(r[i])}
<1>4. ASSUME NEW p, Right(p) PROVE Right(RotateLeft(p))
  <2>1. CASE p = <<>>
    BY <1>4, <2>1 DEF RotateLeft
  <2>2. CASE p # <<>>
    BY <1>4, <2>2, CountRotated, RotateLeftKeeps
  <2>3. QED
    BY <2>1, <2>2
<1>5. \A i \in 0 .. n : i \in T
  <2>1. 0 \in T
    BY <1>2
  <2> HIDE DEF Right
  <2>2. \A i \in 0 .. n - 1 : i \in T => i + 1 \in T
    BY <1>3, <1>4
  <2> HIDE DEF T
  <2>3. QED
    BY <2>1, <2>2, UpTo
<1>6. QED
  BY <1>2, <1>3, <1>5

LEMMA RightsAre ==
  ASSUME NEW N, NEW q \in Seq(N), NEW n \in Nat, NEW r, Rights(q, n, r), NEW v
  PROVE  /\ r[0] = q
         /\ \A i \in 0 .. n - 1 : r[i + 1] = RotateRight(r[i])
         /\ \A i \in 0 .. n : r[i] \in Seq(N) /\ Len(r[i]) = Len(q) /\ Count(r[i], v) = Count(q, v)
<1>1. \A i \in 0 .. n : r[i] = IF i = 0 THEN q ELSE RotateRight(r[i - 1])
  BY DEF Rights
<1>2. r[0] = q
  BY <1>1
<1>3. ASSUME NEW i \in 0 .. n - 1 PROVE r[i + 1] = RotateRight(r[i])
  <2>1. i + 1 \in 0 .. n /\ i + 1 # 0 /\ i + 1 - 1 = i
    OBVIOUS
  <2>2. QED
    BY <1>1, <2>1
<1> DEFINE Right(p) == p \in Seq(N) /\ Len(p) = Len(q) /\ Count(p, v) = Count(q, v)
           T == {i \in Nat : Right(r[i])}
<1>4. ASSUME NEW p, Right(p) PROVE Right(RotateRight(p))
  <2>1. CASE p = <<>>
    BY <1>4, <2>1 DEF RotateRight
  <2>2. CASE p # <<>>
    BY <1>4, <2>2, CountRotated, RotateRightKeeps
  <2>3. QED
    BY <2>1, <2>2
<1>5. \A i \in 0 .. n : i \in T
  <2>1. 0 \in T
    BY <1>2
  <2> HIDE DEF Right
  <2>2. \A i \in 0 .. n - 1 : i \in T => i + 1 \in T
    BY <1>3, <1>4
  <2> HIDE DEF T
  <2>3. QED
    BY <2>1, <2>2, UpTo
<1>6. QED
  BY <1>2, <1>3, <1>5

LEMMA TimesAre ==
  ASSUME NEW N, NEW q \in Seq(N), NEW c \in Int
  PROVE  LET n == Natural(c)
         IN /\ n \in Nat
            /\ \E r : Lefts(q, n, r) /\ LeftTimes(q, c) = r[n]
            /\ \E r : Rights(q, n, r) /\ RightTimes(q, c) = r[n]
<1> DEFINE n == Natural(c)
           left == CHOOSE r : Lefts(q, n, r)
           right == CHOOSE r : Rights(q, n, r)
<1>1. n \in Nat
  BY DEF Natural
<1>2. LeftTimes(q, c) = left[n] /\ RightTimes(q, c) = right[n]
  BY DEF LeftTimes, RightTimes, Lefts, Rights
<1>3. Lefts(q, n, left) /\ Rights(q, n, right)
  <2> HIDE DEF n
  <2>1. QED
    BY <1>1, RotationsExist
<1> HIDE DEF left, right
<1>4. QED
  BY <1>1, <1>2, <1>3

(* The counted rotations keep a stack's values, and its depth.             *)
LEMMA TimesKeep ==
  ASSUME NEW N, NEW q \in Seq(N), NEW c \in Int, NEW v
  PROVE  /\ LeftTimes(q, c) \in Seq(N) /\ Len(LeftTimes(q, c)) = Len(q)
         /\ Count(LeftTimes(q, c), v) = Count(q, v)
         /\ RightTimes(q, c) \in Seq(N) /\ Len(RightTimes(q, c)) = Len(q)
         /\ Count(RightTimes(q, c), v) = Count(q, v)
<1> DEFINE n == Natural(c)
<1>1. n \in Nat
  BY TimesAre
<1>2. PICK r : Lefts(q, n, r) /\ LeftTimes(q, c) = r[n]
  BY TimesAre
<1>3. PICK s : Rights(q, n, s) /\ RightTimes(q, c) = s[n]
  BY TimesAre
<1> HIDE DEF n
<1>4. n \in 0 .. n
  BY <1>1
<1>5. QED
  BY <1>1, <1>2, <1>3, <1>4, LeftsAre, RightsAre

LEMMA RotateRightIs ==
  ASSUME NEW N, NEW q \in Seq(N), q # <<>>
  PROVE  /\ RotateRight(q) \in Seq(N) /\ Len(RotateRight(q)) = Len(q) /\ Len(q) \in Nat \ {0}
         /\ RotateRight(q)[1] = q[Len(q)]
         /\ \A i \in 2 .. Len(q) : RotateRight(q)[i] = q[i - 1]
<1> DEFINE r == RotateRight(q)
           front == PopBack(q)
           x == q[Len(q)]
<1>1. r = <<x>> \o front
  BY DEF RotateRight, PopBack
<1>2. front \in Seq(N) /\ Len(front) = Len(q) - 1 /\ x \in N /\ Len(q) \in Nat \ {0}
      /\ \A i \in 1 .. Len(q) - 1 : front[i] = q[i]
  BY PopBackIs
<1> HIDE DEF r, front, x
<1>3. r \in Seq(N) /\ Len(r) = Len(q) /\ r[1] = x
      /\ \A i \in 2 .. Len(q) : r[i] = front[i - 1]
  BY <1>1, <1>2
<1>4. \A i \in 2 .. Len(q) : r[i] = q[i - 1]
  BY <1>2, <1>3
<1>5. QED
  BY <1>2, <1>3, <1>4 DEF r, x

LEMMA LeftOfRight ==
  ASSUME NEW N, NEW q \in Seq(N), q # <<>>
  PROVE  RotateLeft(RotateRight(q)) = q
<1> DEFINE r == RotateRight(q)
           l == RotateLeft(r)
           n == Len(q)
<1>1. /\ r \in Seq(N) /\ Len(r) = n /\ n \in Nat \ {0} /\ r[1] = q[n]
      /\ \A i \in 2 .. n : r[i] = q[i - 1]
  BY RotateRightIs
<1> HIDE DEF r
<1>2. r # <<>>
  BY <1>1
<1>3. l \in Seq(N) /\ Len(l) = n /\ \A i \in 1 .. n : l[i] = r[IF i = n THEN 1 ELSE i + 1]
  BY <1>1, <1>2, RotateLeftIs
<1> HIDE DEF l
<1>4. ASSUME NEW i \in 1 .. n PROVE l[i] = q[i]
  <2>1. CASE i = n
    BY <1>1, <1>3, <2>1
  <2>2. CASE i # n
    <3>1. i + 1 \in 2 .. n /\ i + 1 - 1 = i
      BY <1>1, <2>2
    <3>2. l[i] = r[i + 1]
      BY <1>3, <2>2
    <3>3. QED
      BY <1>1, <3>1, <3>2
  <2>3. QED
    BY <2>1, <2>2
<1>5. l = q
  BY <1>3, <1>4, SeqEqual
<1>6. QED
  BY <1>5 DEF l, r

(* t is u with x in place o.                                               *)
Differs(t, u, o, x) == t = [u EXCEPT ![o] = x]

(* A stack that differs from another in one place still does so when both  *)
(* are rotated.                                                            *)
LEMMA LeftOfChanged ==
  ASSUME NEW N, NEW q \in Seq(N), NEW o \in 1 .. Len(q), NEW x \in N,
         NEW c, Differs(c, q, o, x)
  PROVE  \E p \in 1 .. Len(q) : Differs(RotateLeft(c), RotateLeft(q), p, x)
<1> DEFINE n == Len(q)
           l == RotateLeft(q)
           d == RotateLeft(c)
           p == IF o = 1 THEN n ELSE o - 1
           e == [l EXCEPT ![p] = x]
<1>1. n \in Nat \ {0} /\ q # <<>> /\ p \in 1 .. n
  BY LenProperties
<1>2. c \in Seq(N) /\ Len(c) = n /\ \A j \in 1 .. n : c[j] = IF j = o THEN x ELSE q[j]
  BY ExceptSeq DEF Differs
<1>3. c # <<>>
  BY <1>1, <1>2
<1>4. l \in Seq(N) /\ Len(l) = n /\ \A i \in 1 .. n : l[i] = q[IF i = n THEN 1 ELSE i + 1]
  BY <1>1, RotateLeftIs
<1>5. d \in Seq(N) /\ Len(d) = n /\ \A i \in 1 .. n : d[i] = c[IF i = n THEN 1 ELSE i + 1]
  BY <1>2, <1>3, RotateLeftIs
<1> HIDE DEF l, d, p
<1>6. e \in Seq(N) /\ Len(e) = n /\ \A j \in 1 .. n : e[j] = IF j = p THEN x ELSE l[j]
  BY <1>1, <1>4, ExceptSeq
<1> HIDE DEF e
<1>7. ASSUME NEW i \in 1 .. n PROVE d[i] = e[i]
  <2> DEFINE j == IF i = n THEN 1 ELSE i + 1
  <2>1. j \in 1 .. n /\ (j = o <=> i = p)
    BY <1>1 DEF p
  <2>2. d[i] = c[j] /\ l[i] = q[j]
    BY <1>4, <1>5
  <2> HIDE DEF j
  <2>3. QED
    BY <1>2, <1>6, <2>1, <2>2
<1>8. d = e
  BY <1>5, <1>6, <1>7, SeqEqual
<1>9. QED
  BY <1>1, <1>8 DEF d, e, l, Differs

(* Rotated right, its top exchanged, rotated back: one place is exchanged. *)
LEMMA ThereAndBack ==
  ASSUME NEW N, NEW q \in Seq(N), q # <<>>, NEW c \in Int, NEW x \in N,
         NEW t \in Seq(N), Differs(t, RightTimes(q, c), Len(q), x)
  PROVE  \E o \in 1 .. Len(q) : Differs(LeftTimes(t, c), q, o, x)
<1> DEFINE n == Natural(c)
           L == Len(q)
<1>1. n \in Nat
  BY TimesAre
<1>2. PICK r : Rights(q, n, r) /\ RightTimes(q, c) = r[n]
  BY TimesAre
<1>3. PICK l : Lefts(t, n, l) /\ LeftTimes(t, c) = l[n]
  BY TimesAre
<1> HIDE DEF n
<1>4. /\ r[0] = q
      /\ \A i \in 0 .. n - 1 : r[i + 1] = RotateRight(r[i])
      /\ \A i \in 0 .. n : r[i] \in Seq(N) /\ Len(r[i]) = L
  BY <1>1, <1>2, RightsAre
<1>5. /\ l[0] = t
      /\ \A i \in 0 .. n - 1 : l[i + 1] = RotateLeft(l[i])
      /\ \A i \in 0 .. n : l[i] \in Seq(N) /\ Len(l[i]) = Len(t)
  BY <1>1, <1>3, LeftsAre
<1>6. L \in Nat \ {0}
  BY EmptySeq
<1> DEFINE T == {i \in Nat : \E o \in 1 .. L : Differs(l[i], r[n - i], o, x)}
<1>7. 0 \in T
  <2>1. Differs(l[0], r[n - 0], L, x) /\ L \in 1 .. L
    BY <1>1, <1>2, <1>5, <1>6
  <2>2. QED
    BY <2>1
<1>8. ASSUME NEW i \in 0 .. n - 1, i \in T PROVE i + 1 \in T
  <2> DEFINE a == r[n - (i + 1)]
             b == r[n - i]
  <2>1. PICK o \in 1 .. L : Differs(l[i], b, o, x)
    BY <1>8
  <2>2. n - (i + 1) \in 0 .. n - 1 /\ n - (i + 1) + 1 = n - i /\ n - (i + 1) \in 0 .. n /\ n - i \in 0 .. n
    BY <1>1
  <2>3. b = RotateRight(a) /\ a \in Seq(N) /\ Len(a) = L /\ b \in Seq(N) /\ Len(b) = L
    BY <1>4, <2>2
  <2>4. l[i + 1] = RotateLeft(l[i])
    BY <1>5
  <2> HIDE DEF a, b
  <2>5. a # <<>>
    BY <1>6, <2>3
  <2>6. RotateLeft(b) = a
    BY <2>3, <2>5, LeftOfRight
  <2>7. \E p \in 1 .. Len(b) : Differs(RotateLeft(l[i]), RotateLeft(b), p, x)
    <3>1. o \in 1 .. Len(b)
      BY <2>3
    <3>2. QED
      BY <2>1, <2>3, <3>1, LeftOfChanged
  <2>8. \E p \in 1 .. L : Differs(l[i + 1], a, p, x)
    BY <2>3, <2>4, <2>6, <2>7
  <2>9. QED
    BY <2>8 DEF a
<1>9. n \in T
  <2> HIDE DEF T
  <2>1. \A i \in 0 .. n : i \in T
    BY <1>1, <1>7, <1>8, UpTo
  <2>2. QED
    BY <1>1, <2>1
<1>10. r[n - n] = q
  BY <1>1, <1>4
<1>11. QED
  BY <1>3, <1>9, <1>10

LEMMA NewTopIs ==
  ASSUME NEW N, NEW q \in Seq(N), q # <<>>, NEW x \in N, NEW v
  PROVE  LET t == Append(PopBack(q), x)
         IN /\ t \in Seq(N) /\ t = [q EXCEPT ![Len(q)] = x] /\ Len(t) = Len(q) /\ t # <<>>
            /\ Count(t, v) + One(q[Len(q)], v) = Count(q, v) + One(x, v)
<1> DEFINE f == PopBack(q)
           n == Len(q)
           t == Append(f, x)
           e == [q EXCEPT ![n] = x]
           top == q[n]
<1>1. f \in Seq(N) /\ Len(f) = n - 1 /\ (\A i \in 1 .. n - 1 : f[i] = q[i]) /\ n \in Nat \ {0}
  BY PopBackIs
<1>2. Count(q, v) = Count(f, v) + One(top, v)
  BY CountPopBack
<1>3. e \in Seq(N) /\ Len(e) = n /\ \A j \in 1 .. n : e[j] = IF j = n THEN x ELSE q[j]
  BY <1>1, ExceptSeq
<1> HIDE DEF f, e
<1>4. Count(t, v) = Count(f, v) + One(x, v)
  BY <1>1, CountAppend
<1>5. t \in Seq(N) /\ Len(t) = n /\ t # <<>> /\ \A i \in 1 .. n : t[i] = IF i = n THEN x ELSE f[i]
  <2> HIDE DEF n
  <2>1. t \in Seq(N) /\ Len(t) = Len(f) + 1
        /\ \A i \in 1 .. Len(f) + 1 : t[i] = IF i = Len(f) + 1 THEN x ELSE f[i]
    BY <1>1, AppendProperties
  <2> HIDE DEF t
  <2>2. Len(f) + 1 = n /\ n # 0
    BY <1>1
  <2>3. t # <<>>
    BY <2>1, <2>2, EmptySeq
  <2>4. QED
    BY <2>1, <2>2, <2>3
<1> HIDE DEF t
<1>6. t = e
  <2>1. \A i \in 1 .. n : t[i] = e[i]
    BY <1>1, <1>3, <1>5
  <2>2. QED
    BY <1>3, <1>5, <2>1, SeqEqual
<1>7. Count(f, v) \in Nat /\ One(x, v) \in Nat /\ One(top, v) \in Nat
  BY <1>1, CountType DEF One
<1> HIDE DEF top
<1>8. Count(t, v) + One(top, v) = Count(q, v) + One(x, v)
  BY <1>2, <1>4, <1>7
<1>9. QED
  BY <1>5, <1>6, <1>8 DEF t, f, e, top

(* The exchange swap makes beneath the top leaves the stack its values.    *)
LEMMA ExchangeKeeps ==
  ASSUME NEW N, NEW q \in Seq(N), q # <<>>, NEW c \in Int, NEW v
  PROVE  LET down == RightTimes(q, c)
             back == LeftTimes(Append(PopBack(down), q[Len(q)]), c)
             end == Append(PopBack(back), down[Len(down)])
         IN end \in Seq(N) /\ Count(end, v) = Count(q, v)
<1> DEFINE n == Len(q)
           top == q[n]
           down == RightTimes(q, c)
           other == down[Len(down)]
           two == Append(PopBack(down), top)
           back == LeftTimes(two, c)
           end == Append(PopBack(back), other)
<1>1. n \in Nat \ {0} /\ top \in N
  BY EmptySeq, ElementOfSeq
<1>2. down \in Seq(N) /\ Len(down) = n /\ Count(down, v) = Count(q, v)
  BY TimesKeep
<1> HIDE DEF top, down
<1>3. down # <<>> /\ other \in N
  BY <1>1, <1>2, EmptySeq, ElementOfSeq
<1>4. /\ two \in Seq(N) /\ two = [down EXCEPT ![n] = top] /\ Len(two) = n
      /\ Count(two, v) + One(other, v) = Count(down, v) + One(top, v)
  BY <1>1, <1>2, <1>3, NewTopIs
<1> HIDE DEF other, two
<1>5. back \in Seq(N) /\ Len(back) = n /\ Count(back, v) = Count(two, v)
  BY <1>4, TimesKeep
<1>6. PICK o \in 1 .. n : Differs(back, q, o, top)
  <2>1. Differs(two, RightTimes(q, c), Len(q), top)
    BY <1>4 DEF down, Differs
  <2>2. \E o \in 1 .. Len(q) : Differs(LeftTimes(two, c), q, o, top)
    BY <1>1, <1>4, <2>1, ThereAndBack
  <2>3. QED
    BY <2>2
<1> HIDE DEF back
<1>7. back[n] = top
  <2>1. back[n] = IF n = o THEN top ELSE q[n]
    BY <1>1, <1>6, ExceptSeq DEF Differs
  <2>2. QED
    BY <2>1 DEF top
<1>8. back # <<>>
  BY <1>1, <1>5
<1>9. end \in Seq(N) /\ Count(end, v) + One(top, v) = Count(back, v) + One(other, v)
  BY <1>3, <1>5, <1>7, <1>8, NewTopIs
<1> HIDE DEF end
<1>10. /\ Count(end, v) \in Nat /\ Count(back, v) \in Nat /\ Count(two, v) \in Nat
       /\ Count(down, v) \in Nat /\ Count(q, v) \in Nat
       /\ One(top, v) \in Nat /\ One(other, v) \in Nat
  BY <1>2, <1>4, <1>5, <1>9, LenProperties, CountType DEF One
<1>11. Count(end, v) = Count(q, v)
  BY <1>2, <1>4, <1>5, <1>9, <1>10
<1>12. QED
  BY <1>9, <1>11 DEF end, back, two, other, down, top

(* A push gives the stack a sequence again, and one more value if nothing  *)
(* limits it.                                                              *)
StacksOf(N, k) == [name : {k.name}, items : Seq(N), cap : {k.cap}]

LEMMA PushCounts ==
  ASSUME NEW N, NEW k, NEW l \in StacksOf(N, k), NEW x \in N, NEW v
  PROVE  /\ Push(l, x) \in StacksOf(N, k)
         /\ k.cap = {} => Count(Push(l, x).items, v) = Count(l.items, v) + One(x, v)
<1> DEFINE rest == IF IsFull(l) THEN PopBack(l.items) ELSE l.items
           q == Append(rest, x)
<1>1. l.items \in Seq(N) /\ l.cap = k.cap /\ l.name = k.name
      /\ l = [name |-> l.name, items |-> l.items, cap |-> l.cap]
  BY DEF StacksOf
<1>2. rest \in Seq(N)
  <2>1. PopBack(l.items) \in Seq(N)
    <3>1. CASE l.items = <<>>
      BY <1>1, <3>1 DEF PopBack
    <3>2. CASE l.items # <<>>
      BY <1>1, <3>2, PopBackIs
    <3>3. QED
      BY <3>1, <3>2
  <2>2. QED
    BY <1>1, <2>1
<1>3. k.cap = {} => rest = l.items
  BY <1>1 DEF IsFull
<1>4. Push(l, x) = [l EXCEPT !.items = q]
  BY DEF Push
<1> HIDE DEF rest
<1>5. q \in Seq(N) /\ Count(q, v) = Count(rest, v) + One(x, v)
  BY <1>2, CountAppend
<1> HIDE DEF q
<1>6. Push(l, x) = [name |-> l.name, items |-> q, cap |-> l.cap]
  BY <1>1, <1>4
<1>7. Push(l, x) \in StacksOf(N, k) /\ Push(l, x).items = q
  BY <1>1, <1>5, <1>6 DEF StacksOf
<1>8. QED
  BY <1>3, <1>5, <1>7

Pushes(k, q, r) == r = [i \in 0 .. Len(q) |-> IF i = 0 THEN k ELSE Push(r[i - 1], q[i])]

LEMMA PushesExist ==
  ASSUME NEW N, NEW k, k \in StacksOf(N, k), NEW q \in Seq(N)
  PROVE  \E r \in [0 .. Len(q) -> StacksOf(N, k)] : Pushes(k, q, r)
<1> DEFINE A == StacksOf(N, k)
           n == Len(q)
           F == [p \in Nat \X A |-> IF p[1] \in 1 .. n THEN Push(p[2], q[p[1]]) ELSE p[2]]
<1>1. n \in Nat /\ \A i \in 1 .. n : q[i] \in N
  BY LenProperties, ElementOfSeq
<1>2. ASSUME NEW p \in Nat \X A PROVE F[p] \in A
  <2>1. p[2] \in A /\ (p[1] \in 1 .. n => Push(p[2], q[p[1]]) \in A)
    <3>1. p[2] \in A
      OBVIOUS
    <3> HIDE DEF F
    <3>2. QED
      BY <1>1, <3>1, PushCounts
  <2>2. QED
    BY <2>1
<1>3. F \in [Nat \X A -> A]
  BY <1>2
<1>4. ASSUME NEW i \in 1 .. n, NEW l \in A PROVE F[<<i, l>>] = Push(l, q[i])
  BY <1>1
<1> HIDE DEF A, F, n
<1>5. PICK r \in [0 .. n -> A] : Iterates(F, k, n, r)
  BY <1>1, <1>3, IteratesExist DEF A
<1>6. \A i \in 0 .. n : r[i] = IF i = 0 THEN k ELSE Push(r[i - 1], q[i])
  <2>1. ASSUME NEW i \in 0 .. n PROVE r[i] = IF i = 0 THEN k ELSE Push(r[i - 1], q[i])
    <3>1. CASE i = 0
      BY <1>5, <3>1 DEF Iterates
    <3>2. CASE i # 0
      <4>1. i \in 1 .. n /\ i - 1 \in 0 .. n
        BY <1>1, <3>2
      <4>2. r[i] = F[<<i, r[i - 1]>>]
        BY <1>5, <3>2 DEF Iterates
      <4>3. r[i - 1] \in A
        BY <4>1
      <4>4. QED
        BY <1>4, <3>2, <4>1, <4>2, <4>3
    <3>3. QED
      BY <3>1, <3>2
  <2>2. QED
    BY <2>1
<1>7. Pushes(k, q, r)
  BY <1>5, <1>6 DEF Pushes, n
<1>8. QED
  BY <1>7 DEF A, n

LEMMA PrefixIs ==
  ASSUME NEW N, NEW q \in Seq(N), NEW i \in 0 .. Len(q) - 1
  PROVE  /\ SubSeq(q, 1, i) \in Seq(N)
         /\ SubSeq(q, 1, i + 1) = Append(SubSeq(q, 1, i), q[i + 1])
         /\ q[i + 1] \in N
<1> DEFINE a == SubSeq(q, 1, i)
           b == SubSeq(q, 1, i + 1)
           c == Append(a, q[i + 1])
<1>1. Len(q) \in Nat /\ q[i + 1] \in N
  BY LenProperties, ElementOfSeq
<1>2. a \in Seq(N) /\ Len(a) = i /\ \A j \in 1 .. i : a[j] = q[j]
  <2>1. a \in Seq(N) /\ Len(a) = (IF 1 <= i THEN i - 1 + 1 ELSE 0) /\ \A j \in 1 .. i - 1 + 1 : a[j] = q[1 + j - 1]
    BY <1>1, SubSeqIs
  <2> HIDE DEF a
  <2>2. QED
    BY <1>1, <2>1
<1>3. b \in Seq(N) /\ Len(b) = i + 1 /\ \A j \in 1 .. i + 1 : b[j] = q[j]
  <2> DEFINE m == i + 1
  <2>1. m \in Nat /\ 1 <= m /\ m <= Len(q)
    BY <1>1
  <2> HIDE DEF m
  <2>2. SubSeq(q, 1, m) \in Seq(N) /\ Len(SubSeq(q, 1, m)) = (IF 1 <= m THEN m - 1 + 1 ELSE 0)
        /\ \A j \in 1 .. m - 1 + 1 : SubSeq(q, 1, m)[j] = q[1 + j - 1]
    BY <1>1, <2>1, SubSeqIs
  <2>3. b = SubSeq(q, 1, m)
    BY DEF m
  <2> HIDE DEF b
  <2>4. QED
    BY <2>1, <2>2, <2>3 DEF m
<1> HIDE DEF a, b
<1>4. c \in Seq(N) /\ Len(c) = i + 1 /\ \A j \in 1 .. i + 1 : c[j] = q[j]
  BY <1>1, <1>2
<1> HIDE DEF c
<1>5. b = c
  BY <1>3, <1>4, SeqEqual
<1>6. QED
  BY <1>1, <1>2, <1>5 DEF a, b, c

(* Pushing a sequence gives the stack each of its values once more.        *)
LEMMA PushEachCounts ==
  ASSUME NEW N, NEW k, k \in StacksOf(N, k), NEW q \in Seq(N), NEW v
  PROVE  /\ PushEach(k, q) \in StacksOf(N, k)
         /\ k.cap = {} => Count(PushEach(k, q).items, v) = Count(k.items, v) + Count(q, v)
<1> DEFINE n == Len(q)
           A == StacksOf(N, k)
           r == CHOOSE f : Pushes(k, q, f)
<1>1. n \in Nat
  BY LenProperties
<1>2. PushEach(k, q) = [k EXCEPT !.items = r[n].items]
  BY DEF PushEach, Pushes
<1>3. Pushes(k, q, r)
  BY PushesExist
<1> HIDE DEF r
<1>4. r[0] = k /\ \A i \in 0 .. n - 1 : r[i + 1] = Push(r[i], q[i + 1])
  <2>1. \A i \in 0 .. n : r[i] = IF i = 0 THEN k ELSE Push(r[i - 1], q[i])
    BY <1>3 DEF Pushes
  <2>2. r[0] = k
    BY <1>1, <2>1
  <2>3. ASSUME NEW i \in 0 .. n - 1 PROVE r[i + 1] = Push(r[i], q[i + 1])
    <3>1. i + 1 \in 0 .. n /\ i + 1 # 0 /\ i + 1 - 1 = i
      BY <1>1
    <3>2. QED
      BY <2>1, <3>1
  <2>4. QED
    BY <2>2, <2>3
<1> DEFINE Right(i) == /\ r[i] \in A
                       /\ k.cap = {} => Count(r[i].items, v) = Count(k.items, v) + Count(SubSeq(q, 1, i), v)
           T == {i \in Nat : Right(i)}
<1>5. k.items \in Seq(N) /\ Count(k.items, v) \in Nat
  <2>1. k.items \in Seq(N)
    BY DEF StacksOf
  <2>2. QED
    BY <2>1, LenProperties, CountType
<1>6. 0 \in T
  <2> DEFINE p == SubSeq(q, 1, 0)
  <2>1. p = <<>>
    BY SubSeqEmpty
  <2> HIDE DEF p
  <2>2. Count(p, v) = 0
    BY <2>1, CountEmpty
  <2>3. r[0] \in A /\ Count(r[0].items, v) = Count(k.items, v) + Count(p, v)
    BY <1>4, <1>5, <2>2
  <2>4. Right(0)
    BY <2>3 DEF p
  <2>5. QED
    BY <2>4
<1>7. ASSUME NEW i \in 0 .. n - 1, i \in T PROVE i + 1 \in T
  <2> DEFINE l == r[i]
             m == r[i + 1]
             x == q[i + 1]
             p == SubSeq(q, 1, i)
  <2>1. p \in Seq(N) /\ SubSeq(q, 1, i + 1) = Append(p, x) /\ x \in N
    BY PrefixIs
  <2>2. l \in A /\ (k.cap = {} => Count(l.items, v) = Count(k.items, v) + Count(p, v))
    BY <1>7
  <2>3. m = Push(l, x)
    BY <1>4
  <2> HIDE DEF l, m, x, p
  <2>4. m \in A /\ (k.cap = {} => Count(m.items, v) = Count(l.items, v) + One(x, v))
    <3>1. l \in StacksOf(N, k)
      BY <2>2
    <3> HIDE DEF A
    <3>2. Push(l, x) \in StacksOf(N, k) /\ (k.cap = {} => Count(Push(l, x).items, v) = Count(l.items, v) + One(x, v))
      BY <2>1, <3>1, PushCounts
    <3>3. QED
      BY <2>3, <3>2 DEF A
  <2>5. Count(Append(p, x), v) = Count(p, v) + One(x, v) /\ Count(p, v) \in Nat /\ One(x, v) \in Nat
    BY <2>1, CountAppend, LenProperties, CountType DEF One
  <2>6. k.cap = {} => Count(m.items, v) = Count(k.items, v) + Count(Append(p, x), v)
    BY <1>5, <2>2, <2>4, <2>5
  <2>7. Right(i + 1)
    BY <2>1, <2>4, <2>6 DEF m, l, x, p
  <2>8. QED
    BY <1>1, <2>7
<1>8. Right(n)
  <2> HIDE DEF T
  <2> HIDE DEF n
  <2>1. \A i \in 0 .. n : i \in T
    BY <1>1, <1>6, <1>7, UpTo
  <2>2. n \in T
    BY <1>1, <2>1
  <2>3. QED
    BY <2>2 DEF T
<1>9. SubSeq(q, 1, n) = q
  BY SubSeqFull
<1> DEFINE z == r[n]
<1>10. z.items \in Seq(N)
  BY <1>8 DEF StacksOf
<1>11. k.cap = {} => Count(z.items, v) = Count(k.items, v) + Count(q, v)
  BY <1>8, <1>9
<1> HIDE DEF z
<1>12. PushEach(k, q) = [k EXCEPT !.items = z.items]
  BY <1>2 DEF z
<1>13. k = [name |-> k.name, items |-> k.items, cap |-> k.cap]
  BY DEF StacksOf
<1>14. PushEach(k, q) = [name |-> k.name, items |-> z.items, cap |-> k.cap]
  BY <1>12, <1>13
<1>15. QED
  BY <1>10, <1>11, <1>14 DEF StacksOf

-----------------------------------------------------------------------------
(* What the operations do to each stack, one that is not there counting as *)
(* an empty one of its name.                                               *)

At(s, n) == IF Has(s, n) THEN Get(s, n) ELSE NamedStack(n)

Alike(s, t) == \A n : At(t, n) = At(s, n)

(* t is s with the stack k for n.                                          *)
Alters(s, t, n, k) == \A m : At(t, m) = IF m = n THEN k ELSE At(s, m)

LEMMA AtIs ==
  ASSUME NEW N, NEW s, Good(N, s), NEW n
  PROVE  IsRecord(At(s, n)) /\ At(s, n).name = n
BY GetIs DEF At, NamedStack, IsRecord

LEMMA AddAlike ==
  ASSUME NEW N, NEW s, Good(N, s), NEW n \in N, ~Has(s, n)
  PROVE  Alike(s, AddAsCurrent(Create(s, n), n))
<1> DEFINE t == AddAsCurrent(Create(s, n), n)
<1>1. /\ StackNames(t) = StackNames(s) \cup {n} /\ t.current.name = n
      /\ Spares(s, t, {}) /\ t.current = NamedStack(n)
  BY AddKeeps, AddSpares
<1> HIDE DEF t
<1>2. ASSUME NEW m PROVE At(t, m) = At(s, m)
  <2>1. CASE m = n
    BY <1>1, <2>1 DEF At, Has, Get
  <2>2. CASE m \in StackNames(s)
    BY <1>1, <2>2 DEF At, Has, Spares
  <2>3. CASE m # n /\ m \notin StackNames(s)
    BY <1>1, <2>3 DEF At, Has
  <2>4. QED
    BY <2>1, <2>2, <2>3
<1>3. QED
  BY <1>2 DEF Alike, t

LEMMA SparedAlike ==
  ASSUME NEW s, NEW t, Spares(s, t, {}), StackNames(t) = StackNames(s)
  PROVE  Alike(s, t)
BY DEF Alike, At, Has, Spares

LEMMA SwitchAlike ==
  ASSUME NEW N, NEW s, Good(N, s), NEW n \in N
  PROVE  Alike(s, ToStack(s, n)) /\ Alike(s, EnsureStack(s, n))
<1>1. ItemsOf(s.order) = StackNames(s)
  BY DEF Good, RingIsTheStacks
<1>2. CASE ~Has(s, n)
  <2>1. Create(s, n).order = s.order
    BY <1>2 DEF Create, Good
  <2>2. ToStack(s, n) = AddAsCurrent(Create(s, n), n)
    BY <1>1, <1>2, <2>1 DEF ToStack, Has
  <2>3. EnsureStack(s, n) = AddAsCurrent(Create(s, n), n)
    BY <1>1, <1>2, <2>1 DEF EnsureStack, Has
  <2>4. QED
    BY <1>2, <2>2, <2>3, AddAlike
<1>3. CASE Has(s, n)
  <2>1. EnsureStack(s, n) = s
    BY <1>1, <1>3 DEF EnsureStack, Create, Has
  <2>2. StackNames(ToStack(s, n)) = StackNames(s)
    BY <1>3, ToStackKeeps DEF Has
  <2>3. Alike(s, ToStack(s, n))
    BY <2>2, ToStackSpares, SparedAlike
  <2>4. QED
    BY <2>1, <2>3 DEF Alike
<1>4. QED
  BY <1>2, <1>3

LEMMA TurnAlike ==
  ASSUME NEW N, NEW s, Good(N, s)
  PROVE  Alike(s, RotateStacksLeft(s)) /\ Alike(s, RotateStacksRight(s))
<1>1. ASSUME NEW q \in Seq(N), q # <<>>, ItemsOf(q) = ItemsOf(s.order), Distinct(q)
      PROVE  Alike(s, TurnRing(s, q))
  <2> DEFINE t == Resettled(s, q)
  <2>1. Good(N, t) /\ Alike(s, t)
    BY <1>1, SettleKeeps, SettleSpares, SparedAlike
  <2>2. TurnRing(s, q) \in {s, BumpEpoch(t)}
    BY DEF TurnRing, Resettled
  <2> HIDE DEF t
  <2> DEFINE b == BumpEpoch(t)
  <2>3. Alike(s, b)
    <3>1. b.current = t.current /\ b.others = t.others /\ StackNames(b) = StackNames(t)
      BY <2>1, BumpKeeps
    <3> HIDE DEF b
    <3>2. ASSUME NEW n PROVE At(b, n) = At(t, n)
      BY <3>1 DEF At, Has, Get
    <3>3. QED
      BY <2>1, <3>2 DEF Alike
  <2>4. Alike(s, s)
    BY DEF Alike
  <2>5. QED
    BY <2>2, <2>3, <2>4
<1>2. s.order \in Seq(N) /\ s.order # <<>> /\ Distinct(s.order)
  BY DEF Good, RingIsTheStacks
<1>3. Alike(s, RotateStacksLeft(s))
  <2> DEFINE q == RotateLeft(s.order)
  <2>1. q \in Seq(N) /\ Len(q) = Len(s.order) /\ ItemsOf(q) = ItemsOf(s.order) /\ Distinct(q)
    BY <1>2, RotateLeftKeeps
  <2> HIDE DEF q
  <2>2. q # <<>>
    BY <1>2, <2>1, EmptySeq
  <2>3. QED
    BY <1>1, <2>1, <2>2 DEF RotateStacksLeft, q
<1>4. Alike(s, RotateStacksRight(s))
  <2> DEFINE q == RotateRight(s.order)
  <2>1. q \in Seq(N) /\ Len(q) = Len(s.order) /\ ItemsOf(q) = ItemsOf(s.order) /\ Distinct(q)
    BY <1>2, RotateRightKeeps
  <2> HIDE DEF q
  <2>2. q # <<>>
    BY <1>2, <2>1, EmptySeq
  <2>3. QED
    BY <1>1, <2>1, <2>2 DEF RotateStacksRight, q
<1>5. QED
  BY <1>3, <1>4

LEMMA PutAlters ==
  ASSUME NEW N, NEW s, Good(N, s), NEW n, Has(s, n), NEW k, IsRecord(k), k.name = n
  PROVE  Alters(s, Put(s, n, k), n, k)
<1> DEFINE t == Put(s, n, k)
<1>1. CASE n = s.current.name
  <2>1. t.current = k /\ t.others = s.others
    BY <1>1 DEF Put, Good
  <2> HIDE DEF t
  <2>2. Alters(s, t, n, k)
    BY <1>1, <2>1 DEF Alters, At, Has, Get, StackNames
  <2>3. QED
    BY <2>2 DEF t
<1>2. CASE n # s.current.name
  <2>1. n \in DOMAIN s.others
    BY <1>2 DEF Has, StackNames
  <2>2. t = [s EXCEPT !.others[n] = k]
    BY <1>2, <2>1 DEF Put
  <2>3. /\ t.current = s.current /\ DOMAIN t.others = DOMAIN s.others
        /\ \A m \in DOMAIN s.others : t.others[m] = IF m = n THEN k ELSE s.others[m]
    BY <2>1, <2>2 DEF Good
  <2> HIDE DEF t
  <2>4. Alters(s, t, n, k)
    BY <1>2, <2>1, <2>3 DEF Alters, At, Has, Get, StackNames
  <2>5. QED
    BY <2>4 DEF t
<1>3. QED
  BY <1>1, <1>2

LEMMA OnCurrentAlters ==
  ASSUME NEW N, NEW s, Good(N, s), NEW k, IsRecord(k), k.name = s.current.name
  PROVE  Alters(s, OnCurrent(s, k), k.name, k)
<1>1. OnCurrent(s, k) = Put(s, k.name, k) /\ Has(s, k.name)
  BY DEF OnCurrent, Put, Has, StackNames
<1>2. QED
  BY <1>1, PutAlters

(* A dropped stack is an empty one; the others stay.                       *)
LEMMA DropAlters ==
  ASSUME NEW N, NEW s, Good(N, s), NEW fresh \in N,
         fresh \notin StackNames(s) \/ Len(s.order) > 1
  PROVE  Alters(s, DropNamed(s, s.current.name, fresh), s.current.name, NamedStack(s.current.name))
<1> DEFINE n == s.current.name
           kept == Retain(s.order, n)
           q == IF kept = <<>> THEN <<fresh>> ELSE kept
           gone == [s EXCEPT !.others = Delete(@, n), !.order = q]
           t == Settle(gone, FALSE)
<1>1. /\ kept \in Seq(N) /\ ItemsOf(kept) = DOMAIN s.others /\ n \notin DOMAIN s.others
  <2>1. StackNames(s) \ {n} = DOMAIN s.others
    BY DEF Good, RingIsTheStacks, StackNames
  <2>2. QED
    BY <2>1, RetainKeeps DEF Good, RingIsTheStacks
<1>2. q # <<>> /\ (q[1] \in DOMAIN s.others \/ DOMAIN s.others = {})
  <2>1. CASE kept # <<>>
    <3>1. kept[1] \in ItemsOf(kept)
      BY <1>1, <2>1, LenProperties, EmptySeq DEF ItemsOf
    <3>2. QED
      BY <1>1, <2>1, <3>1
  <2>2. CASE kept = <<>>
    <3>1. ItemsOf(kept) = {}
      BY <2>2 DEF ItemsOf
    <3>2. QED
      BY <1>1, <2>2, <3>1
  <2>3. QED
    BY <2>1, <2>2
<1>3. q[1] # n
  <2>1. CASE q[1] \in DOMAIN s.others
    BY <1>1, <2>1
  <2>2. CASE DOMAIN s.others = {}
    <3>1. kept = <<>>
      BY <1>1, <2>2, LenProperties, EmptySeq DEF ItemsOf
    <3>2. Len(s.order) <= 1
      <4>1. \A i \in 1 .. Len(s.order) : s.order[i] = n
        BY <2>2 DEF Good, RingIsTheStacks, ItemsOf, StackNames
      <4>2. Len(s.order) \in Nat
        BY LenProperties DEF Good
      <4>3. QED
        BY <4>1, <4>2 DEF Good, RingIsTheStacks, Distinct
    <3>3. fresh # n
      BY <3>2, LenProperties DEF Good, StackNames
    <3>4. QED
      BY <3>1, <3>3
  <2>3. QED
    BY <1>2, <2>1, <2>2
<1> HIDE DEF kept, q
<1> DEFINE in == IF q[1] \in DOMAIN s.others THEN s.others[q[1]] ELSE NamedStack(q[1])
           less == Delete(s.others, n)
           oth == Delete(less, q[1])
<1>4. /\ DOMAIN less = DOMAIN s.others /\ DOMAIN oth = DOMAIN s.others \ {q[1]}
      /\ \A m \in DOMAIN s.others : less[m] = s.others[m]
      /\ \A m \in DOMAIN oth : oth[m] = s.others[m]
  BY DEF Delete, Good, RingIsTheStacks
<1>5. t = [current |-> in, others |-> oth, order |-> q, epoch |-> s.epoch, cell |-> s.cell]
  <2>1. gone = [current |-> s.current, others |-> less, order |-> q,
                epoch |-> s.epoch, cell |-> s.cell]
    <3>1. s = [current |-> s.current, others |-> s.others, order |-> s.order,
               epoch |-> s.epoch, cell |-> s.cell]
      BY DEF Good
    <3>2. gone = [s EXCEPT !.others = less, !.order = q]
      OBVIOUS
    <3> HIDE DEF gone, less
    <3>3. QED
      BY <3>1, <3>2
  <2> HIDE DEF gone
  <2>2. t = [gone EXCEPT !.current = in, !.others = oth]
    BY <1>2, <1>4, <2>1 DEF Settle
  <2> HIDE DEF t, in, oth
  <2>3. QED
    BY <2>1, <2>2
<1>6. in.name = q[1]
  BY DEF NamedStack, Good, RingIsTheStacks
<1> DEFINE z == DropNamed(s, n, fresh)
<1>7. z \in {t, BumpEpoch(t)}
  <2>1. z = BumpIfMoved(s, t)
    BY DEF DropNamed, q, kept
  <2>2. QED
    BY <2>1 DEF BumpIfMoved
<1> HIDE DEF t
<1> DEFINE e == IF t.epoch < MaxEpoch THEN t.epoch + 1 ELSE t.epoch
<1>8. BumpEpoch(t) = [current |-> in, others |-> oth, order |-> q, epoch |-> e, cell |-> e]
  <2>1. BumpEpoch(t) = [t EXCEPT !.epoch = e, !.cell = e]
    BY DEF BumpEpoch
  <2> HIDE DEF e, in, oth
  <2>2. QED
    BY <1>5, <2>1
<1> HIDE DEF in, oth
<1> HIDE DEF z
<1>9. z.current = in /\ z.others = oth
  BY <1>5, <1>7, <1>8
<1> USE DEF in
<1>10. ASSUME NEW m PROVE At(z, m) = IF m = n THEN NamedStack(n) ELSE At(s, m)
  <2>1. CASE m = q[1]
    <3>1. At(z, m) = in
      BY <1>6, <1>9, <2>1 DEF At, Has, StackNames, Get
    <3>2. At(s, m) = in
      BY <1>3, <2>1 DEF At, Has, StackNames, Get
    <3>3. QED
      BY <1>3, <2>1, <3>1, <3>2
  <2>2. CASE m = n
    <3>1. m \notin StackNames(z)
      BY <1>1, <1>3, <1>4, <1>6, <1>9, <2>2 DEF StackNames
    <3>2. QED
      BY <2>2, <3>1 DEF At, Has
  <2>3. CASE m # q[1] /\ m # n
    BY <1>4, <1>6, <1>9, <2>3 DEF At, Has, StackNames, Get
  <2>4. QED
    BY <2>1, <2>2, <2>3
<1>11. QED
  BY <1>10 DEF Alters, z

-----------------------------------------------------------------------------
(* How often a value is on the stacks.                                     *)

Listed(q) == \E N : q \in Seq(N)

(* Every stack holds a sequence.                                           *)
AllListed(s) == \A n : Listed(At(s, n).items)

(* The places of v on the stack n of s.                                    *)
On(s, n, v) == {n} \X Where(At(s, n).items, v)

LEMMA ListedIs ==
  ASSUME NEW q, Listed(q), NEW v
  PROVE  Len(q) \in Nat /\ IsFiniteSet(Where(q, v)) /\ Count(q, v) \in Nat
<1>1. PICK N : q \in Seq(N)
  BY DEF Listed
<1>2. Len(q) \in Nat
  BY <1>1, LenProperties
<1>3. QED
  BY <1>2, CountType

LEMMA OnIs ==
  ASSUME NEW s, AllListed(s), NEW n, NEW v
  PROVE  IsFiniteSet(On(s, n, v)) /\ Cardinality(On(s, n, v)) = Count(At(s, n).items, v)
<1> DEFINE q == At(s, n).items
<1>1. IsFiniteSet(Where(q, v)) /\ Count(q, v) \in Nat
  BY ListedIs DEF AllListed
<1>2. IsFiniteSet({n}) /\ Cardinality({n}) = 1
  BY FS_Singleton
<1> DEFINE w == Where(q, v)
<1> HIDE DEF w
<1>3. IsFiniteSet({n} \X w) /\ Cardinality({n} \X w) = Cardinality({n}) * Cardinality(w)
  BY <1>1, <1>2, FS_Product DEF w
<1>4. Cardinality(w) \in Nat
  BY <1>1, FS_CardinalityType DEF w
<1>5. Cardinality({n} \X w) = Cardinality(w)
  BY <1>2, <1>3, <1>4
<1>6. QED
  BY <1>3, <1>5 DEF On, Count, w

LEMMA PlacesAre ==
  ASSUME NEW N, NEW s, Good(N, s), NEW v
  PROVE  /\ Places(s, v) = UNION {On(s, n, v) : n \in StackNames(s)}
         /\ \A n : n \notin StackNames(s) => On(s, n, v) = {}
         /\ IsFiniteSet(StackNames(s))
<1>1. Places(s, v) = UNION {On(s, n, v) : n \in StackNames(s)}
  BY DEF Places, On, At, Has
<1>2. ASSUME NEW n, n \notin StackNames(s) PROVE On(s, n, v) = {}
  <2>1. At(s, n).items = <<>>
    BY <1>2 DEF At, Has, NamedStack
  <2>2. QED
    BY <2>1, CountEmpty DEF On
<1>3. IsFiniteSet(StackNames(s))
  <2> DEFINE f == [i \in 1 .. Len(s.order) |-> s.order[i]]
  <2>1. Len(s.order) \in Nat /\ StackNames(s) = ItemsOf(s.order)
    BY LenProperties DEF Good, RingIsTheStacks
  <2>2. f \in Surjection(1 .. Len(s.order), StackNames(s))
    BY <2>1 DEF Surjection, ItemsOf
  <2>3. IsFiniteSet(1 .. Len(s.order))
    BY <2>1, FS_Interval
  <2> HIDE DEF f
  <2>4. QED
    BY <2>2, <2>3, FS_Surjection
<1>4. QED
  BY <1>1, <1>2, <1>3

LEMMA AlikeHeld ==
  ASSUME NEW N, NEW s, NEW t, Good(N, s), Good(N, t), Alike(s, t), NEW v
  PROVE  Places(t, v) = Places(s, v)
<1>1. \A n : On(t, n, v) = On(s, n, v)
  BY DEF Alike, On
<1>2. /\ Places(s, v) = UNION {On(s, n, v) : n \in StackNames(s)}
      /\ \A n : n \notin StackNames(s) => On(s, n, v) = {}
  BY PlacesAre
<1>3. /\ Places(t, v) = UNION {On(t, n, v) : n \in StackNames(t)}
      /\ \A n : n \notin StackNames(t) => On(t, n, v) = {}
  BY PlacesAre
<1>4. \A x : x \in Places(s, v) <=> \E n : x \in On(s, n, v)
  BY <1>2
<1>5. \A x : x \in Places(t, v) <=> \E n : x \in On(t, n, v)
  BY <1>3
<1>6. QED
  BY <1>1, <1>4, <1>5

(* The places of v on the stacks but n.                                    *)
Elsewhere(s, n, v) == UNION {On(s, m, v) : m \in StackNames(s) \ {n}}

(* What is on one stack and what is on the others.                         *)
LEMMA PlacesSplit ==
  ASSUME NEW N, NEW s, Good(N, s), AllListed(s), NEW n, NEW v
  PROVE  /\ Cardinality(Elsewhere(s, n, v)) \in Nat
         /\ Cardinality(Places(s, v)) = Cardinality(Elsewhere(s, n, v)) + Count(At(s, n).items, v)
<1> DEFINE rest == UNION {On(s, m, v) : m \in StackNames(s) \ {n}}
           own == On(s, n, v)
<1>1. /\ Places(s, v) = UNION {On(s, m, v) : m \in StackNames(s)}
      /\ \A m : m \notin StackNames(s) => On(s, m, v) = {}
      /\ IsFiniteSet(StackNames(s))
  BY PlacesAre
<1>2. \A m : IsFiniteSet(On(s, m, v))
  BY OnIs
<1>3. IsFiniteSet(rest)
  <2> DEFINE O == {On(s, m, v) : m \in StackNames(s) \ {n}}
             f == [m \in StackNames(s) \ {n} |-> On(s, m, v)]
  <2>1. IsFiniteSet(StackNames(s) \ {n})
    BY <1>1, FS_RemoveElement
  <2>2. f \in Surjection(StackNames(s) \ {n}, O)
    BY DEF Surjection
  <2>3. IsFiniteSet(O)
    <3> HIDE DEF O, f
    <3>1. QED
      BY <2>1, <2>2, FS_Surjection
  <2>4. \A T \in O : IsFiniteSet(T)
    BY <1>2
  <2> HIDE DEF O
  <2>5. IsFiniteSet(UNION O)
    BY <2>3, <2>4, FS_UNION
  <2>6. QED
    BY <2>5 DEF O
<1>4. Places(s, v) = rest \cup own
  <2>1. CASE n \in StackNames(s)
    BY <1>1, <2>1
  <2>2. CASE n \notin StackNames(s)
    BY <1>1, <2>2
  <2>3. QED
    BY <2>1, <2>2
<1>5. rest \cap own = {}
  BY DEF On
<1>6. IsFiniteSet(own) /\ Cardinality(own) = Count(At(s, n).items, v)
  BY OnIs
<1> HIDE DEF rest, own
<1>7. IsFiniteSet(rest \cup own) /\ Cardinality(rest \cup own) = Cardinality(rest) + Cardinality(own) - Cardinality(rest \cap own)
  BY <1>3, <1>6, FS_Union
<1>8. Cardinality(rest) \in Nat /\ Cardinality(own) \in Nat /\ Cardinality({}) = 0
  BY <1>3, <1>6, FS_CardinalityType, FS_EmptySet
<1>9. Cardinality(Places(s, v)) = Cardinality(rest) + Count(At(s, n).items, v)
  <2>1. Cardinality(rest \cap own) = 0
    BY <1>5, <1>8, Zenon
  <2>2. Cardinality(rest \cup own) = Cardinality(rest) + Cardinality(own)
    BY <1>7, <1>8, <2>1
  <2>3. QED
    BY <1>4, <1>6, <2>2
<1>10. QED
  BY <1>8, <1>9 DEF Elsewhere, rest

LEMMA AltersHeld ==
  ASSUME NEW N, NEW s, NEW t, Good(N, s), Good(N, t), AllListed(s), AllListed(t),
         NEW n, NEW k, Alters(s, t, n, k), NEW v
  PROVE  /\ Cardinality(Places(t, v)) + Count(At(s, n).items, v)
              = Cardinality(Places(s, v)) + Count(k.items, v)
         /\ Cardinality(Places(s, v)) \in Nat /\ Cardinality(Places(t, v)) \in Nat
         /\ Count(At(s, n).items, v) \in Nat /\ Count(k.items, v) \in Nat
<1> DEFINE A == Elsewhere(s, n, v)
           B == Elsewhere(t, n, v)
<1>1. \A m : m # n => On(t, m, v) = On(s, m, v)
  BY DEF Alters, On
<1>2. A = B
  <2>1. \A m : m \notin StackNames(s) => On(s, m, v) = {}
    BY PlacesAre
  <2>2. \A m : m \notin StackNames(t) => On(t, m, v) = {}
    BY PlacesAre
  <2>3. \A x : x \in A <=> \E m : m # n /\ x \in On(s, m, v)
    BY <2>1 DEF Elsewhere
  <2>4. \A x : x \in B <=> \E m : m # n /\ x \in On(t, m, v)
    BY <2>2 DEF Elsewhere
  <2>5. QED
    BY <1>1, <2>3, <2>4
<1>3. Cardinality(A) \in Nat /\ Cardinality(Places(s, v)) = Cardinality(A) + Count(At(s, n).items, v)
  BY PlacesSplit
<1>4. Cardinality(B) \in Nat /\ Cardinality(Places(t, v)) = Cardinality(B) + Count(At(t, n).items, v)
  BY PlacesSplit
<1>5. At(t, n) = k
  BY DEF Alters
<1>6. Count(At(s, n).items, v) \in Nat /\ Count(At(t, n).items, v) \in Nat
  BY ListedIs DEF AllListed
<1> HIDE DEF A, B
<1>7. QED
  BY <1>2, <1>3, <1>4, <1>5, <1>6

-----------------------------------------------------------------------------
(* Every stack and the workbench hold sequences.                           *)

Whole(k) == IsRecord(k) /\ Listed(k.items)

Fine(s) == Good(S, s) /\ AllListed(s)

LEMMA WholeItems ==
  ASSUME NEW k, IsRecord(k), NEW q, Listed(q)
  PROVE  /\ Whole([k EXCEPT !.items = q]) /\ [k EXCEPT !.items = q].name = k.name
         /\ [k EXCEPT !.items = q].items = q /\ [k EXCEPT !.items = q].cap = k.cap
<1> DEFINE l == [k EXCEPT !.items = q]
<1>1. k = [name |-> k.name, items |-> k.items, cap |-> k.cap]
  BY DEF IsRecord
<1>2. l = [name |-> k.name, items |-> q, cap |-> k.cap]
  BY <1>1
<1> HIDE DEF l
<1>3. Whole(l) /\ l.name = k.name /\ l.items = q /\ l.cap = k.cap
  BY <1>2 DEF Whole, IsRecord
<1>4. QED
  BY <1>3 DEF l

LEMMA ListedOps ==
  ASSUME NEW q, Listed(q)
  PROVE  /\ \A x : Listed(Append(q, x))
         /\ Listed(PopBack(q)) /\ Listed(RotateLeft(q)) /\ Listed(RotateRight(q))
         /\ Listed(Reverse(q))
         /\ \A c \in Int : Listed(RightTimes(q, c)) /\ Listed(LeftTimes(q, c))
<1>1. PICK N : q \in Seq(N)
  BY DEF Listed
<1>2. ASSUME NEW x PROVE Listed(Append(q, x))
  <2>1. q \in Seq(N \cup {x})
    BY <1>1, SeqMonotonic
  <2>2. Append(q, x) \in Seq(N \cup {x})
    BY <2>1, AppendProperties
  <2>3. QED
    BY <2>2 DEF Listed
<1>3. Listed(PopBack(q))
  <2>1. CASE q = <<>>
    BY <2>1 DEF PopBack
  <2>2. CASE q # <<>>
    <3>1. PopBack(q) \in Seq(N)
      BY <1>1, <2>2, PopBackIs
    <3>2. QED
      BY <3>1 DEF Listed
  <2>3. QED
    BY <2>1, <2>2
<1>4. RotateLeft(q) \in Seq(N) /\ RotateRight(q) \in Seq(N) /\ Reverse(q) \in Seq(N)
  BY <1>1, CountRotated, CountReversed
<1>5. \A c \in Int : RightTimes(q, c) \in Seq(N) /\ LeftTimes(q, c) \in Seq(N)
  BY <1>1, TimesKeep
<1>6. QED
  BY <1>2, <1>3, <1>4, <1>5 DEF Listed

(* Down to the last marker: what is beneath it.                            *)
LEMMA BeneathIs ==
  ASSUME NEW q, Listed(q)
  PROVE  Listed(BeneathMarker(q))
<1> DEFINE marks == {i \in 1 .. Len(q) : q[i] = NoData}
           last == CHOOSE i \in marks : \A j \in marks : j <= i
<1>1. PICK N : q \in Seq(N)
  BY DEF Listed
<1>2. Len(q) \in Nat
  BY <1>1, LenProperties
<1>3. CASE marks = {}
  <2>1. BeneathMarker(q) = <<>>
    BY <1>3 DEF BeneathMarker
  <2>2. <<>> \in Seq(N)
    BY EmptySeq
  <2>3. QED
    BY <2>1, <2>2 DEF Listed
<1>4. CASE marks # {}
  <2> DEFINE T == {Len(q) - i : i \in marks}
  <2>1. T \in SUBSET Nat /\ T # {}
    BY <1>2, <1>4
  <2>2. PICK n \in T : \A m \in T : n <= m
    <3> HIDE DEF T
    <3>1. QED
      BY <2>1, LeastNumber
  <2>3. PICK i \in marks : n = Len(q) - i
    OBVIOUS
  <2>4. \A j \in marks : j <= i
    <3>1. ASSUME NEW j \in marks PROVE j <= i
      <4>1. n <= Len(q) - j
        BY <2>2
      <4>2. QED
        BY <1>2, <2>3, <4>1
    <3>2. QED
      BY <3>1
  <2>5. last \in marks
    BY <2>4
  <2> DEFINE m == last - 1
  <2>6. m \in Nat /\ m <= Len(q)
    BY <1>2, <2>5
  <2>7. BeneathMarker(q) = SubSeq(q, 1, m)
    BY <1>4 DEF BeneathMarker
  <2> HIDE DEF m
  <2>8. SubSeq(q, 1, m) \in Seq(N)
    BY <1>1, <2>6, SubSeqIs
  <2>9. QED
    BY <2>7, <2>8 DEF Listed
<1>5. QED
  BY <1>3, <1>4

LEMMA WholePush ==
  ASSUME NEW k, Whole(k), NEW x
  PROVE  Whole(Push(k, x)) /\ Push(k, x).name = k.name
<1> DEFINE q == Append(IF IsFull(k) THEN PopBack(k.items) ELSE k.items, x)
<1>1. Listed(q)
  BY ListedOps DEF Whole
<1>2. Push(k, x) = [k EXCEPT !.items = q]
  BY DEF Push
<1> HIDE DEF q
<1>3. QED
  BY <1>1, <1>2, WholeItems DEF Whole

LEMMA WholePushEach ==
  ASSUME NEW k, Whole(k), NEW q, Listed(q)
  PROVE  Whole(PushEach(k, q)) /\ PushEach(k, q).name = k.name
<1>1. PICK M : k.items \in Seq(M)
  BY DEF Whole, Listed
<1>2. PICK N : q \in Seq(N)
  BY DEF Listed
<1> DEFINE R == M \cup N
<1>3. k.items \in Seq(R) /\ q \in Seq(R)
  BY <1>1, <1>2, SeqMonotonic
<1> HIDE DEF R
<1>4. k \in StacksOf(R, k)
  BY <1>3 DEF StacksOf, Whole, IsRecord
<1>5. PushEach(k, q) \in StacksOf(R, k)
  BY <1>3, <1>4, PushEachCounts
<1>6. PushEach(k, q).items \in Seq(R)
  BY <1>5 DEF StacksOf
<1>7. QED
  BY <1>6, PushEachIs DEF Whole, Listed

LEMMA WholeOps ==
  ASSUME NEW k, Whole(k)
  PROVE  /\ Whole(Pull(k)) /\ Pull(k).name = k.name
         /\ Whole([k EXCEPT !.items = <<>>]) /\ [k EXCEPT !.items = <<>>].name = k.name
         /\ Whole(Folded(k)) /\ Folded(k).name = k.name
         /\ \A c : Whole([k EXCEPT !.cap = {c}]) /\ [k EXCEPT !.cap = {c}].name = k.name
<1>1. IsRecord(k) /\ Listed(k.items)
  BY DEF Whole
<1>2. Whole(Pull(k)) /\ Pull(k).name = k.name
  BY <1>1, ListedOps, WholeItems DEF Pull
<1>3. Whole([k EXCEPT !.items = <<>>]) /\ [k EXCEPT !.items = <<>>].name = k.name
  <2>1. Listed(<<>>)
    <3>1. <<>> \in Seq({})
      BY EmptySeq
    <3>2. QED
      BY <3>1 DEF Listed
  <2>2. QED
    BY <1>1, <2>1, WholeItems
<1>4. Whole(Folded(k)) /\ Folded(k).name = k.name
  <2> DEFINE q == BeneathMarker(k.items)
             l == [k EXCEPT !.items = q]
  <2>1. Folded(k) = Push(l, Datum)
    BY DEF Folded
  <2>2. Listed(q)
    BY <1>1, BeneathIs
  <2> HIDE DEF q
  <2>3. Whole(l) /\ l.name = k.name
    BY <1>1, <2>2, WholeItems
  <2> HIDE DEF l
  <2>4. QED
    BY <2>1, <2>3, WholePush
<1>5. ASSUME NEW c PROVE Whole([k EXCEPT !.cap = {c}]) /\ [k EXCEPT !.cap = {c}].name = k.name
  BY DEF Whole, IsRecord
<1>6. QED
  BY <1>2, <1>3, <1>4, <1>5

LEMMA FineAt ==
  ASSUME NEW s, Fine(s)
  PROVE  /\ \A n : Whole(At(s, n)) /\ At(s, n).name = n
         /\ \A n : Has(s, n) => Whole(Get(s, n)) /\ Get(s, n).name = n
         /\ Whole(s.current)
<1>1. \A n : Whole(At(s, n)) /\ At(s, n).name = n
  BY AtIs DEF Fine, AllListed, Whole
<1>2. \A n : Has(s, n) => At(s, n) = Get(s, n)
  BY DEF At
<1>3. Has(s, s.current.name) /\ Get(s, s.current.name) = s.current
  BY DEF Has, StackNames, Get
<1>4. QED
  BY <1>1, <1>2, <1>3

LEMMA FineAlike ==
  ASSUME NEW s, NEW t, Fine(s), Good(S, t), Alike(s, t)
  PROVE  Fine(t)
BY DEF Fine, AllListed, Alike

LEMMA FineAlters ==
  ASSUME NEW s, NEW t, Fine(s), Good(S, t), NEW n, NEW k, Alters(s, t, n, k), Listed(k.items)
  PROVE  Fine(t)
BY DEF Fine, AllListed, Alters

LEMMA FinePut ==
  ASSUME NEW s, Fine(s), NEW n, Has(s, n), NEW k, Whole(k), k.name = n
  PROVE  Fine(Put(s, n, k))
<1>1. Good(S, Put(s, n, k))
  BY PutKeeps DEF Fine, Whole, Still
<1>2. Alters(s, Put(s, n, k), n, k)
  BY PutAlters DEF Fine, Whole
<1>3. QED
  BY <1>1, <1>2, FineAlters DEF Whole

LEMMA FineOnCurrent ==
  ASSUME NEW s, Fine(s), NEW k, Whole(k), k.name = s.current.name
  PROVE  Fine(OnCurrent(s, k))
<1>1. Good(S, OnCurrent(s, k))
  BY OnCurrentKeeps DEF Fine, Whole, Still
<1>2. Alters(s, OnCurrent(s, k), k.name, k)
  BY OnCurrentAlters DEF Fine, Whole
<1>3. QED
  BY <1>1, <1>2, FineAlters DEF Whole

LEMMA FineCurrent ==
  ASSUME NEW s, Fine(s)
  PROVE  /\ \A q : Listed(q) => Fine(OnCurrent(s, [s.current EXCEPT !.items = q]))
         /\ \A x : Fine(PushCurrent(s, x))
         /\ \A q : Listed(q) => Fine(OnCurrent(s, PushEach(s.current, q)))
         /\ Fine(PullCurrent(s)) /\ Fine(RotateItemsLeft(s)) /\ Fine(RotateItemsRight(s))
         /\ Fine(OnCurrent(s, Folded(s.current)))
<1> DEFINE k == s.current
<1>1. Whole(k) /\ IsRecord(k) /\ Listed(k.items)
  BY FineAt DEF Whole
<1>2. \A l : Whole(l) /\ l.name = k.name => Fine(OnCurrent(s, l))
  BY FineOnCurrent
<1> HIDE DEF k
<1>3. \A q : Listed(q) => Fine(OnCurrent(s, [k EXCEPT !.items = q]))
  BY <1>1, <1>2, WholeItems
<1>4. \A x : Fine(OnCurrent(s, Push(k, x)))
  BY <1>1, <1>2, WholePush
<1>5. \A q : Listed(q) => Fine(OnCurrent(s, PushEach(k, q)))
  BY <1>1, <1>2, WholePushEach
<1>6. Fine(OnCurrent(s, Pull(k))) /\ Fine(OnCurrent(s, Folded(k)))
  BY <1>1, <1>2, WholeOps
<1>7. Fine(OnCurrent(s, [k EXCEPT !.items = RotateLeft(k.items)])) /\ Fine(OnCurrent(s, [k EXCEPT !.items = RotateRight(k.items)]))
  BY <1>1, <1>3, ListedOps
<1>8. QED
  BY <1>3, <1>4, <1>5, <1>6, <1>7
     DEF k, PushCurrent, PullCurrent, RotateItemsLeft, RotateItemsRight

LEMMA FineSwitch ==
  ASSUME NEW s, Fine(s), NEW n \in S
  PROVE  Fine(ToStack(s, n)) /\ Fine(EnsureStack(s, n)) /\ Has(EnsureStack(s, n), n)
<1>1. Good(S, s)
  BY DEF Fine
<1>2. Good(S, ToStack(s, n)) /\ Good(S, EnsureStack(s, n)) /\ Has(EnsureStack(s, n), n)
  BY <1>1, ToStackKeeps, EnsureKeeps DEF Moves
<1>3. Alike(s, ToStack(s, n)) /\ Alike(s, EnsureStack(s, n))
  BY <1>1, SwitchAlike
<1>4. QED
  BY <1>2, <1>3, FineAlike

LEMMA FineNamed ==
  ASSUME NEW s, Fine(s)
  PROVE  /\ \A n : Fine(PullFrom(s, n)) /\ Fine(ClearStack(s, n))
         /\ \A n \in S : \A x : Fine(PushTo(s, n, x))
         /\ \A n \in S : \A q : Listed(q) => Fine(PushEachTo(s, n, q))
         /\ \A n \in S : \A c : Fine(EnsureStackWithCapacity(s, n, c))
         /\ \A n \in S : Fine(LET e == EnsureStack(s, n) IN Put(e, n, Folded(Get(e, n))))
<1>1. ASSUME NEW n PROVE Fine(PullFrom(s, n)) /\ Fine(ClearStack(s, n))
  <2>1. CASE Has(s, n)
    <3>1. Whole(Get(s, n)) /\ Get(s, n).name = n
      BY <2>1, FineAt
    <3>2. Fine(Put(s, n, Pull(Get(s, n)))) /\ Fine(Put(s, n, [Get(s, n) EXCEPT !.items = <<>>]))
      BY <2>1, <3>1, WholeOps, FinePut
    <3>3. QED
      BY <2>1, <3>2 DEF PullFrom, ClearStack
  <2>2. CASE ~Has(s, n)
    BY <2>2 DEF PullFrom, ClearStack
  <2>3. QED
    BY <2>1, <2>2
<1>2. ASSUME NEW n \in S
      PROVE  /\ \A x : Fine(PushTo(s, n, x))
             /\ \A q : Listed(q) => Fine(PushEachTo(s, n, q))
             /\ \A c : Fine(EnsureStackWithCapacity(s, n, c))
             /\ Fine(LET e == EnsureStack(s, n) IN Put(e, n, Folded(Get(e, n))))
  <2> DEFINE e == EnsureStack(s, n)
             k == Get(e, n)
  <2>1. Fine(e) /\ Has(e, n) /\ Whole(k) /\ k.name = n
    BY FineSwitch, FineAt
  <2> HIDE DEF e, k
  <2>2. \A l : Whole(l) /\ l.name = n => Fine(Put(e, n, l))
    BY <2>1, FinePut
  <2>3. \A x : Fine(Put(e, n, Push(k, x)))
    BY <2>1, <2>2, WholePush
  <2>4. \A q : Listed(q) => Fine(Put(e, n, PushEach(k, q)))
    BY <2>1, <2>2, WholePushEach
  <2>5. Fine(Put(e, n, Folded(k))) /\ \A c : Fine(Put(e, n, [k EXCEPT !.cap = {c}]))
    BY <2>1, <2>2, WholeOps
  <2>6. QED
    BY <2>1, <2>3, <2>4, <2>5 DEF PushTo, PushEachTo, EnsureStackWithCapacity, e, k
<1>3. QED
  BY <1>1, <1>2

LEMMA FineSwap ==
  ASSUME NEW s, Fine(s), NEW c \in Counts
  PROVE  Fine(SwapAt(s, c))
<1>1. ASSUME NEW t, Fine(t) PROVE Fine(Turned(t, c)) /\ Fine(TurnedBack(t, c))
  <2>1. Listed(t.current.items) /\ CountOf(c) \in Int
    BY <1>1, FineAt, CountsAreIntegers DEF Whole
  <2>2. Listed(RightTimes(t.current.items, CountOf(c))) /\ Listed(LeftTimes(t.current.items, CountOf(c)))
    BY <2>1, ListedOps
  <2>3. QED
    BY <1>1, <2>2, FineCurrent DEF Turned, TurnedBack
<1> DEFINE top == Top(s.current)
           down == Turned(s, c)
           other == Top(down.current)
           one == PullCurrent(down)
           two == PushCurrent(one, top)
           back == TurnedBack(two, c)
           three == PullCurrent(back)
<1>2. SwapAt(s, c) = PushCurrent(three, other)
  BY DEF SwapAt
<1>3. Fine(down)
  BY <1>1
<1> HIDE DEF top, other, down
<1>4. Fine(one)
  BY <1>3, FineCurrent
<1> HIDE DEF one
<1>5. Fine(two)
  BY <1>4, FineCurrent
<1> HIDE DEF two
<1>6. Fine(back)
  BY <1>1, <1>5
<1> HIDE DEF back
<1>7. Fine(three)
  BY <1>6, FineCurrent
<1> HIDE DEF three
<1>8. QED
  BY <1>2, <1>7, FineCurrent

LEMMA FineDrop ==
  ASSUME NEW s, Fine(s), NEW fresh \in S,
         fresh \notin StackNames(s) \/ Len(s.order) > 1
  PROVE  Fine(DropNamed(s, s.current.name, fresh))
<1>1. Good(S, DropNamed(s, s.current.name, fresh))
  BY DropKeeps DEF Fine, Moves
<1>2. Alters(s, DropNamed(s, s.current.name, fresh), s.current.name, NamedStack(s.current.name))
  BY DropAlters DEF Fine
<1>3. Listed(NamedStack(s.current.name).items)
  <2>1. <<>> \in Seq({})
    BY EmptySeq
  <2>2. QED
    BY <2>1 DEF Listed, NamedStack
<1>4. QED
  BY <1>1, <1>2, <1>3, FineAlters

LoadInv == AllListed(stacks) /\ Listed(bench)

LEMMA RepeatedIs ==
  ASSUME NEW c \in Counts, NEW x
  PROVE  Listed([i \in Times(c) |-> x])
<1> DEFINE n == Natural(CountOf(c))
<1>1. n \in Nat /\ Times(c) = 1 .. n
  BY CountsAreIntegers DEF Times, Natural
<1> HIDE DEF n
<1>2. [i \in 1 .. n |-> x] \in Seq({x})
  BY <1>1
<1>3. QED
  BY <1>1, <1>2 DEF Listed

LEMMA PoppedFine ==
  ASSUME RingInv, LoadInv
  PROVE  Fine(stacks) /\ Fine(Popped) /\ Fine(PoppedTwo) /\ Here \in S
<1>1. Fine(stacks)
  BY DEF RingInv, LoadInv, Fine, S
<1>2. Fine(Popped)
  BY <1>1, FineCurrent DEF Popped
<1>3. Fine(PoppedTwo)
  BY <1>2, FineCurrent DEF PoppedTwo
<1>4. Here \in S
  BY ElementOfSeq, LenProperties, EmptySeq DEF RingInv, Good, RingIsTheStacks, Here, S
<1>5. QED
  BY <1>1, <1>2, <1>3, <1>4

LEMMA CurrentLoad ==
  ASSUME RingInv, LoadInv, OnTheCurrentStack
  PROVE  LoadInv'
<1>1. Fine(stacks) /\ Fine(Popped) /\ Fine(PoppedTwo)
  BY PoppedFine
<1>2. ASSUME NEW t, Fine(t), Leaves(t), Quiet PROVE LoadInv'
  BY <1>2 DEF Fine, Leaves, Quiet, LoadInv
<1>3. CASE Literal
  BY <1>1, <1>2, <1>3, FineCurrent DEF Literal
<1>4. CASE Refused \/ DropWord
  BY <1>1, <1>2, <1>4 DEF Refused, DropWord
<1>5. CASE DupOne
  BY <1>1, <1>2, <1>5, FineCurrent DEF DupOne
<1>6. CASE SwapOne
  <2>1. Fine(PushCurrent(PoppedTwo, Items[Depth]))
    BY <1>1, FineCurrent
  <2>2. Fine(PushCurrent(PushCurrent(PoppedTwo, Items[Depth]), Items[Depth - 1]))
    BY <2>1, FineCurrent
  <2>3. QED
    BY <1>2, <1>6, <2>2 DEF SwapOne
<1>7. CASE DupMany
  <2>1. PICK c \in Counts :
          /\ Leaves(OnCurrent(Popped, PushEach(Popped.current, [i \in Times(c) |-> Items[Depth - 1]])))
          /\ Quiet
    BY <1>7 DEF DupMany
  <2> DEFINE q == [i \in Times(c) |-> Items[Depth - 1]]
  <2>2. Listed(q)
    BY RepeatedIs
  <2> HIDE DEF q
  <2>3. Fine(OnCurrent(Popped, PushEach(Popped.current, q)))
    BY <1>1, <2>2, FineCurrent
  <2>4. QED
    BY <1>2, <2>1, <2>3 DEF q
<1>8. CASE SwapN
  BY <1>1, <1>2, <1>8, FineSwap DEF SwapN
<1>9. CASE Clear
  BY <1>1, <1>2, <1>9, FineNamed DEF Clear
<1>10. CASE RotateCurrentLeft \/ RotateCurrentRight
  BY <1>1, <1>2, <1>10, FineCurrent DEF RotateCurrentLeft, RotateCurrentRight
<1>11. CASE CurrentWord
  BY <1>1, <1>2, <1>11, FineCurrent DEF CurrentWord
<1>12. CASE Fold
  BY <1>1, <1>2, <1>12, FineCurrent DEF Fold
<1>13. CASE StackExists
  BY <1>1, <1>2, <1>13, FineCurrent DEF StackExists
<1>14. QED
  BY <1>3, <1>4, <1>5, <1>6, <1>7, <1>8, <1>9, <1>10, <1>11, <1>12, <1>13 DEF OnTheCurrentStack

LEMMA BenchLoad ==
  ASSUME LoadInv
  PROVE  /\ Quiet => Listed(bench)'
         /\ Unbenched => Listed(bench)'
         /\ \A x : Benched(x) => Listed(bench)'
BY ListedOps DEF LoadInv, Quiet, Unbenched, Benched

LEMMA PairIs ==
  ASSUME NEW x, NEW q, Listed(q)
  PROVE  Listed(<<x, x>>) /\ Listed(<<x>> \o q)
<1>1. PICK N : q \in Seq(N)
  BY DEF Listed
<1>2. q \in Seq(N \cup {x})
  BY <1>1, SeqMonotonic
<1>3. <<x>> \o q \in Seq(N \cup {x})
  BY <1>2, ConsKeeps
<1>4. <<x, x>> \in Seq({x})
  OBVIOUS
<1>5. QED
  BY <1>3, <1>4 DEF Listed

LEMMA NamedLoad ==
  ASSUME RingInv, LoadInv, OnANamedStack
  PROVE  LoadInv'
<1>1. Fine(stacks) /\ Fine(Popped) /\ Fine(PoppedTwo)
  BY PoppedFine
<1>2. ASSUME NEW t, Fine(t), Leaves(t), Listed(bench)' PROVE LoadInv'
  BY <1>2 DEF Fine, Leaves, LoadInv
<1>3. Quiet => Listed(bench)'
  BY BenchLoad
<1>4. ASSUME NEW p, Fine(p), NEW n \in S
      PROVE  /\ Fine(PullFrom(p, n)) /\ Fine(ClearStack(p, n))
             /\ \A q : Listed(q) => /\ Fine(PushEachTo(PullFrom(p, n), n, q))
                                    /\ \A m : Fine(PushEachTo(ClearStack(p, m), n, q))
  <2>1. \A m : Fine(PullFrom(p, m)) /\ Fine(ClearStack(p, m))
    BY <1>4, FineNamed
  <2>2. \A m : \A q : Listed(q) => /\ Fine(PushEachTo(PullFrom(p, m), n, q))
                                   /\ Fine(PushEachTo(ClearStack(p, m), n, q))
    BY <2>1, FineNamed
  <2>3. QED
    BY <2>1, <2>2
<1>5. CASE DupOneIn
  <2>1. PICK n \in S :
          /\ Leaves(IF DepthOf(Popped, n) = 0 THEN Popped
                    ELSE PushEachTo(PullFrom(Popped, n), n, <<Top(Get(Popped, n)), Top(Get(Popped, n))>>))
          /\ Quiet
    BY <1>5 DEF DupOneIn, S
  <2> DEFINE q == <<Top(Get(Popped, n)), Top(Get(Popped, n))>>
  <2>2. Listed(q)
    BY PairIs, <1>1, FineAt DEF Whole
  <2> HIDE DEF q
  <2>3. Fine(PushEachTo(PullFrom(Popped, n), n, q))
    BY <1>1, <1>4, <2>2
  <2>4. QED
    BY <1>1, <1>2, <1>3, <2>1, <2>3 DEF q
<1>6. CASE DupManyIn
  <2>1. PICK n \in S, c \in Counts :
          /\ Leaves(IF DepthOf(PoppedTwo, n) = 0 THEN PoppedTwo
                    ELSE PushEachTo(PullFrom(PoppedTwo, n), n,
                           <<Top(Get(PoppedTwo, n))>> \o [i \in Times(c) |-> Top(Get(PoppedTwo, n))]))
          /\ Quiet
    BY <1>6 DEF DupManyIn, S
  <2> DEFINE x == Top(Get(PoppedTwo, n))
             w == [i \in Times(c) |-> x]
             q == <<x>> \o w
  <2>2. Listed(w)
    BY RepeatedIs
  <2> HIDE DEF w, x
  <2>3. Listed(q)
    BY <2>2, PairIs
  <2> HIDE DEF q
  <2>4. Fine(PushEachTo(PullFrom(PoppedTwo, n), n, q))
    BY <1>1, <1>4, <2>3
  <2>5. QED
    BY <1>1, <1>2, <1>3, <2>1, <2>4 DEF q, w, x
<1>7. CASE DropIn \/ ClearIn
  BY <1>1, <1>2, <1>3, <1>4, <1>7 DEF DropIn, ClearIn, S
<1>8. CASE Move
  <2> DEFINE q == Reverse(Popped.current.items)
  <2>1. PICK n \in S : Leaves(PushEachTo(ClearStack(Popped, Here), n, q)) /\ Quiet
    BY <1>8 DEF Move, S
  <2>2. Listed(q)
    BY <1>1, FineAt, ListedOps DEF Whole
  <2> HIDE DEF q
  <2>3. QED
    BY <1>1, <1>2, <1>3, <1>4, <2>1, <2>2
<1>9. CASE MoveFrom
  <2>1. PICK m \in S, n \in S :
          /\ Leaves(IF ~Has(PoppedTwo, m) THEN PoppedTwo
                    ELSE PushEachTo(ClearStack(PoppedTwo, m), n, Reverse(Get(PoppedTwo, m).items)))
          /\ Quiet
    BY <1>9 DEF MoveFrom, S
  <2>2. Has(PoppedTwo, m) => Listed(Reverse(Get(PoppedTwo, m).items))
    BY <1>1, FineAt, ListedOps DEF Whole
  <2>3. QED
    BY <1>1, <1>2, <1>3, <1>4, <2>1, <2>2
<1>10. CASE FoldStack
  <2>1. PICK n \in S : Leaves(LET e == EnsureStack(Popped, n) IN Put(e, n, Folded(Get(e, n)))) /\ Quiet
    BY <1>10 DEF FoldStack, S
  <2>2. QED
    BY <1>1, <1>2, <1>3, <2>1, FineNamed
<1>11. CASE Take \/ Return
  BY <1>1, <1>2, <1>11, FineCurrent, BenchLoad DEF Take, Return
<1>12. CASE ReturnTo
  BY <1>1, <1>2, <1>12, FineNamed, BenchLoad DEF ReturnTo, S
<1>13. CASE ReturnFrom
  BY <1>1, <1>2, <1>13, FineNamed, BenchLoad DEF ReturnFrom, S
<1>14. QED
  BY <1>5, <1>6, <1>7, <1>8, <1>9, <1>10, <1>11, <1>12, <1>13 DEF OnANamedStack

LEMMA RingLoad ==
  ASSUME RingInv, LoadInv, OnTheRing
  PROVE  LoadInv'
<1>1. Fine(stacks) /\ Fine(Popped) /\ Fine(PoppedTwo) /\ Here \in S
  BY PoppedFine
<1>2. ASSUME NEW t, Fine(t), Leaves(t), bench' = bench PROVE LoadInv'
  BY <1>2 DEF Fine, Leaves, LoadInv
<1>3. CASE ToCurrent \/ ToStackWord \/ EnsureStackWord
  BY <1>1, <1>2, <1>3, FineSwitch DEF ToCurrent, ToStackWord, EnsureStackWord, Quiet, S
<1>4. CASE EnsureWithCapacity
  BY <1>1, <1>2, <1>4, FineNamed DEF EnsureWithCapacity, Quiet, S
<1>5. CASE DropStack
  <2>1. PICK fresh \in Fresh : Leaves(DropNamed(stacks, Here, fresh)) /\ Quiet
    BY <1>5 DEF DropStack
  <2>2. fresh \in S /\ (fresh \notin StackNames(stacks) \/ Len(stacks.order) > 1)
    BY NamesAreStrings DEF Fresh, S
  <2>3. Fine(DropNamed(stacks, Here, fresh))
    BY <1>1, <2>2, FineDrop DEF Here
  <2>4. QED
    BY <1>2, <2>1, <2>3 DEF Quiet
<1>6. CASE StacksLeft \/ StacksRight
  <2>1. Fine(RotateStacksLeft(stacks)) /\ Fine(RotateStacksRight(stacks))
    BY <1>1, TurnKeeps, TurnAlike, FineAlike DEF Fine, Moves
  <2>2. QED
    BY <1>2, <1>6, <2>1 DEF StacksLeft, StacksRight, Quiet
<1>7. CASE Context
  BY <1>1, <1>2, <1>7, FineSwitch DEF Context, S
<1>8. QED
  BY <1>3, <1>4, <1>5, <1>6, <1>7 DEF OnTheRing

LEMMA VisitingLoad ==
  ASSUME RingInv, LoadInv, Visiting \/ EndContext
  PROVE  LoadInv'
<1>1. Fine(stacks) /\ Fine(Popped) /\ Fine(PoppedTwo) /\ Here \in S
  BY PoppedFine
<1>2. ASSUME NEW t, Fine(t), Leaves(t), Listed(bench)' PROVE LoadInv'
  BY <1>2 DEF Fine, Leaves, LoadInv
<1>3. Quiet => Listed(bench)'
  BY BenchLoad
<1>4. ASSUME NEW p, Fine(p), NEW n \in S
      PROVE  /\ \A c \in Counts : Fine(ToStack(SwapAt(ToStack(p, n), c), Here))
             /\ Fine(ToStack(RotateItemsLeft(ToStack(p, n)), Here))
             /\ Fine(ToStack(RotateItemsRight(ToStack(p, n)), Here))
  <2> DEFINE u == ToStack(p, n)
  <2>1. Fine(u)
    BY <1>4, FineSwitch
  <2> HIDE DEF u
  <2>2. Fine(RotateItemsLeft(u)) /\ Fine(RotateItemsRight(u)) /\ \A c \in Counts : Fine(SwapAt(u, c))
    BY <2>1, FineCurrent, FineSwap
  <2>3. QED
    BY <1>1, <2>2, FineSwitch DEF u
<1>5. CASE SwapIn
  <2>1. PICK n \in S, c \in Counts :
          /\ Leaves(IF DepthOf(PoppedTwo, n) < 2 THEN PoppedTwo
                    ELSE ToStack(SwapAt(ToStack(PoppedTwo, n), c), Here))
          /\ Quiet
    BY <1>5 DEF SwapIn, S
  <2>2. QED
    BY <1>1, <1>2, <1>3, <1>4, <2>1
<1>6. CASE RotateStackLeft \/ RotateStackRight
  BY <1>1, <1>2, <1>3, <1>4, <1>6 DEF RotateStackLeft, RotateStackRight, S
<1>7. CASE EndContext
  <2> DEFINE p == IF Depth > 0 THEN Popped ELSE stacks
             back == contexts[Len(contexts)]
  <2>1. PICK fresh \in Fresh : Leaves(ToStack(DropNamed(p, Here, fresh), back))
    BY <1>7 DEF EndContext
  <2>2. Fine(p) /\ Still(S, stacks, p)
    <3>1. Still(S, stacks, stacks) /\ Still(S, stacks, Popped)
      BY <1>1, PoppedIs DEF Still, Fine
    <3>2. QED
      BY <1>1, <3>1
  <2> HIDE DEF p
  <2>3. fresh \in S /\ (fresh \notin StackNames(p) \/ Len(p.order) > 1) /\ p.current.name = Here
    BY <2>2, NamesAreStrings DEF Fresh, Still, S, Here
  <2>4. Fine(DropNamed(p, Here, fresh))
    BY <2>2, <2>3, FineDrop
  <2>5. back \in S
    <3>1. contexts # <<>> /\ Len(contexts) \in Nat \ {0} /\ contexts \in Seq(S)
      BY <1>7, LenProperties, EmptySeq DEF EndContext, RingInv, S
    <3>2. QED
      BY <3>1, ElementOfSeq
  <2>6. Listed(bench)'
    BY <1>7, ListedOps DEF EndContext, LoadInv
  <2> HIDE DEF back
  <2>7. QED
    BY <1>2, <2>1, <2>4, <2>5, <2>6, FineSwitch
<1>8. QED
  BY <1>5, <1>6, <1>7 DEF Visiting

LInv == IInv /\ LoadInv

LEMMA LoadInit ==
  ASSUME Init
  PROVE  LoadInv
<1>1. Listed(<<>>)
  <2>1. <<>> \in Seq({})
    BY EmptySeq
  <2>2. QED
    BY <2>1 DEF Listed
<1>2. \A n : At(stacks, n).items = <<>>
  BY DEF Init, NewStacks, At, Has, Get, StackNames, NamedStack
<1>3. QED
  BY <1>1, <1>2 DEF LoadInv, AllListed, Init

LEMMA LoadStep ==
  ASSUME LInv, [Next]_vars
  PROVE  LInv'
<1>1. IInv'
  BY StepHolds DEF LInv
<1>2. RingInv /\ LoadInv
  BY DEF LInv, IInv
<1>3. ASSUME CrossBegin \/ CrossEnd \/ UNCHANGED vars PROVE LoadInv'
  <2>1. stacks' = stacks /\ bench' = bench
    BY <1>3 DEF CrossBegin, CrossEnd, vars
  <2>2. QED
    BY <1>2, <2>1 DEF LoadInv
<1>4. LoadInv'
  <2>1. \/ OnTheCurrentStack \/ OnANamedStack \/ OnTheRing \/ Visiting \/ EndContext
        \/ CrossBegin \/ CrossEnd \/ UNCHANGED vars
    BY DEF Next
  <2>2. CASE OnTheCurrentStack \/ OnANamedStack
    BY <1>2, <2>2, CurrentLoad, NamedLoad
  <2>3. CASE OnTheRing \/ Visiting \/ EndContext
    BY <1>2, <2>3, RingLoad, VisitingLoad
  <2>4. QED
    BY <1>3, <2>1, <2>2, <2>3
<1>5. QED
  BY <1>1, <1>4 DEF LInv

(* The ring, and a sequence of values on every stack and the workbench.    *)
THEOREM LoadInductive == Spec => []LInv
<1>1. Init => LInv
  BY InitHolds, LoadInit DEF LInv
<1>2. QED
  BY <1>1, LoadStep, PTL DEF Spec

-----------------------------------------------------------------------------
(* How many copies of v the operations leave on the stacks, when no stack  *)
(* has a capacity.                                                         *)

Total(s, v) == Cardinality(Places(s, v))

Open(s) == Fine(s) /\ \A n : At(s, n).cap = {}

(* The stacks of s with q as the items of the current one.                 *)
With(s, q) == OnCurrent(s, [s.current EXCEPT !.items = q])

LEMMA OpenType ==
  ASSUME NEW s, Open(s), NEW v
  PROVE  Total(s, v) \in Nat /\ \A n : Count(At(s, n).items, v) \in Nat
<1>1. Alters(s, s, s.current.name, At(s, s.current.name))
  BY DEF Alters
<1>2. Good(S, s) /\ AllListed(s)
  BY DEF Open, Fine
<1>3. Total(s, v) \in Nat
  BY <1>1, <1>2, AltersHeld DEF Total
<1>4. QED
  BY <1>2, <1>3, ListedIs DEF AllListed

LEMMA OpenAlters ==
  ASSUME NEW s, NEW t, Open(s), Good(S, t), NEW n, NEW k, Alters(s, t, n, k),
         Whole(k), k.cap = {}, NEW v
  PROVE  /\ Open(t)
         /\ Total(t, v) + Count(At(s, n).items, v) = Total(s, v) + Count(k.items, v)
         /\ Count(k.items, v) \in Nat
<1>1. Fine(t)
  BY FineAlters DEF Open, Whole
<1>2. \A m : At(t, m).cap = {}
  BY DEF Open, Alters
<1>3. Total(t, v) + Count(At(s, n).items, v) = Total(s, v) + Count(k.items, v)
  BY <1>1, AltersHeld DEF Open, Fine, Total
<1>4. QED
  BY <1>1, <1>2, <1>3, ListedIs DEF Open, Whole

LEMMA OpenSwitch ==
  ASSUME NEW s, Open(s), NEW n \in S, NEW v
  PROVE  /\ Open(ToStack(s, n)) /\ Total(ToStack(s, n), v) = Total(s, v)
         /\ Open(EnsureStack(s, n)) /\ Total(EnsureStack(s, n), v) = Total(s, v)
<1>1. Fine(s) /\ Fine(ToStack(s, n)) /\ Fine(EnsureStack(s, n))
  BY FineSwitch DEF Open
<1>2. Alike(s, ToStack(s, n)) /\ Alike(s, EnsureStack(s, n))
  BY <1>1, SwitchAlike DEF Fine
<1>3. Total(ToStack(s, n), v) = Total(s, v) /\ Total(EnsureStack(s, n), v) = Total(s, v)
  BY <1>1, <1>2, AlikeHeld DEF Fine, Total
<1>4. QED
  BY <1>1, <1>2, <1>3 DEF Open, Alike

LEMMA OpenCurrent ==
  ASSUME NEW s, Open(s)
  PROVE  /\ At(s, s.current.name) = s.current /\ s.current.cap = {}
         /\ Whole(s.current) /\ IsRecord(s.current) /\ Listed(s.current.items)
<1>1. At(s, s.current.name) = s.current
  BY DEF At, Has, StackNames, Get
<1>2. QED
  BY <1>1, FineAt DEF Open, Whole

LEMMA WithIs ==
  ASSUME NEW s, Open(s), NEW q, Listed(q), NEW v
  PROVE  /\ Open(With(s, q))
         /\ With(s, q).current.items = q /\ With(s, q).current.cap = {}
         /\ With(s, q).current.name = s.current.name
         /\ Total(With(s, q), v) + Count(s.current.items, v) = Total(s, v) + Count(q, v)
         /\ Count(q, v) \in Nat
<1> DEFINE k == s.current
           l == [k EXCEPT !.items = q]
<1>1. At(s, k.name) = k /\ k.cap = {} /\ Whole(k) /\ IsRecord(k)
  BY OpenCurrent
<1>2. Whole(l) /\ l.name = k.name /\ l.items = q /\ l.cap = {}
  BY <1>1, WholeItems
<1> HIDE DEF l
<1>3. Good(S, OnCurrent(s, l)) /\ OnCurrent(s, l).current = l
  BY <1>2, OnCurrentKeeps DEF Open, Fine, Whole, Still
<1>4. Alters(s, OnCurrent(s, l), l.name, l)
  BY <1>2, OnCurrentAlters DEF Open, Fine, Whole
<1>5. /\ Open(OnCurrent(s, l))
      /\ Total(OnCurrent(s, l), v) + Count(At(s, l.name).items, v) = Total(s, v) + Count(l.items, v)
      /\ Count(l.items, v) \in Nat
  BY <1>2, <1>3, <1>4, OpenAlters
<1>6. QED
  BY <1>1, <1>2, <1>3, <1>5 DEF With, l

LEMMA WithTwice ==
  ASSUME NEW s, Good(S, s), NEW q, NEW r
  PROVE  With(With(s, q), r) = With(s, r)
<1>1. s = [current |-> s.current, others |-> s.others, order |-> s.order,
           epoch |-> s.epoch, cell |-> s.cell]
  BY DEF Good
<1>2. s.current = [name |-> s.current.name, items |-> s.current.items, cap |-> s.current.cap]
  BY DEF Good, IsRecord
<1> DEFINE K(p) == [name |-> s.current.name, items |-> p, cap |-> s.current.cap]
           T(p) == [current |-> K(p), others |-> s.others, order |-> s.order,
                    epoch |-> s.epoch, cell |-> s.cell]
<1>3. ASSUME NEW p PROVE With(s, p) = T(p)
  <2>1. [s.current EXCEPT !.items = p] = K(p)
    BY <1>2
  <2> HIDE DEF K
  <2>2. [s EXCEPT !.current = K(p)] = T(p)
    BY <1>1
  <2>3. QED
    BY <2>1, <2>2 DEF With, OnCurrent
<1>4. With(T(q), r) = T(r)
  <2>1. T(q).current = K(q) /\ [K(q) EXCEPT !.items = r] = K(r)
    OBVIOUS
  <2> HIDE DEF K
  <2>2. [T(q) EXCEPT !.current = K(r)] = T(r)
    OBVIOUS
  <2> HIDE DEF T
  <2>3. QED
    BY <2>1, <2>2 DEF With, OnCurrent
<1>5. QED
  BY <1>3, <1>4

LEMMA AsWith ==
  ASSUME NEW s, Open(s)
  PROVE  /\ \A x : PushCurrent(s, x) = With(s, Append(s.current.items, x))
         /\ PullCurrent(s) = With(s, PopBack(s.current.items))
         /\ RotateItemsLeft(s) = With(s, RotateLeft(s.current.items))
         /\ RotateItemsRight(s) = With(s, RotateRight(s.current.items))
         /\ \A c : Turned(s, c) = With(s, RightTimes(s.current.items, CountOf(c)))
         /\ \A c : TurnedBack(s, c) = With(s, LeftTimes(s.current.items, CountOf(c)))
<1>1. s.current.cap = {}
  BY OpenCurrent
<1>2. ~IsFull(s.current)
  BY <1>1 DEF IsFull
<1>3. ASSUME NEW x PROVE PushCurrent(s, x) = With(s, Append(s.current.items, x))
  BY <1>2 DEF PushCurrent, Push, With
<1>4. QED
  BY <1>3 DEF PullCurrent, Pull, RotateItemsLeft, RotateItemsRight, Turned, TurnedBack, With

LEMMA CurrentHeld ==
  ASSUME NEW s, Open(s), NEW v
  PROVE  /\ \A x : Open(PushCurrent(s, x)) /\ Total(PushCurrent(s, x), v) = Total(s, v) + One(x, v)
         /\ s.current.items # <<>> =>
              Total(s, v) = Total(PullCurrent(s), v) + One(Top(s.current), v)
         /\ Open(PullCurrent(s)) /\ PullCurrent(s).current.items = PopBack(s.current.items)
         /\ PullCurrent(s).current.name = s.current.name
         /\ Open(RotateItemsLeft(s)) /\ Total(RotateItemsLeft(s), v) = Total(s, v)
         /\ Open(RotateItemsRight(s)) /\ Total(RotateItemsRight(s), v) = Total(s, v)
<1> DEFINE q == s.current.items
<1>1. PICK N : q \in Seq(N)
  BY OpenCurrent DEF Listed
<1>2. Listed(q) /\ Total(s, v) \in Nat /\ Count(q, v) \in Nat
  BY <1>1, OpenType, ListedIs DEF Listed
<1> HIDE DEF q
<1>3. ASSUME NEW x
      PROVE  Open(PushCurrent(s, x)) /\ Total(PushCurrent(s, x), v) = Total(s, v) + One(x, v)
  <2> DEFINE p == Append(q, x)
             t == With(s, p)
  <2>1. Listed(p) /\ Count(p, v) = Count(q, v) + One(x, v) /\ One(x, v) \in Nat
    BY <1>1, <1>2, ListedOps, CountAppend DEF One
  <2>2. PushCurrent(s, x) = t
    BY AsWith DEF q
  <2> HIDE DEF p
  <2>3. Open(t) /\ Total(t, v) + Count(q, v) = Total(s, v) + Count(p, v)
    BY <2>1, WithIs DEF q
  <2>4. Total(t, v) \in Nat
    BY <2>3, OpenType
  <2> HIDE DEF t
  <2>5. QED
    BY <1>2, <2>1, <2>2, <2>3, <2>4
<1>4. /\ Open(PullCurrent(s)) /\ PullCurrent(s).current.items = PopBack(q)
      /\ PullCurrent(s).current.name = s.current.name
      /\ Total(PullCurrent(s), v) + Count(q, v) = Total(s, v) + Count(PopBack(q), v)
      /\ Count(PopBack(q), v) \in Nat /\ Total(PullCurrent(s), v) \in Nat
  <2>1. Listed(PopBack(q))
    BY <1>2, ListedOps
  <2>2. PullCurrent(s) = With(s, PopBack(q))
    BY AsWith DEF q
  <2>3. QED
    BY <2>1, <2>2, WithIs, OpenType DEF q
<1>5. ASSUME q # <<>>
      PROVE  Total(s, v) = Total(PullCurrent(s), v) + One(Top(s.current), v)
  <2>1. Count(q, v) = Count(PopBack(q), v) + One(q[Len(q)], v)
    BY <1>1, <1>5, CountPopBack
  <2>2. Top(s.current) = q[Len(q)] /\ One(q[Len(q)], v) \in Nat
    BY DEF Top, One, q
  <2>3. QED
    BY <1>2, <1>4, <2>1, <2>2
<1>6. ASSUME NEW r, Listed(r), Count(r, v) = Count(q, v)
      PROVE  Open(With(s, r)) /\ Total(With(s, r), v) = Total(s, v)
  <2>1. Open(With(s, r)) /\ Total(With(s, r), v) + Count(q, v) = Total(s, v) + Count(r, v)
    BY <1>6, WithIs DEF q
  <2>2. Total(With(s, r), v) \in Nat
    BY <2>1, OpenType
  <2>3. QED
    BY <1>2, <1>6, <2>1, <2>2
<1>7. /\ Listed(RotateLeft(q)) /\ Count(RotateLeft(q), v) = Count(q, v)
      /\ Listed(RotateRight(q)) /\ Count(RotateRight(q), v) = Count(q, v)
  BY <1>1, <1>2, ListedOps, CountRotated
<1>8. RotateItemsLeft(s) = With(s, RotateLeft(q)) /\ RotateItemsRight(s) = With(s, RotateRight(q))
  BY AsWith DEF q
<1>9. QED
  BY <1>3, <1>4, <1>5, <1>6, <1>7, <1>8 DEF q

(* The exchange of swap and swap_in.                                       *)
LEMMA SwapHeld ==
  ASSUME NEW s, Open(s), s.current.items # <<>>, NEW c \in Counts, NEW v
  PROVE  Open(SwapAt(s, c)) /\ Total(SwapAt(s, c), v) = Total(s, v)
<1> DEFINE q == s.current.items
           i == CountOf(c)
           top == q[Len(q)]
           a == RightTimes(q, i)
           other == a[Len(a)]
           b == PopBack(a)
           d == Append(b, top)
           e == LeftTimes(d, i)
           f == PopBack(e)
           end == Append(f, other)
<1>1. i \in Int /\ q # <<>> /\ Listed(q) /\ Count(q, v) \in Nat
  BY CountsAreIntegers, OpenCurrent, ListedIs
<1>2. PICK N : q \in Seq(N)
  BY <1>1 DEF Listed
<1> HIDE DEF q, i
<1>3. Listed(end) /\ Count(end, v) = Count(q, v)
  <2>1. end \in Seq(N) /\ Count(end, v) = Count(q, v)
    BY <1>1, <1>2, ExchangeKeeps
  <2>2. QED
    BY <2>1 DEF Listed
<1>4. Listed(a)
  BY <1>1, ListedOps
<1>5. Listed(b)
  <2> HIDE DEF a
  <2>1. QED
    BY <1>4, ListedOps
<1> HIDE DEF a, other, b, top
<1>6. Listed(d)
  BY <1>5, ListedOps
<1> HIDE DEF d
<1>7. Listed(e)
  BY <1>1, <1>6, ListedOps
<1> HIDE DEF e
<1>8. Listed(f)
  BY <1>7, ListedOps
<1> HIDE DEF f, end
<1>9. ASSUME NEW r, Listed(r)
      PROVE  /\ Open(With(s, r)) /\ With(s, r).current.items = r
             /\ \A p : With(With(s, r), p) = With(s, p)
  BY <1>9, WithIs, WithTwice DEF Open, Fine
<1>10. Turned(s, c) = With(s, a)
  BY AsWith DEF a, q, i
<1>11. PullCurrent(With(s, a)) = With(s, b)
  BY <1>4, <1>9, AsWith DEF b
<1>12. PushCurrent(With(s, b), top) = With(s, d)
  BY <1>5, <1>9, AsWith DEF d
<1>13. TurnedBack(With(s, d), c) = With(s, e)
  BY <1>6, <1>9, AsWith DEF e, i
<1>14. PullCurrent(With(s, e)) = With(s, f)
  BY <1>7, <1>9, AsWith DEF f
<1>15. PushCurrent(With(s, f), other) = With(s, end)
  BY <1>8, <1>9, AsWith DEF end
<1>16. Top(s.current) = top /\ Top(With(s, a).current) = other
  BY <1>4, <1>9 DEF Top, top, other, q
<1>17. SwapAt(s, c) = With(s, end)
  BY <1>10, <1>11, <1>12, <1>13, <1>14, <1>15, <1>16 DEF SwapAt
<1>18. Open(With(s, end)) /\ Total(With(s, end), v) + Count(q, v) = Total(s, v) + Count(end, v)
  BY <1>3, WithIs DEF q
<1>19. Total(With(s, end), v) \in Nat /\ Total(s, v) \in Nat
  BY <1>18, OpenType
<1>20. QED
  BY <1>1, <1>3, <1>17, <1>18, <1>19

Refilled(k, q) == [k EXCEPT !.items = q]

LEMMA RefilledIs ==
  ASSUME NEW k, IsRecord(k), NEW q, Listed(q)
  PROVE  /\ Whole(Refilled(k, q)) /\ Refilled(k, q).name = k.name
         /\ Refilled(k, q).items = q /\ Refilled(k, q).cap = k.cap
BY WholeItems DEF Refilled

LEMMA PutHeld ==
  ASSUME NEW s, Open(s), NEW n, Has(s, n), NEW q, Listed(q), NEW v
  PROVE  LET t == Put(s, n, Refilled(Get(s, n), q)) IN
         /\ Open(t)
         /\ Total(t, v) + Count(Get(s, n).items, v) = Total(s, v) + Count(q, v)
         /\ Total(t, v) \in Nat /\ Total(s, v) \in Nat
         /\ Count(q, v) \in Nat /\ Count(Get(s, n).items, v) \in Nat
<1> DEFINE g == Get(s, n)
           k == Refilled(g, q)
           t == Put(s, n, k)
<1>1. At(s, n) = g /\ g.cap = {} /\ IsRecord(g) /\ g.name = n
  <2>1. At(s, n) = g
    BY DEF At
  <2>2. QED
    BY <2>1, AtIs DEF Open, Fine
<1> HIDE DEF g
<1>2. Whole(k) /\ k.name = n /\ k.items = q /\ k.cap = {}
  BY <1>1, RefilledIs
<1> HIDE DEF k
<1>3. Good(S, t) /\ Alters(s, t, n, k)
  BY <1>2, PutKeeps, PutAlters DEF Open, Fine, Whole, Still
<1> HIDE DEF t
<1>4. Open(t) /\ Total(t, v) + Count(g.items, v) = Total(s, v) + Count(q, v) /\ Count(q, v) \in Nat
  <2>1. k.cap = {} /\ Whole(k) /\ Good(S, t) /\ Alters(s, t, n, k)
    BY <1>2, <1>3
  <2>2. /\ Open(t) /\ Total(t, v) + Count(At(s, n).items, v) = Total(s, v) + Count(k.items, v)
        /\ Count(k.items, v) \in Nat
    BY <2>1, OpenAlters
  <2>3. QED
    BY <1>1, <1>2, <2>2
<1>5. Total(t, v) \in Nat /\ Total(s, v) \in Nat /\ Count(g.items, v) \in Nat
  BY <1>1, <1>4, OpenType
<1>6. QED
  BY <1>4, <1>5 DEF g, k, t

(* The words that name a stack: what they add or take is what they say.    *)
LEMMA ClearHeld ==
  ASSUME NEW s, Open(s), NEW n, Has(s, n), NEW v
  PROVE  /\ Open(ClearStack(s, n))
         /\ Total(ClearStack(s, n), v) + Count(Get(s, n).items, v) = Total(s, v)
         /\ Total(ClearStack(s, n), v) \in Nat /\ Count(Get(s, n).items, v) \in Nat
<1>1. ClearStack(s, n) = Put(s, n, Refilled(Get(s, n), <<>>))
  BY DEF ClearStack, Refilled
<1>2. Listed(<<>>) /\ Count(<<>>, v) = 0
  <2>1. <<>> \in Seq({})
    OBVIOUS
  <2>2. QED
    BY <2>1, CountEmpty DEF Listed
<1>3. QED
  BY <1>1, <1>2, PutHeld

LEMMA PullHeld ==
  ASSUME NEW s, Open(s), NEW n, Has(s, n), NEW v
  PROVE  /\ Open(PullFrom(s, n))
         /\ Get(s, n).items = <<>> => Total(PullFrom(s, n), v) = Total(s, v)
         /\ Get(s, n).items # <<>> =>
              Total(s, v) = Total(PullFrom(s, n), v) + One(Top(Get(s, n)), v)
<1> DEFINE q == Get(s, n).items
<1>1. PullFrom(s, n) = Put(s, n, Refilled(Get(s, n), PopBack(q)))
  BY DEF PullFrom, Pull, Refilled
<1>2. Listed(q)
  BY DEF Open, Fine, AllListed, At
<1>3. PICK N : q \in Seq(N)
  BY <1>2 DEF Listed
<1> HIDE DEF q
<1>4. Listed(PopBack(q))
  BY <1>2, ListedOps
<1> DEFINE t == PullFrom(s, n)
<1>5. /\ Open(t) /\ Total(t, v) + Count(q, v) = Total(s, v) + Count(PopBack(q), v)
      /\ Total(t, v) \in Nat /\ Total(s, v) \in Nat
      /\ Count(PopBack(q), v) \in Nat /\ Count(q, v) \in Nat
  BY <1>1, <1>4, PutHeld DEF q
<1> HIDE DEF t
<1>6. CASE q = <<>>
  <2>1. PopBack(q) = q
    BY <1>6 DEF PopBack
  <2>2. QED
    BY <1>5, <1>6, <2>1 DEF t, q
<1>7. CASE q # <<>>
  <2>1. Count(q, v) = Count(PopBack(q), v) + One(q[Len(q)], v)
    BY <1>3, <1>7, CountPopBack
  <2>2. Top(Get(s, n)) = q[Len(q)] /\ One(q[Len(q)], v) \in Nat
    BY DEF Top, One, q
  <2>3. Total(s, v) = Total(t, v) + One(Top(Get(s, n)), v)
    BY <1>5, <2>1, <2>2
  <2>4. QED
    BY <1>5, <1>7, <2>3 DEF t, q
<1>8. QED
  BY <1>6, <1>7

LEMMA PushToHeld ==
  ASSUME NEW s, Open(s), NEW n \in S, NEW x, NEW v
  PROVE  Open(PushTo(s, n, x)) /\ Total(PushTo(s, n, x), v) = Total(s, v) + One(x, v)
<1> DEFINE e == EnsureStack(s, n)
           q == Get(e, n).items
           p == Append(q, x)
<1>1. Open(e) /\ Total(e, v) = Total(s, v) /\ Has(e, n)
  BY OpenSwitch, FineSwitch DEF Open
<1>2. PushTo(s, n, x) = Put(e, n, Push(Get(e, n), x))
  BY DEF PushTo
<1> HIDE DEF e
<1>3. Get(e, n).cap = {} /\ Listed(q)
  BY <1>1 DEF Open, Fine, AllListed, At
<1>4. Push(Get(e, n), x) = Refilled(Get(e, n), p)
  BY <1>3 DEF Push, IsFull, Refilled
<1> HIDE DEF q
<1>5. PICK N : q \in Seq(N)
  BY <1>3 DEF Listed
<1>6. Listed(p) /\ Count(p, v) = Count(q, v) + One(x, v) /\ One(x, v) \in Nat
  BY <1>3, <1>5, ListedOps, CountAppend DEF One
<1> HIDE DEF p
<1> DEFINE t == PushTo(s, n, x)
<1>7. /\ Open(t) /\ Total(t, v) + Count(q, v) = Total(e, v) + Count(p, v)
      /\ Total(t, v) \in Nat /\ Total(e, v) \in Nat /\ Count(q, v) \in Nat
  BY <1>1, <1>2, <1>4, <1>6, PutHeld DEF q
<1> HIDE DEF t
<1>8. Total(t, v) = Total(s, v) + One(x, v)
  BY <1>1, <1>6, <1>7
<1>9. QED
  BY <1>7, <1>8 DEF t

LEMMA PushEachToHeld ==
  ASSUME NEW s, Open(s), NEW n \in S, NEW q, Listed(q), NEW v
  PROVE  /\ Open(PushEachTo(s, n, q))
         /\ Total(PushEachTo(s, n, q), v) = Total(s, v) + Count(q, v)
<1>1. CASE q = <<>>
  <2>1. PushEachTo(s, n, q) = s /\ Count(q, v) = 0
    BY <1>1, CountEmpty DEF PushEachTo
  <2>2. QED
    BY <2>1, OpenType
<1>2. CASE q # <<>>
  <2> DEFINE e == EnsureStack(s, n)
             g == Get(e, n)
             r == PushEach(g, q).items
             t == PushEachTo(s, n, q)
  <2>1. Open(e) /\ Total(e, v) = Total(s, v) /\ Has(e, n)
    BY OpenSwitch, FineSwitch DEF Open
  <2>2. t = Put(e, n, PushEach(g, q))
    BY <1>2 DEF PushEachTo
  <2> HIDE DEF e
  <2>3. PushEach(g, q) = Refilled(g, r)
    BY DEF PushEach, Refilled
  <2>4. At(e, n) = g /\ g.cap = {} /\ Listed(g.items) /\ IsRecord(g)
    <3>1. At(e, n) = g
      BY <2>1 DEF At
    <3>2. QED
      BY <2>1, <3>1, AtIs DEF Open, Fine, AllListed
  <2> HIDE DEF g
  <2>5. Listed(r) /\ Count(r, v) = Count(g.items, v) + Count(q, v)
    <3>1. PICK A, B : g.items \in Seq(A) /\ q \in Seq(B)
      BY <2>4 DEF Listed
    <3> DEFINE N == A \cup B
    <3>2. g.items \in Seq(N) /\ q \in Seq(N)
      BY <3>1
    <3> HIDE DEF N
    <3>3. g \in StacksOf(N, g)
      BY <2>4, <3>2 DEF StacksOf, IsRecord
    <3>4. PushEach(g, q) \in StacksOf(N, g)
      BY <3>2, <3>3, PushEachCounts
    <3>5. Count(r, v) = Count(g.items, v) + Count(q, v)
      BY <2>4, <3>2, <3>3, PushEachCounts
    <3>6. r \in Seq(N)
      BY <3>4 DEF StacksOf
    <3>7. QED
      BY <3>5, <3>6 DEF Listed
  <2> HIDE DEF r, t
  <2>6. /\ Open(t) /\ Total(t, v) + Count(g.items, v) = Total(e, v) + Count(r, v)
        /\ Total(t, v) \in Nat /\ Total(e, v) \in Nat /\ Count(g.items, v) \in Nat
    BY <2>1, <2>2, <2>3, <2>5, PutHeld DEF g
  <2>7. Count(q, v) \in Nat
    BY ListedIs
  <2>8. Total(t, v) = Total(s, v) + Count(q, v)
    BY <2>1, <2>5, <2>6, <2>7
  <2>9. QED
    BY <2>6, <2>8 DEF t
<1>3. QED
  BY <1>1, <1>2

(* Word by word.                                                           *)
LEMMA PoppedOpen ==
  ASSUME RingInv, LoadInv, Uncapped
  PROVE  /\ Open(stacks) /\ Open(Popped) /\ Open(PoppedTwo)
         /\ Popped.current.items = PopBack(Items)
         /\ PoppedTwo.current.items = PopBack(PopBack(Items))
         /\ Popped.current.name = Here /\ PoppedTwo.current.name = Here
<1>1. ASSUME NEW n PROVE At(stacks, n).cap = {}
  BY DEF Uncapped, Capped, At, Has, NamedStack
<1>2. Open(stacks)
  BY <1>1, PoppedFine DEF Open
<1>3. Open(Popped) /\ Popped.current.items = PopBack(Items) /\ Popped.current.name = Here
  BY <1>2, CurrentHeld DEF Popped, Items, Here
<1>4. /\ Open(PoppedTwo) /\ PoppedTwo.current.items = PopBack(PopBack(Items))
      /\ PoppedTwo.current.name = Here
  BY <1>3, CurrentHeld DEF PoppedTwo
<1>5. QED
  BY <1>2, <1>3, <1>4

LEMMA SameQuietly ==
  ASSUME NEW s, Quiet, \A v : Total(stacks', v) = Total(s, v)
  PROVE  Same(s)
BY DEF Same, Held, Total, Quiet

(* A stack drained into another, itself perhaps, perhaps new.              *)
LEMMA Drained ==
  ASSUME NEW s, Open(s), NEW from, Has(s, from), NEW to \in S, NEW v
  PROVE  Total(PushEachTo(ClearStack(s, from), to, Reverse(Get(s, from).items)), v)
           = Total(s, v)
<1> DEFINE q == Get(s, from).items
           c == ClearStack(s, from)
<1>1. Open(c) /\ Total(c, v) + Count(q, v) = Total(s, v)
  BY ClearHeld
<1>2. Listed(q)
  BY DEF Open, Fine, AllListed, At
<1> HIDE DEF q, c
<1>3. PICK N : q \in Seq(N)
  BY <1>2 DEF Listed
<1>4. Listed(Reverse(q)) /\ Count(Reverse(q), v) = Count(q, v)
  BY <1>2, <1>3, ListedOps, CountReversed
<1>5. Total(PushEachTo(c, to, Reverse(q)), v) = Total(c, v) + Count(Reverse(q), v)
  BY <1>1, <1>4, PushEachToHeld
<1>6. QED
  BY <1>1, <1>4, <1>5 DEF q, c

LEMMA MovesLoseNothing ==
  ASSUME RingInv, LoadInv, Uncapped
  PROVE  (Move => Same(Popped)) /\ (MoveFrom => Same(PoppedTwo))
<1>1. ASSUME Move PROVE Same(Popped)
  <2>1. PICK n \in Strings :
          stacks' = PushEachTo(ClearStack(Popped, Here), n, Reverse(Popped.current.items))
    BY <1>1 DEF Move, Leaves
  <2>2. Open(Popped) /\ Has(Popped, Here) /\ Get(Popped, Here) = Popped.current
    BY PoppedOpen DEF Has, Get, StackNames
  <2>3. ASSUME NEW v PROVE Total(stacks', v) = Total(Popped, v)
    BY <2>1, <2>2, Drained DEF S
  <2>4. QED
    BY <1>1, <2>3, SameQuietly DEF Move
<1>2. ASSUME MoveFrom PROVE Same(PoppedTwo)
  <2>1. PICK from \in Strings, to \in Strings :
          stacks' = IF ~Has(PoppedTwo, from) THEN PoppedTwo
                    ELSE PushEachTo(ClearStack(PoppedTwo, from), to,
                                    Reverse(Get(PoppedTwo, from).items))
    BY <1>2 DEF MoveFrom, Leaves
  <2>2. Open(PoppedTwo)
    BY PoppedOpen
  <2>3. ASSUME NEW v PROVE Total(stacks', v) = Total(PoppedTwo, v)
    BY <2>1, <2>2, Drained DEF S
  <2>4. QED
    BY <1>2, <2>3, SameQuietly DEF MoveFrom
<1>3. QED
  BY <1>1, <1>2

(* There, the items turned or exchanged, and back.                         *)
LEMMA VisitsLoseNothing ==
  ASSUME RingInv, LoadInv, Uncapped
  PROVE  /\ RotateStackLeft \/ RotateStackRight => Same(Popped)
         /\ SwapIn => Same(PoppedTwo)
<1>1. Here \in S
  BY PoppedFine
<1>2. ASSUME RotateStackLeft \/ RotateStackRight PROVE Same(Popped)
  <2>1. PICK n \in Strings :
          \/ stacks' = ToStack(RotateItemsLeft(ToStack(Popped, n)), Here)
          \/ stacks' = ToStack(RotateItemsRight(ToStack(Popped, n)), Here)
    BY <1>2 DEF RotateStackLeft, RotateStackRight, Leaves
  <2> DEFINE u == ToStack(Popped, n)
  <2>2. ASSUME NEW v PROVE Total(stacks', v) = Total(Popped, v)
    <3>1. Open(u) /\ Total(u, v) = Total(Popped, v)
      BY PoppedOpen, OpenSwitch DEF S
    <3> HIDE DEF u
    <3>2. /\ Open(RotateItemsLeft(u)) /\ Total(RotateItemsLeft(u), v) = Total(u, v)
          /\ Open(RotateItemsRight(u)) /\ Total(RotateItemsRight(u), v) = Total(u, v)
      BY <3>1, CurrentHeld
    <3>3. /\ Total(ToStack(RotateItemsLeft(u), Here), v) = Total(RotateItemsLeft(u), v)
          /\ Total(ToStack(RotateItemsRight(u), Here), v) = Total(RotateItemsRight(u), v)
      BY <1>1, <3>2, OpenSwitch
    <3>4. QED
      BY <2>1, <3>1, <3>2, <3>3 DEF u
  <2>3. QED
    BY <1>2, <2>2, SameQuietly DEF RotateStackLeft, RotateStackRight
<1>3. ASSUME SwapIn PROVE Same(PoppedTwo)
  <2>1. PICK n \in Strings, c \in Counts :
          stacks' = IF DepthOf(PoppedTwo, n) < 2 THEN PoppedTwo
                    ELSE ToStack(SwapAt(ToStack(PoppedTwo, n), c), Here)
    BY <1>3 DEF SwapIn, Leaves
  <2> DEFINE u == ToStack(PoppedTwo, n)
             w == SwapAt(u, c)
  <2>2. Open(PoppedTwo) /\ Good(S, PoppedTwo)
    BY PoppedOpen DEF Open, Fine
  <2>3. Open(u) /\ \A v : Total(u, v) = Total(PoppedTwo, v)
    BY <2>2, OpenSwitch DEF S
  <2>4. At(u, n) = u.current /\ At(u, n) = At(PoppedTwo, n)
    <3>1. u.current.name = n
      BY <2>2, ToStackKeeps DEF S
    <3>2. Alike(PoppedTwo, u)
      BY <2>2, SwitchAlike DEF S
    <3> HIDE DEF u
    <3>3. QED
      BY <3>1, <3>2, <2>3, OpenCurrent DEF Alike
  <2>5. CASE DepthOf(PoppedTwo, n) < 2
    BY <1>3, <2>1, <2>5, SameQuietly DEF SwapIn
  <2>6. CASE ~(DepthOf(PoppedTwo, n) < 2)
    <3>1. u.current.items # <<>>
      <4>1. At(PoppedTwo, n).items # <<>>
        BY <2>6 DEF DepthOf, At
      <4>2. QED
        BY <2>4, <4>1
    <3>2. ASSUME NEW v PROVE Total(stacks', v) = Total(PoppedTwo, v)
      <4>1. stacks' = ToStack(w, Here)
        BY <2>1, <2>6
      <4> HIDE DEF u
      <4>2. Open(w) /\ Total(w, v) = Total(u, v)
        BY <2>3, <3>1, SwapHeld
      <4> HIDE DEF w
      <4>3. Total(ToStack(w, Here), v) = Total(w, v)
        BY <1>1, <4>2, OpenSwitch
      <4>4. QED
        BY <2>3, <4>1, <4>2, <4>3
    <3>3. QED
      BY <1>3, <3>2, SameQuietly DEF SwapIn
  <2>7. QED
    BY <2>5, <2>6
<1>4. QED
  BY <1>2, <1>3

(* The two uppermost values, and what is left beneath them.                *)
LEMMA TopTwo ==
  ASSUME RingInv, LoadInv, Uncapped, NEW v
  PROVE  /\ Depth \in Nat
         /\ Depth >= 1 =>
              /\ Total(stacks, v) = Total(Popped, v) + One(Items[Depth], v)
              /\ Len(Popped.current.items) = Depth - 1
         /\ Depth >= 2 =>
              /\ Total(Popped, v) = Total(PoppedTwo, v) + One(Items[Depth - 1], v)
         /\ Total(PoppedTwo, v) \in Nat /\ Total(Popped, v) \in Nat /\ Total(stacks, v) \in Nat
<1>1. /\ Open(stacks) /\ Open(Popped) /\ Open(PoppedTwo) /\ Popped.current.items = PopBack(Items)
  BY PoppedOpen
<1>2. Listed(Items)
  BY <1>1, OpenCurrent DEF Items
<1>3. PICK N : Items \in Seq(N)
  BY <1>2 DEF Listed
<1>4. Depth \in Nat
  BY <1>3, LenProperties DEF Depth
<1>5. /\ Total(PoppedTwo, v) \in Nat /\ Total(Popped, v) \in Nat /\ Total(stacks, v) \in Nat
  BY <1>1, OpenType
<1>6. ASSUME Depth >= 1
      PROVE  /\ Total(stacks, v) = Total(Popped, v) + One(Items[Depth], v)
             /\ Len(Popped.current.items) = Depth - 1
             /\ \A i \in 1 .. Depth - 1 : Popped.current.items[i] = Items[i]
  <2>1. Items # <<>>
    BY <1>6 DEF Depth
  <2>2. Top(stacks.current) = Items[Depth]
    BY DEF Top, Items, Depth
  <2>3. Total(stacks, v) = Total(Popped, v) + One(Top(stacks.current), v)
    BY <1>1, <2>1, CurrentHeld DEF Popped, Items
  <2>4. /\ Len(PopBack(Items)) = Depth - 1
        /\ \A i \in 1 .. Depth - 1 : PopBack(Items)[i] = Items[i]
    BY <1>3, <2>1, PopBackIs DEF Depth
  <2>5. QED
    BY <1>1, <2>2, <2>3, <2>4
<1>7. ASSUME Depth >= 2
      PROVE  Total(Popped, v) = Total(PoppedTwo, v) + One(Items[Depth - 1], v)
  <2> DEFINE r == Popped.current.items
  <2>1. Len(r) = Depth - 1 /\ r[Len(r)] = Items[Depth - 1] /\ r # <<>>
    BY <1>4, <1>6, <1>7
  <2>2. Top(Popped.current) = Items[Depth - 1]
    BY <2>1 DEF Top
  <2>3. Total(Popped, v) = Total(PoppedTwo, v) + One(Top(Popped.current), v)
    BY <1>1, <2>1, CurrentHeld DEF PoppedTwo
  <2>4. QED
    BY <2>2, <2>3
<1>8. QED
  BY <1>4, <1>5, <1>6, <1>7

LEMMA ExchangesLoseNothing ==
  ASSUME RingInv, LoadInv, Uncapped
  PROVE  (SwapN => Same(Popped)) /\ (SwapOne => Same(stacks))
<1>1. ASSUME SwapN PROVE Same(Popped)
  <2>1. PICK c \in Counts : Depth >= 3 /\ stacks' = SwapAt(Popped, c)
    BY <1>1 DEF SwapN, Leaves
  <2>2. Open(Popped)
    BY PoppedOpen
  <2>3. Popped.current.items # <<>>
    <3>1. Depth \in Nat /\ Depth >= 1 /\ Len(Popped.current.items) = Depth - 1
      BY <2>1, TopTwo
    <3>2. QED
      BY <2>1, <3>1
  <2>4. ASSUME NEW v PROVE Total(stacks', v) = Total(Popped, v)
    BY <2>1, <2>2, <2>3, SwapHeld
  <2>5. QED
    BY <1>1, <2>4, SameQuietly DEF SwapN
<1>2. ASSUME SwapOne PROVE Same(stacks)
  <2> DEFINE a == Items[Depth]
             b == Items[Depth - 1]
             u == PushCurrent(PoppedTwo, a)
  <2>1. Depth >= 2 /\ stacks' = PushCurrent(u, b)
    BY <1>2 DEF SwapOne, Leaves
  <2>2. Open(PoppedTwo)
    BY PoppedOpen
  <2>3. ASSUME NEW v PROVE Total(stacks', v) = Total(stacks, v)
    <3>1. Open(u) /\ Total(u, v) = Total(PoppedTwo, v) + One(a, v)
      BY <2>2, CurrentHeld
    <3>2. /\ Total(stacks, v) = Total(Popped, v) + One(a, v)
          /\ Total(Popped, v) = Total(PoppedTwo, v) + One(b, v)
          /\ Total(PoppedTwo, v) \in Nat
      BY <2>1, TopTwo
    <3> HIDE DEF u
    <3>3. Total(PushCurrent(u, b), v) = Total(u, v) + One(b, v)
      BY <3>1, CurrentHeld
    <3>4. One(a, v) \in Nat /\ One(b, v) \in Nat
      BY DEF One
    <3> HIDE DEF a, b
    <3>5. QED
      BY <2>1, <3>1, <3>2, <3>3, <3>4
  <2>4. QED
    BY <1>2, <2>3, SameQuietly DEF SwapOne
<1>3. QED
  BY <1>1, <1>2

(* The traffic with the workbench: what one side gains the other gives.    *)
LEMMA BenchIs ==
  ASSUME LoadInv, NEW v
  PROVE  /\ Count(bench, v) \in Nat
         /\ \A x : Benched(x) => Count(bench', v) = Count(bench, v) + One(x, v)
         /\ Unbenched /\ bench # <<>> =>
              Count(bench, v) = Count(bench', v) + One(bench[Len(bench)], v)
         /\ Unbenched => Count(bench', v) \in Nat
<1>1. Listed(bench)
  BY DEF LoadInv
<1>2. PICK N : bench \in Seq(N)
  BY <1>1 DEF Listed
<1>3. Listed(PopBack(bench))
  BY <1>1, ListedOps
<1>4. Count(bench, v) \in Nat /\ Count(PopBack(bench), v) \in Nat
  BY <1>1, <1>3, ListedIs
<1>5. ASSUME NEW x, Benched(x) PROVE Count(bench', v) = Count(bench, v) + One(x, v)
  BY <1>2, <1>5, CountAppend DEF Benched
<1>6. bench # <<>> => Count(bench, v) = Count(PopBack(bench), v) + One(bench[Len(bench)], v)
  BY <1>2, CountPopBack
<1>7. QED
  BY <1>4, <1>5, <1>6 DEF Unbenched

LEMMA TakeAndReturnLoseNothing ==
  ASSUME RingInv, LoadInv, Uncapped
  PROVE  (Take \/ Return => Same(stacks))
<1>1. Open(stacks)
  BY PoppedOpen
<1>2. ASSUME Take, NEW v PROVE Total(stacks', v) + Count(bench', v) = Total(stacks, v) + Count(bench, v)
  <2> DEFINE x == bench[Len(bench)]
  <2>1. bench # <<>> /\ stacks' = PushCurrent(stacks, x) /\ Unbenched
    BY <1>2 DEF Take, Leaves
  <2>2. /\ Count(bench, v) = Count(bench', v) + One(x, v)
        /\ Count(bench, v) \in Nat /\ Count(bench', v) \in Nat
    BY <2>1, BenchIs
  <2> HIDE DEF x
  <2>3. Total(stacks', v) = Total(stacks, v) + One(x, v) /\ Total(stacks, v) \in Nat
    BY <1>1, <2>1, CurrentHeld, OpenType
  <2>4. One(x, v) \in Nat
    BY DEF One
  <2>5. QED
    BY <2>2, <2>3, <2>4
<1>3. ASSUME Return, NEW v PROVE Total(stacks', v) + Count(bench', v) = Total(stacks, v) + Count(bench, v)
  <2> DEFINE x == Items[Depth]
  <2>1. Depth >= 1 /\ stacks' = Popped /\ Benched(x)
    BY <1>3 DEF Return, Leaves
  <2>2. Count(bench', v) = Count(bench, v) + One(x, v) /\ Count(bench, v) \in Nat
    BY <2>1, BenchIs
  <2>3. Total(stacks, v) = Total(Popped, v) + One(x, v) /\ Total(Popped, v) \in Nat
    BY <2>1, TopTwo
  <2>4. One(x, v) \in Nat
    BY DEF One
  <2> HIDE DEF x
  <2>5. QED
    BY <2>1, <2>2, <2>3, <2>4
<1>4. QED
  BY <1>2, <1>3 DEF Same, Held, Total

LEMMA NamedReturnsLoseNothing ==
  ASSUME RingInv, LoadInv, Uncapped
  PROVE  (ReturnTo \/ ReturnFrom => Same(Popped))
<1>1. Open(Popped)
  BY PoppedOpen
<1>2. ASSUME ReturnTo, NEW v
      PROVE  Total(stacks', v) + Count(bench', v) = Total(Popped, v) + Count(bench, v)
  <2> DEFINE x == bench[Len(bench)]
  <2>1. PICK n \in Strings : stacks' = IF bench = <<>> THEN Popped ELSE PushTo(Popped, n, x)
    BY <1>2 DEF ReturnTo, Leaves
  <2>2. Unbenched
    BY <1>2 DEF ReturnTo
  <2>3. CASE bench = <<>>
    BY <2>1, <2>2, <2>3 DEF Unbenched, PopBack
  <2>4. CASE bench # <<>>
    <3>1. /\ Count(bench, v) = Count(bench', v) + One(x, v)
          /\ Count(bench, v) \in Nat /\ Count(bench', v) \in Nat
      BY <2>2, <2>4, BenchIs
    <3>2. stacks' = PushTo(Popped, n, x)
      BY <2>1, <2>4
    <3> HIDE DEF x
    <3>3. Total(stacks', v) = Total(Popped, v) + One(x, v) /\ Total(Popped, v) \in Nat
      BY <1>1, <3>2, PushToHeld, OpenType DEF S
    <3>4. One(x, v) \in Nat
      BY DEF One
    <3>5. QED
      BY <3>1, <3>3, <3>4
  <2>5. QED
    BY <2>3, <2>4
<1>3. ASSUME ReturnFrom, NEW v
      PROVE  Total(stacks', v) + Count(bench', v) = Total(Popped, v) + Count(bench, v)
  <2>1. PICK n \in Strings :
          /\ stacks' = PullFrom(Popped, n)
          /\ IF DepthOf(Popped, n) = 0 THEN Quiet ELSE Benched(Top(Get(Popped, n)))
    BY <1>3 DEF ReturnFrom, Leaves
  <2>2. CASE ~Has(Popped, n)
    BY <2>1, <2>2 DEF DepthOf, PullFrom, Quiet
  <2>3. CASE Has(Popped, n)
    <3> DEFINE q == Get(Popped, n).items
               x == Top(Get(Popped, n))
    <3>1. Listed(q) /\ DepthOf(Popped, n) = Len(q)
      BY <1>1, <2>3 DEF Open, Fine, AllListed, At, DepthOf
    <3>2. /\ q = <<>> => Total(stacks', v) = Total(Popped, v)
          /\ q # <<>> => Total(Popped, v) = Total(stacks', v) + One(x, v)
      BY <1>1, <2>1, <2>3, PullHeld
    <3>3. Total(stacks', v) \in Nat /\ Total(Popped, v) \in Nat
      BY <1>1, <2>1, <2>3, PullHeld, OpenType
    <3> HIDE DEF q
    <3>4. PICK N : q \in Seq(N)
      BY <3>1 DEF Listed
    <3>5. CASE q = <<>>
      BY <2>1, <3>1, <3>2, <3>5 DEF Quiet
    <3>6. CASE q # <<>>
      <4>1. Len(q) # 0
        BY <3>4, <3>6, EmptySeq
      <4>2. Benched(x)
        BY <2>1, <3>1, <4>1
      <4> HIDE DEF x
      <4>3. Count(bench', v) = Count(bench, v) + One(x, v) /\ Count(bench, v) \in Nat
        BY <4>2, BenchIs
      <4>4. One(x, v) \in Nat
        BY DEF One
      <4>5. QED
        BY <3>2, <3>3, <3>6, <4>3, <4>4
    <3>7. QED
      BY <3>5, <3>6
  <2>4. QED
    BY <2>2, <2>3
<1>4. QED
  BY <1>2, <1>3 DEF Same, Held, Total

(* Draining, exchanging, rotating and the traffic with the workbench lose  *)
(* and make no value beyond the operands spent, as long as no stack has a  *)
(* capacity: whatever the stacks hold, whatever stack is named, and        *)
(* however often the rotation of a swap goes round (stack.rs: move,        *)
(* move_from, swap, swap_in, take, return; F70).                           *)
THEOREM ValuesNeverLost == Spec => NothingLost
<1>1. ASSUME LInv, Uncapped
      PROVE  /\ Move \/ SwapN \/ ReturnTo \/ ReturnFrom \/ RotateStackLeft \/ RotateStackRight
                  => Same(Popped)
             /\ MoveFrom \/ SwapIn => Same(PoppedTwo)
             /\ Take \/ Return \/ SwapOne => Same(stacks)
  <2>1. RingInv /\ LoadInv
    BY <1>1 DEF LInv, IInv
  <2>2. /\ Move \/ RotateStackLeft \/ RotateStackRight => Same(Popped)
        /\ MoveFrom \/ SwapIn => Same(PoppedTwo)
    BY <1>1, <2>1, MovesLoseNothing, VisitsLoseNothing
  <2>3. /\ SwapN \/ ReturnTo \/ ReturnFrom => Same(Popped)
        /\ Take \/ Return \/ SwapOne => Same(stacks)
    BY <1>1, <2>1, ExchangesLoseNothing, TakeAndReturnLoseNothing, NamedReturnsLoseNothing
  <2>4. QED
    BY <2>2, <2>3
<1>2. LInv /\ [Next]_vars
        => [Uncapped =>
              /\ Move \/ SwapN \/ ReturnTo \/ ReturnFrom \/ RotateStackLeft \/ RotateStackRight
                   => Same(Popped)
              /\ MoveFrom \/ SwapIn => Same(PoppedTwo)
              /\ Take \/ Return \/ SwapOne => Same(stacks)]_vars
  BY <1>1
<1>3. QED
  BY <1>2, LoadInductive, PTL DEF Spec, NothingLost
=============================================================================
