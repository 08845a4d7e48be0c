----------------------------- MODULE JitProofs ------------------------------
(***************************************************************************)
(* That a compiled body does what tier 0 does (AsTier0), for every body,   *)
(* every interpreter it may find, every width of the numbers and every     *)
(* generation limit.                                                       *)
(*                                                                         *)
(* What the interpreter will be once the held values are pushed is the     *)
(* same before and after each step of the code that is not a call.  A      *)
(* value is held only while nothing looks: whenever a call may look at the *)
(* stack, collect values or leave it, nothing is held but what it was      *)
(* promised not to reach.                                                  *)
(***************************************************************************)
EXTENDS Jit, TLAPS, SequenceTheorems

-----------------------------------------------------------------------------
(* Sequences of anything.                                                  *)

LEMMA AnySeq ==
  ASSUME NEW S, NEW q \in Seq(S)
  PROVE  IsSeq(q)
BY LenProperties DEF IsSeq

LEMMA Together ==
  ASSUME NEW q, NEW r, IsSeq(q), IsSeq(r)
  PROVE  \E S : q \in Seq(S) /\ r \in Seq(S)
<1> DEFINE A == {q[i] : i \in DOMAIN q}
           B == {r[i] : i \in DOMAIN r}
<1>1. q \in Seq(A) /\ r \in Seq(B)
  BY DEF IsSeq
<1> HIDE DEF A, B
<1>2. q \in Seq(A \cup B) /\ r \in Seq(A \cup B)
  BY <1>1, SeqMonotonic
<1>3. QED
  BY <1>2

LEMMA Joined ==
  ASSUME NEW q, NEW r, IsSeq(q), IsSeq(r)
  PROVE  /\ IsSeq(q \o r)
         /\ Len(q) \in Nat /\ Len(r) \in Nat /\ Len(q \o r) = Len(q) + Len(r)
         /\ \A i \in 1 .. Len(q) : (q \o r)[i] = q[i]
         /\ \A i \in 1 .. Len(r) : (q \o r)[Len(q) + i] = r[i]
         /\ SubSeq(q \o r, 1, Len(q)) = q
         /\ q \o <<>> = q /\ <<>> \o q = q
<1>1. PICK S : q \in Seq(S) /\ r \in Seq(S)
  BY Together
<1>2. /\ q \o r \in Seq(S) /\ Len(q \o r) = Len(q) + Len(r)
      /\ \A i \in 1 .. Len(q) + Len(r) :
           (q \o r)[i] = IF i <= Len(q) THEN q[i] ELSE r[i - Len(q)]
  BY <1>1, ConcatProperties
<1>3. Len(q) \in Nat /\ Len(r) \in Nat
  BY <1>1, LenProperties
<1>4. \A i \in 1 .. Len(q) : (q \o r)[i] = q[i]
  BY <1>2, <1>3
<1>5. ASSUME NEW i \in 1 .. Len(r) PROVE (q \o r)[Len(q) + i] = r[i]
  <2>1. Len(q) + i \in 1 .. Len(q) + Len(r) /\ ~(Len(q) + i <= Len(q)) /\ Len(q) + i - Len(q) = i
    BY <1>3
  <2>2. QED
    BY <1>2, <2>1
<1>6. SubSeq(q \o r, 1, Len(q)) = q
  <2> DEFINE s == SubSeq(q \o r, 1, Len(q))
  <2>1. \A i \in 1 .. Len(q) : (q \o r)[i] \in S
    BY <1>1, <1>4, ElementOfSeq
  <2>2. s \in Seq(S) /\ Len(s) = Len(q) /\ \A i \in 1 .. Len(q) - 1 + 1 : s[i] = (q \o r)[1 + i - 1]
    <3>1. /\ s \in Seq(S) /\ Len(s) = IF 1 <= Len(q) THEN Len(q) - 1 + 1 ELSE 0
          /\ \A i \in 1 .. Len(q) - 1 + 1 : s[i] = (q \o r)[1 + i - 1]
      BY <1>3, <2>1, SubSeqProperties
    <3>2. QED
      BY <1>3, <3>1
  <2> HIDE DEF s
  <2>3. \A i \in 1 .. Len(s) : s[i] = q[i]
    BY <1>3, <1>4, <2>2
  <2>4. QED
    BY <1>1, <2>2, <2>3, SeqEqual DEF s
<1>7. QED
  BY <1>1, <1>2, <1>3, <1>4, <1>5, <1>6, AnySeq, ConcatEmptySeq

LEMMA Joins ==
  ASSUME NEW q, NEW r, NEW s, IsSeq(q), IsSeq(r), IsSeq(s)
  PROVE  (q \o r) \o s = q \o (r \o s)
<1>1. PICK S : q \in Seq(S) /\ r \in Seq(S)
  BY Together
<1>2. IsSeq(q \o r) /\ q \o r \in Seq(S)
  BY <1>1, Joined, ConcatProperties
<1> DEFINE A == S \cup {s[i] : i \in DOMAIN s}
<1>3. s \in Seq({s[i] : i \in DOMAIN s})
  BY DEF IsSeq
<1>4. q \in Seq(A) /\ r \in Seq(A) /\ s \in Seq(A)
  BY <1>1, <1>3, SeqMonotonic
<1>5. QED
  BY <1>4, ConcatAssociative

LEMMA OneMore ==
  ASSUME NEW q, IsSeq(q), NEW x
  PROVE  /\ Append(q, x) = q \o <<x>>
         /\ IsSeq(Append(q, x)) /\ Len(Append(q, x)) = Len(q) + 1
         /\ Append(q, x)[Len(q) + 1] = x
<1>1. IsSeq(<<x>>) /\ Len(<<x>>) = 1 /\ <<x>>[1] = x
  <2>1. <<x>> \in Seq({x})
    OBVIOUS
  <2>2. QED
    BY <2>1, AnySeq
<1>2. Append(q, x) = q \o <<x>>
  <2> DEFINE A == {x} \cup {q[i] : i \in DOMAIN q}
  <2>1. q \in Seq({q[i] : i \in DOMAIN q})
    BY DEF IsSeq
  <2>2. q \in Seq(A) /\ x \in A
    BY <2>1, SeqMonotonic
  <2> HIDE DEF A
  <2>3. QED
    BY <2>2, AppendIsConcat
<1>3. QED
  BY <1>1, <1>2, Joined

(* The first k of a sequence.                                              *)
LEMMA FirstOf ==
  ASSUME NEW q, IsSeq(q), NEW k \in 0 .. Len(q)
  PROVE  /\ IsSeq(SubSeq(q, 1, k)) /\ Len(SubSeq(q, 1, k)) = k
         /\ \A i \in 1 .. k : SubSeq(q, 1, k)[i] = q[i]
         /\ IsSeq(SubSeq(q, k + 1, Len(q))) /\ Len(SubSeq(q, k + 1, Len(q))) = Len(q) - k
         /\ \A i \in 1 .. Len(q) - k : SubSeq(q, k + 1, Len(q))[i] = q[k + i]
         /\ q = SubSeq(q, 1, k) \o SubSeq(q, k + 1, Len(q))
<1>1. PICK S : q \in Seq(S)
  BY DEF IsSeq
<1>2. Len(q) \in Nat /\ \A i \in 1 .. Len(q) : q[i] \in S
  BY <1>1, LenProperties, ElementOfSeq
<1>3. /\ SubSeq(q, 1, k) \in Seq(S) /\ Len(SubSeq(q, 1, k)) = k
      /\ \A i \in 1 .. k : SubSeq(q, 1, k)[i] = q[i]
  <2>1. /\ SubSeq(q, 1, k) \in Seq(S)
        /\ Len(SubSeq(q, 1, k)) = IF 1 <= k THEN k - 1 + 1 ELSE 0
        /\ \A i \in 1 .. k - 1 + 1 : SubSeq(q, 1, k)[i] = q[1 + i - 1]
    <3>1. 1 \in Int /\ k \in Int /\ \A i \in 1 .. k : q[i] \in S
      BY <1>2
    <3>2. QED
      BY <3>1, SubSeqProperties
  <2>2. QED
    BY <1>2, <2>1
<1>4. /\ SubSeq(q, k + 1, Len(q)) \in Seq(S) /\ Len(SubSeq(q, k + 1, Len(q))) = Len(q) - k
      /\ \A i \in 1 .. Len(q) - k : SubSeq(q, k + 1, Len(q))[i] = q[k + i]
  <2>1. /\ SubSeq(q, k + 1, Len(q)) \in Seq(S)
        /\ Len(SubSeq(q, k + 1, Len(q))) = IF k + 1 <= Len(q) THEN Len(q) - (k + 1) + 1 ELSE 0
        /\ \A i \in 1 .. Len(q) - (k + 1) + 1 : SubSeq(q, k + 1, Len(q))[i] = q[k + 1 + i - 1]
    <3>1. k + 1 \in Int /\ Len(q) \in Int /\ \A i \in k + 1 .. Len(q) : q[i] \in S
      BY <1>2
    <3>2. QED
      BY <3>1, SubSeqProperties
  <2>2. QED
    BY <1>2, <2>1
<1>5. SubSeq(q, 1, k) \o SubSeq(q, k + 1, Len(q)) = q
  <2>1. 1 \in 1 .. Len(q) + 1 /\ k \in 1 - 1 .. Len(q) /\ Len(q) \in k .. Len(q)
    BY <1>2
  <2>2. SubSeq(q, 1, k) \o SubSeq(q, k + 1, Len(q)) = SubSeq(q, 1, Len(q))
    BY <1>1, <2>1, ConcatAdjacentSubSeq
  <2>3. QED
    BY <1>1, <2>2, SubSeqFull
<1>6. QED
  BY <1>3, <1>4, <1>5, AnySeq

-----------------------------------------------------------------------------
(* Stacks.                                                                 *)

LEMMA StackJoined ==
  ASSUME NEW q, NEW r, IsStack(q), IsStack(r)
  PROVE  IsStack(q \o r)
<1>1. /\ IsSeq(q \o r) /\ Len(q) \in Nat /\ Len(r) \in Nat /\ Len(q \o r) = Len(q) + Len(r)
      /\ \A i \in 1 .. Len(q) : (q \o r)[i] = q[i]
      /\ \A i \in 1 .. Len(r) : (q \o r)[Len(q) + i] = r[i]
  BY Joined DEF IsStack
<1>2. ASSUME NEW i \in 1 .. Len(q \o r) PROVE IsItem((q \o r)[i])
  <2>1. CASE i <= Len(q)
    BY <1>1, <2>1 DEF IsStack
  <2>2. CASE i > Len(q)
    <3>1. i - Len(q) \in 1 .. Len(r) /\ Len(q) + (i - Len(q)) = i
      BY <1>1, <2>2
    <3>2. (q \o r)[i] = r[i - Len(q)]
      BY <1>1, <3>1
    <3>3. QED
      BY <3>1, <3>2 DEF IsStack
  <2>3. QED
    BY <1>1, <2>1, <2>2
<1>3. QED
  BY <1>1, <1>2 DEF IsStack

LEMMA SmallStacks ==
  /\ IsStack(<<>>)
  /\ \A x : IsItem(x) => IsStack(<<x>>)
  /\ \A x, y : IsItem(x) /\ IsItem(y) => IsStack(<<x, y>>)
<1>1. IsStack(<<>>)
  <2>1. IsSeq(<<>>)
    <3>1. <<>> \in Seq({})
      BY EmptySeq
    <3>2. QED
      BY <3>1, AnySeq
  <2>2. Len(<<>>) = 0
    OBVIOUS
  <2>3. QED
    BY <2>1, <2>2 DEF IsStack
<1>2. ASSUME NEW x, IsItem(x) PROVE IsStack(<<x>>)
  <2>1. <<x>> \in Seq({x}) /\ Len(<<x>>) = 1 /\ <<x>>[1] = x
    OBVIOUS
  <2>2. IsSeq(<<x>>)
    BY <2>1, AnySeq
  <2>3. QED
    BY <1>2, <2>1, <2>2 DEF IsStack
<1>3. ASSUME NEW x, NEW y, IsItem(x), IsItem(y) PROVE IsStack(<<x, y>>)
  <2>1. /\ <<x, y>> \in Seq({x, y}) /\ Len(<<x, y>>) = 2
        /\ <<x, y>>[1] = x /\ <<x, y>>[2] = y
    OBVIOUS
  <2>2. IsSeq(<<x, y>>)
    BY <2>1, AnySeq
  <2>3. \A i \in 1 .. 2 : i = 1 \/ i = 2
    OBVIOUS
  <2>4. QED
    BY <1>3, <2>1, <2>2, <2>3 DEF IsStack
<1>4. QED
  BY <1>1, <1>2, <1>3

-----------------------------------------------------------------------------
(* Interpreters.                                                           *)

(* m with q as its current stack.                                          *)
On(m, q) == [m EXCEPT !.stack[m.current] = q]

LEMMA OnIs ==
  ASSUME NEW m, IsVm(m), NEW q, IsStack(q)
  PROVE  /\ IsVm(On(m, q)) /\ Items(On(m, q)) = q
         /\ On(m, q).current = m.current /\ On(m, q).epoch = m.epoch
         /\ On(m, q).bench = m.bench /\ On(m, q).autoadd = m.autoadd
         /\ On(m, q).native = m.native /\ On(m, q).gen = m.gen
         /\ On(m, q).exit = m.exit /\ On(m, q).seen = m.seen
         /\ IsStack(Items(m)) /\ On(m, Items(m)) = m
<1> DEFINE T == [m.stack EXCEPT ![m.current] = q]
<1>1. On(m, q) = [stack |-> T, current |-> m.current, epoch |-> m.epoch, bench |-> m.bench,
                  autoadd |-> m.autoadd, native |-> m.native, gen |-> m.gen, exit |-> m.exit,
                  seen |-> m.seen]
  BY DEF On, IsVm
<1>2. /\ T = [s \in Stacks |-> T[s]] /\ T[m.current] = q
      /\ \A s \in Stacks : s # m.current => T[s] = m.stack[s]
  BY DEF IsVm
<1>3. \A s \in Stacks : IsStack(T[s])
  BY <1>2 DEF IsVm
<1> HIDE DEF T
<1>4. IsVm(On(m, q)) /\ Items(On(m, q)) = q
  BY <1>1, <1>2, <1>3 DEF IsVm, Items
<1>5. IsStack(Items(m))
  BY DEF IsVm, Items
<1>6. On(m, Items(m)) = m
  <2>1. [m.stack EXCEPT ![m.current] = Items(m)] = m.stack
    BY DEF IsVm, Items
  <2>2. On(m, Items(m)) = [m EXCEPT !.stack = m.stack]
    BY <2>1 DEF On, IsVm
  <2>3. QED
    BY <2>2 DEF IsVm
<1>7. QED
  BY <1>1, <1>4, <1>5, <1>6

(* What a step on the stack leaves alone.                                  *)
Alike(m, w) ==
  /\ w.current = m.current /\ w.epoch = m.epoch /\ w.bench = m.bench
  /\ w.autoadd = m.autoadd /\ w.native = m.native /\ w.gen = m.gen
  /\ w.exit = m.exit /\ w.seen = m.seen

LEMMA OnAlike ==
  ASSUME NEW m, IsVm(m), NEW q, IsStack(q), NEW w, w = On(m, q)
  PROVE  IsVm(w) /\ Items(w) = q /\ Alike(m, w)
BY OnIs DEF Alike

LEMMA OnOn ==
  ASSUME NEW m, IsVm(m), NEW q, NEW r
  PROVE  On(On(m, q), r) = On(m, r)
BY DEF On, IsVm

LEMMA OnStackOps ==
  ASSUME NEW m, IsVm(m)
  PROVE  /\ \A x : Push(m, x) = On(m, Append(Items(m), x))
         /\ \A xs : PushAll(m, xs) = On(m, Items(m) \o xs)
         /\ \A k : Drop(m, k) = On(m, SubSeq(Items(m), 1, Depth(m) - k))
BY DEF Push, PushAll, Drop, On, Items, Depth, IsVm

LEMMA DepthIs ==
  ASSUME NEW m, IsVm(m)
  PROVE  /\ Depth(m) \in Nat /\ Depth(m) = Len(Items(m))
         /\ IsStack(Items(m)) /\ IsSeq(Items(m))
         /\ \A k \in 1 .. Depth(m) : IsItem(Peek(m, k))
<1>1. IsStack(Items(m)) /\ IsSeq(Items(m))
  BY DEF IsVm, Items, IsStack
<1>2. Depth(m) \in Nat /\ Depth(m) = Len(Items(m))
  BY <1>1, LenProperties DEF Depth, IsSeq
<1>3. ASSUME NEW k \in 1 .. Depth(m) PROVE IsItem(Peek(m, k))
  <2>1. Depth(m) - k + 1 \in 1 .. Len(Items(m))
    BY <1>2
  <2>2. QED
    BY <1>1, <2>1 DEF IsStack, Peek
<1>4. QED
  BY <1>1, <1>2, <1>3

LEMMA PushIs ==
  ASSUME NEW m, IsVm(m), NEW x, IsItem(x)
  PROVE  /\ IsVm(Push(m, x)) /\ Items(Push(m, x)) = Append(Items(m), x)
         /\ Alike(m, Push(m, x)) /\ Push(m, x) = PushAll(m, <<x>>)
<1>1. IsStack(Items(m)) /\ IsSeq(Items(m))
  BY DepthIs
<1>2. Append(Items(m), x) = Items(m) \o <<x>>
  BY <1>1, OneMore
<1>3. IsStack(Append(Items(m), x))
  BY <1>1, <1>2, SmallStacks, StackJoined
<1>4. Push(m, x) = On(m, Append(Items(m), x)) /\ PushAll(m, <<x>>) = On(m, Items(m) \o <<x>>)
  BY OnStackOps
<1>5. QED
  BY <1>2, <1>3, <1>4, OnAlike

LEMMA PushAllIs ==
  ASSUME NEW m, IsVm(m), NEW q, IsStack(q)
  PROVE  /\ IsVm(PushAll(m, q)) /\ Items(PushAll(m, q)) = Items(m) \o q
         /\ Alike(m, PushAll(m, q))
         /\ Depth(PushAll(m, q)) = Depth(m) + Len(q)
<1>1. IsStack(Items(m)) /\ Depth(m) = Len(Items(m)) /\ IsSeq(Items(m)) /\ IsSeq(q)
  BY DepthIs DEF IsStack
<1>2. IsStack(Items(m) \o q) /\ Len(Items(m) \o q) = Len(Items(m)) + Len(q)
  BY <1>1, Joined, StackJoined
<1>3. PushAll(m, q) = On(m, Items(m) \o q)
  BY OnStackOps
<1>4. IsVm(PushAll(m, q)) /\ Items(PushAll(m, q)) = Items(m) \o q /\ Alike(m, PushAll(m, q))
  BY <1>2, <1>3, OnAlike
<1>5. QED
  BY <1>1, <1>2, <1>4, DepthIs

LEMMA DropIs ==
  ASSUME NEW m, IsVm(m), NEW k \in Nat, k <= Depth(m)
  PROVE  /\ IsVm(Drop(m, k)) /\ Items(Drop(m, k)) = SubSeq(Items(m), 1, Depth(m) - k)
         /\ Alike(m, Drop(m, k))
         /\ Depth(Drop(m, k)) = Depth(m) - k
<1>1. IsStack(Items(m)) /\ IsSeq(Items(m)) /\ Depth(m) = Len(Items(m)) /\ Depth(m) \in Nat
  BY DepthIs
<1>2. Depth(m) - k \in 0 .. Len(Items(m))
  BY <1>1
<1> DEFINE q == SubSeq(Items(m), 1, Depth(m) - k)
<1>3. /\ IsSeq(q) /\ Len(q) = Depth(m) - k
      /\ \A i \in 1 .. Depth(m) - k : q[i] = Items(m)[i]
  BY <1>1, <1>2, FirstOf
<1>4. Drop(m, k) = On(m, q)
  BY OnStackOps
<1> HIDE DEF q
<1>5. IsStack(q)
  BY <1>1, <1>2, <1>3 DEF IsStack
<1>6. IsVm(Drop(m, k)) /\ Items(Drop(m, k)) = q /\ Alike(m, Drop(m, k))
  BY <1>4, <1>5, OnAlike
<1>7. QED
  BY <1>3, <1>6, DepthIs DEF q

-----------------------------------------------------------------------------
(* What applying a value makes of an interpreter.                          *)

(* Names are bound anew, each time with a new generation.                  *)
Grew(m, w) ==
  \A n \in Names :
    /\ m.gen[n] <= w.gen[n]
    /\ (m.gen[n] = w.gen[n] /\ m.gen[n] < MaxGen) => m.native[n] = w.native[n]

LEMMA SeenStill ==
  ASSUME NEW m, IsVm(m), NEW w, IsVm(w), Grew(m, w),
         NEW b, b.gen \in [Names -> Nat], SeenBy(b, m)
  PROVE  SeenBy(b, w)
<1> SUFFICES ASSUME NEW n \in Names
             PROVE  /\ b.gen[n] <= w.gen[n]
                    /\ (b.gen[n] = w.gen[n] /\ b.gen[n] < MaxGen) => b.native[n] = w.native[n]
  BY DEF SeenBy
<1>1. b.gen[n] \in Nat /\ m.gen[n] \in Nat /\ w.gen[n] \in Nat /\ MaxGen \in Nat
  BY JitAssumption DEF IsVm
<1>2. QED
  BY <1>1 DEF SeenBy, Grew

(* A native's answer: whether it succeeded, and no lambda filed.           *)
Sound(m, r) ==
  /\ r = [vm |-> r.vm, filed |-> r.filed, ok |-> r.ok]
  /\ IsVm(r.vm) /\ Grew(m, r.vm) /\ r.ok \in BOOLEAN

LEMMA AlikeGrew ==
  ASSUME NEW m, IsVm(m), NEW w, Alike(m, w)
  PROVE  Grew(m, w)
<1> SUFFICES ASSUME NEW n \in Names PROVE m.gen[n] <= w.gen[n] /\ m.native[n] = w.native[n]
  BY DEF Grew
<1>1. QED
  BY DEF Alike, IsVm

LEMMA AnswerSound ==
  ASSUME NEW m, IsVm(m), NEW w, IsVm(w), Grew(m, w), NEW ok \in BOOLEAN
  PROVE  /\ Sound(m, Answer(w, ok)) /\ Answer(w, ok).filed = <<>>
         /\ Answer(w, ok).vm = w /\ Answer(w, ok).ok = ok
BY DEF Sound, Answer

LEMMA Reflexive ==
  ASSUME NEW m, IsVm(m)
  PROVE  Grew(m, m) /\ Alike(m, m)
BY DEF Grew, Alike, IsVm

LEMMA WrapInt == \A n \in Int : Wrap(n) \in Int
BY JitAssumption DEF Wrap

(* What literals, natives and held values put on the stack.                *)
LEMMA ItemsMade ==
  /\ \A n \in Int : IsItem(Number(n))
  /\ \A b : IsItem(Bool(b))
  /\ IsItem(Text)
  /\ \A v \in DOMAIN Literals : IsItem(Literals[v])
  /\ \A n \in Names \cup Contexts : IsItem(Name(n))
  /\ \A x, y : IsItem(x) => IsItem(Collected(x, y)) \/ Collected(x, y) = y
<1>1. \A n \in Int : IsItem(Number(n))
  BY WrapInt DEF IsItem, Number, Of
<1>2. \A b : IsItem(Bool(b))
  BY DEF IsItem, Bool, Of
<1>3. IsItem(Text) /\ IsItem(Of("list", 0))
  BY DEF IsItem, Text, Of
<1>4. ASSUME NEW v \in DOMAIN Literals PROVE IsItem(Literals[v])
  <2>1. v \in {"1", "3", "text", "list"}
    BY DEF Literals
  <2>2. Literals[v] \in {Number(1), Number(3), Text, Of("list", 0)}
    BY <2>1 DEF Literals
  <2>3. QED
    BY <1>1, <1>3, <2>2
<1>5. \A n \in Names \cup Contexts : IsItem(Name(n))
  BY DEF IsItem, Name, Of, Names, Contexts
<1>6. ASSUME NEW x, NEW y, IsItem(x) PROVE IsItem(Collected(x, y)) \/ Collected(x, y) = y
  <2>1. CASE x.kind # "list"
    BY <2>1 DEF Collected
  <2>2. CASE x.kind = "list"
    <3>1. Collected(x, y) = [kind |-> x.kind, n |-> x.n, given |-> Append(x.given, y)]
      BY <1>6, <2>2 DEF Collected, IsItem
    <3>2. QED
      BY <2>2, <3>1 DEF IsItem
  <2>3. QED
    BY <2>1, <2>2
<1>7. QED
  BY <1>1, <1>2, <1>3, <1>4, <1>5, <1>6

LEMMA NumericIs ==
  ASSUME NEW op, NEW x, NEW y, IsItem(x), IsItem(y)
  PROVE  IsStack(NumericOp(op, x, y))
<1>1. ASSUME NEW l, IsItem(l), l.kind = "list", NEW g PROVE IsItem([l EXCEPT !.given = g])
  <2>1. [l EXCEPT !.given = g] = [kind |-> l.kind, n |-> l.n, given |-> g]
    BY <1>1 DEF IsItem
  <2>2. QED
    BY <1>1, <2>1 DEF IsItem
<1>2. IsStack(<<Text>>) /\ IsStack(<<>>) /\ \A n \in Int : IsStack(<<Number(n)>>)
  BY ItemsMade, SmallStacks
<1>3. CASE AreInt(x, y)
  <2>1. x.n + y.n \in Int /\ x.n - y.n \in Int
    BY <1>3 DEF AreInt, IsItem
  <2>2. NumericOp(op, x, y) = <<Number(IF op = "add" THEN x.n + y.n ELSE x.n - y.n)>>
    BY <1>3 DEF NumericOp, AreInt, IsText
  <2>3. QED
    BY <1>2, <2>1, <2>2
<1>4. CASE ~AreInt(x, y) /\ IsText(x)
  BY <1>2, <1>4 DEF NumericOp, AreInt, IsText
<1>5. CASE x.kind = "int" /\ IsText(y)
  BY <1>2, <1>5 DEF NumericOp, AreInt, IsText
<1>6. CASE ~AreInt(x, y) /\ ~IsText(x) /\ ~(x.kind = "int" /\ IsText(y))
  <2>1. CASE op = "add" /\ x.kind = "list"
    <3> DEFINE g == x.given \o (IF y.kind = "list" THEN y.given ELSE <<y>>)
    <3>1. NumericOp(op, x, y) = <<[x EXCEPT !.given = g]>>
      BY <1>6, <2>1 DEF NumericOp
    <3>2. QED
      BY <1>1, <2>1, <3>1, SmallStacks
  <2>2. CASE op = "add" /\ x.kind = "bool" /\ y.kind = "list"
    <3>1. NumericOp(op, x, y) = <<[y EXCEPT !.given = Append(y.given, x)]>>
      BY <1>6, <2>2 DEF NumericOp
    <3>2. QED
      BY <1>1, <2>2, <3>1, SmallStacks
  <2>3. CASE ~(op = "add" /\ x.kind = "list") /\ ~(op = "add" /\ x.kind = "bool" /\ y.kind = "list")
    <3>1. NumericOp(op, x, y) = <<>>
      BY <1>6, <2>3 DEF NumericOp
    <3>2. QED
      BY <1>2, <3>1
  <2>4. QED
    BY <2>1, <2>2, <2>3
<1>7. QED
  BY <1>3, <1>4, <1>5, <1>6

LEMMA DropPush ==
  ASSUME NEW m, IsVm(m), NEW k \in Nat, k <= Depth(m), NEW q, IsStack(q)
  PROVE  /\ IsVm(PushAll(Drop(m, k), q)) /\ Alike(m, PushAll(Drop(m, k), q))
         /\ Items(PushAll(Drop(m, k), q)) = SubSeq(Items(m), 1, Depth(m) - k) \o q
<1>1. /\ IsVm(Drop(m, k)) /\ Items(Drop(m, k)) = SubSeq(Items(m), 1, Depth(m) - k)
      /\ Alike(m, Drop(m, k))
  BY DropIs
<1>2. /\ IsVm(PushAll(Drop(m, k), q)) /\ Items(PushAll(Drop(m, k), q)) = Items(Drop(m, k)) \o q
      /\ Alike(Drop(m, k), PushAll(Drop(m, k), q))
  BY <1>1, PushAllIs
<1>3. QED
  BY <1>1, <1>2 DEF Alike

(* The fields that are not stacks nor bindings.                            *)
LEMMA FieldsChange ==
  ASSUME NEW m, IsVm(m)
  PROVE  /\ \A x : IsVm([m EXCEPT !.bench = x]) /\ Grew(m, [m EXCEPT !.bench = x])
         /\ \A x : IsVm([m EXCEPT !.seen = x]) /\ Grew(m, [m EXCEPT !.seen = x])
         /\ \A x \in BOOLEAN : IsVm([m EXCEPT !.autoadd = x]) /\ Grew(m, [m EXCEPT !.autoadd = x])
         /\ \A x \in BOOLEAN : IsVm([m EXCEPT !.exit = x]) /\ Grew(m, [m EXCEPT !.exit = x])
         /\ \A s \in Stacks : IsVm(To(m, s)) /\ Grew(m, To(m, s))
<1>1. \A n \in Names : m.gen[n] \in Nat
  BY DEF IsVm
<1>2. ASSUME NEW x PROVE IsVm([m EXCEPT !.bench = x]) /\ Grew(m, [m EXCEPT !.bench = x])
  BY <1>1 DEF IsVm, Grew
<1>3. ASSUME NEW x PROVE IsVm([m EXCEPT !.seen = x]) /\ Grew(m, [m EXCEPT !.seen = x])
  BY <1>1 DEF IsVm, Grew
<1>4. ASSUME NEW x \in BOOLEAN
      PROVE  IsVm([m EXCEPT !.autoadd = x]) /\ Grew(m, [m EXCEPT !.autoadd = x])
  BY <1>1 DEF IsVm, Grew
<1>5. ASSUME NEW x \in BOOLEAN
      PROVE  IsVm([m EXCEPT !.exit = x]) /\ Grew(m, [m EXCEPT !.exit = x])
  BY <1>1 DEF IsVm, Grew
<1>6. ASSUME NEW s \in Stacks PROVE IsVm(To(m, s)) /\ Grew(m, To(m, s))
  <2> DEFINE e == m.epoch + (IF m.current = s THEN 0 ELSE 1)
  <2>1. e \in Nat
    BY DEF IsVm
  <2>2. To(m, s) = [m EXCEPT !.current = s, !.epoch = e]
    BY DEF To, IsVm
  <2>3. To(m, s) = [stack |-> m.stack, current |-> s, epoch |-> e, bench |-> m.bench,
                    autoadd |-> m.autoadd, native |-> m.native, gen |-> m.gen, exit |-> m.exit,
                    seen |-> m.seen]
    BY <2>2 DEF IsVm
  <2> HIDE DEF e
  <2>4. IsVm(To(m, s))
    BY <2>1, <2>3 DEF IsVm
  <2>5. Grew(m, To(m, s))
    BY <1>1, <2>3 DEF Grew
  <2>6. QED
    BY <2>4, <2>5
<1>7. QED
  BY <1>2, <1>3, <1>4, <1>5, <1>6

LEMMA ReboundGrew ==
  ASSUME NEW m, IsVm(m), NEW n \in Names, n # "f"
  PROVE  IsVm(Rebound(m, n)) /\ Grew(m, Rebound(m, n))
<1> DEFINE w == Rebound(m, n)
<1>1. /\ w = [stack |-> m.stack, current |-> m.current, epoch |-> m.epoch, bench |-> m.bench,
              autoadd |-> m.autoadd, native |-> w.native, gen |-> w.gen, exit |-> m.exit,
              seen |-> m.seen]
      /\ w.native = [m.native EXCEPT ![n] = ~@]
      /\ w.gen = [m.gen EXCEPT ![n] = IF @ < MaxGen THEN @ + 1 ELSE @]
  <2> DEFINE flipped == ~m.native[n]
             next == IF m.gen[n] < MaxGen THEN m.gen[n] + 1 ELSE m.gen[n]
  <2>1. w = [m EXCEPT !.native[n] = flipped, !.gen[n] = next]
    BY DEF Rebound, IsVm
  <2> HIDE DEF flipped, next, w
  <2>2. /\ w = [stack |-> m.stack, current |-> m.current, epoch |-> m.epoch, bench |-> m.bench,
                autoadd |-> m.autoadd, native |-> w.native, gen |-> w.gen, exit |-> m.exit,
                seen |-> m.seen]
        /\ w.native = [m.native EXCEPT ![n] = flipped]
        /\ w.gen = [m.gen EXCEPT ![n] = next]
    BY <2>1 DEF IsVm
  <2>3. QED
    BY <2>2 DEF flipped, next
<1>2. MaxGen \in Nat /\ m.gen \in [Names -> Nat] /\ m.native \in [Names -> BOOLEAN] /\ ~m.native["f"]
  BY JitAssumption DEF IsVm
<1>3. w.native \in [Names -> BOOLEAN] /\ ~w.native["f"] /\ w.gen \in [Names -> Nat]
  <2>1. "f" \in Names
    BY DEF Names
  <2>2. w.gen \in [Names -> Nat]
    BY <1>1, <1>2
  <2>3. w.native \in [Names -> BOOLEAN]
    BY <1>1, <1>2
  <2>4. QED
    BY <1>1, <1>2, <2>1, <2>2, <2>3
<1> HIDE DEF w
<1>4. IsVm(w)
  BY <1>1, <1>3 DEF IsVm
<1>5. Grew(m, w)
  <2> SUFFICES ASSUME NEW k \in Names
               PROVE  /\ m.gen[k] <= w.gen[k]
                      /\ (m.gen[k] = w.gen[k] /\ m.gen[k] < MaxGen) => m.native[k] = w.native[k]
    BY DEF Grew
  <2>1. CASE k = n
    <3>1. w.gen[k] = IF m.gen[k] < MaxGen THEN m.gen[k] + 1 ELSE m.gen[k]
      BY <1>1, <1>2, <2>1
    <3>2. QED
      BY <1>2, <3>1
  <2>2. CASE k # n
    <3>1. w.gen[k] = m.gen[k] /\ w.native[k] = m.native[k]
      BY <1>1, <1>2, <2>2
    <3>2. QED
      BY <1>2, <3>1
  <2>3. QED
    BY <2>1, <2>2
<1>6. QED
  BY <1>4, <1>5 DEF w

LEMMA StackWordsSound ==
  ASSUME NEW m, IsVm(m)
  PROVE  /\ \A op : Sound(m, Binary(m, Computing(m, op))) /\ Binary(m, Computing(m, op)).filed = <<>>
         /\ Sound(m, Binary(m, Less(m))) /\ Binary(m, Less(m)).filed = <<>>
         /\ Sound(m, SumBench(m)) /\ SumBench(m).filed = <<>>
         /\ Sound(m, SwapOne(m)) /\ SwapOne(m).filed = <<>>
         /\ Sound(m, DupOne(m)) /\ DupOne(m).filed = <<>>
         /\ Sound(m, DropWord(m)) /\ DropWord(m).filed = <<>>
         /\ Sound(m, ReturnWord(m)) /\ ReturnWord(m).filed = <<>>
<1>0. Depth(m) \in Nat
  BY DepthIs
<1>1. Sound(m, Refuse(m)) /\ Refuse(m).filed = <<>>
  BY AnswerSound, Reflexive DEF Refuse
<1>2. ASSUME NEW w, IsVm(w), Grew(m, w)
      PROVE  /\ Sound(m, Fine(w)) /\ Fine(w).filed = <<>>
             /\ Sound(m, Refuse(w)) /\ Refuse(w).filed = <<>>
             /\ \A ok \in BOOLEAN : Sound(m, Answer(w, ok)) /\ Answer(w, ok).filed = <<>>
  BY <1>2, AnswerSound DEF Fine, Refuse
<1>3. ASSUME NEW k \in Nat, k <= Depth(m)
      PROVE  IsVm(Drop(m, k)) /\ Grew(m, Drop(m, k))
  BY <1>3, DropIs, AlikeGrew
<1>4. ASSUME NEW k \in Nat, k <= Depth(m), NEW q, IsStack(q)
      PROVE  IsVm(PushAll(Drop(m, k), q)) /\ Grew(m, PushAll(Drop(m, k), q))
  BY <1>4, DropPush, AlikeGrew
<1>5. /\ Depth(m) >= 1 => IsItem(Peek(m, 1))
      /\ Depth(m) >= 2 => IsItem(Peek(m, 2))
  BY <1>0, DepthIs
<1>6. ASSUME NEW op
      PROVE  Sound(m, Binary(m, Computing(m, op))) /\ Binary(m, Computing(m, op)).filed = <<>>
  <2>1. CASE Depth(m) < 2
    BY <1>1, <2>1 DEF Binary
  <2>2. CASE ~(Depth(m) < 2)
    <3> DEFINE q == NumericOp(op, Peek(m, 1), Peek(m, 2))
    <3>0. 2 <= Depth(m) /\ Depth(m) >= 2 /\ Depth(m) >= 1
      BY <1>0, <2>2
    <3>1. IsStack(q) /\ 2 <= Depth(m)
      BY <1>5, <3>0, NumericIs
    <3>2. IsVm(PushAll(Drop(m, 2), q)) /\ Grew(m, PushAll(Drop(m, 2), q))
      BY <1>4, <3>1
    <3>3. Computing(m, op) = Answer(PushAll(Drop(m, 2), q), q # <<>>)
      BY DEF Computing
    <3>4. (q # <<>>) \in BOOLEAN
      OBVIOUS
    <3>5. Sound(m, Computing(m, op)) /\ Computing(m, op).filed = <<>>
      <4> HIDE DEF q
      <4>1. QED
        BY <1>2, <3>2, <3>3, <3>4
    <3>6. QED
      BY <2>2, <3>5 DEF Binary
  <2>3. QED
    BY <2>1, <2>2
<1>7. Sound(m, Binary(m, Less(m))) /\ Binary(m, Less(m)).filed = <<>>
  <2>1. CASE Depth(m) < 2
    BY <1>1, <2>1 DEF Binary
  <2>2. CASE ~(Depth(m) < 2)
    <3>1. IsVm(Drop(m, 2)) /\ Grew(m, Drop(m, 2)) /\ 2 <= Depth(m)
      BY <1>0, <1>3, <2>2
    <3>2. ASSUME NEW x, IsItem(x)
          PROVE  IsVm(Push(Drop(m, 2), x)) /\ Grew(m, Push(Drop(m, 2), x))
      <4>1. Push(Drop(m, 2), x) = PushAll(Drop(m, 2), <<x>>)
        BY <3>1, <3>2, PushIs
      <4>2. QED
        BY <1>4, <3>1, <3>2, <4>1, SmallStacks
    <3>3. Sound(m, Less(m)) /\ Less(m).filed = <<>>
      BY <1>2, <3>1, <3>2, ItemsMade DEF Less
    <3>4. QED
      BY <2>2, <3>3 DEF Binary
  <2>3. QED
    BY <2>1, <2>2
<1>8. ASSUME NEW w, IsVm(w), Grew(m, w), NEW x
      PROVE  IsVm([w EXCEPT !.bench = x]) /\ Grew(m, [w EXCEPT !.bench = x])
  <2>1. IsVm([w EXCEPT !.bench = x]) /\ [w EXCEPT !.bench = x].gen = w.gen
        /\ [w EXCEPT !.bench = x].native = w.native
    BY <1>8, FieldsChange DEF IsVm
  <2>2. QED
    BY <1>8, <2>1 DEF Grew
<1>9. Sound(m, SumBench(m)) /\ SumBench(m).filed = <<>>
  <2>1. CASE Depth(m) < 1 \/ m.bench = <<>>
    BY <1>1, <2>1 DEF SumBench
  <2>2. CASE ~(Depth(m) < 1 \/ m.bench = <<>>)
    <3> DEFINE q == NumericOp("add", Last(m.bench), Peek(m, 1))
               w == Drop(m, 1)
               v == [w EXCEPT !.bench = Front(w.bench) \o q]
    <3>1. IsVm(w) /\ Grew(m, w)
      BY <1>0, <1>3, <2>2
    <3>2. IsVm(v) /\ Grew(m, v)
      <4> HIDE DEF w, q
      <4>1. QED
        BY <1>8, <3>1
    <3>3. SumBench(m) = Answer(v, q # <<>>)
      BY <2>2 DEF SumBench
    <3>4. (q # <<>>) \in BOOLEAN
      OBVIOUS
    <3> HIDE DEF q, v
    <3>5. QED
      BY <1>2, <3>2, <3>3, <3>4
  <2>3. QED
    BY <2>1, <2>2
<1>10. Sound(m, SwapOne(m)) /\ SwapOne(m).filed = <<>>
  <2>1. CASE Depth(m) < 2
    BY <1>1, <2>1 DEF Binary, SwapOne
  <2>2. CASE ~(Depth(m) < 2)
    <3>1. 2 <= Depth(m)
      BY <1>0, <2>2
    <3>2. IsStack(<<Peek(m, 1), Peek(m, 2)>>)
      <4>1. Depth(m) >= 1 /\ Depth(m) >= 2
        BY <1>0, <2>2
      <4>2. QED
        BY <1>5, <4>1, SmallStacks
    <3>3. QED
      BY <1>2, <1>4, <2>2, <3>1, <3>2 DEF Binary, SwapOne
  <2>3. QED
    BY <2>1, <2>2
<1>11. Sound(m, DupOne(m)) /\ DupOne(m).filed = <<>>
  <2>1. ~(Depth(m) < 1) => Depth(m) >= 1
    BY <1>0
  <2>2. QED
    BY <1>1, <1>2, <1>5, <2>1, PushIs, AlikeGrew DEF DupOne
<1>12. Sound(m, DropWord(m)) /\ DropWord(m).filed = <<>>
  BY <1>0, <1>1, <1>2, <1>3 DEF DropWord
<1>13. Sound(m, ReturnWord(m)) /\ ReturnWord(m).filed = <<>>
  <2>1. CASE Depth(m) < 1
    BY <1>1, <2>1 DEF ReturnWord
  <2>2. CASE ~(Depth(m) < 1)
    <3> DEFINE w == Drop(m, 1)
               v == [w EXCEPT !.bench = Append(w.bench, Peek(m, 1))]
    <3>1. IsVm(w) /\ Grew(m, w)
      BY <1>0, <1>3, <2>2
    <3>2. IsVm(v) /\ Grew(m, v)
      <4> HIDE DEF w
      <4>1. QED
        BY <1>8, <3>1
    <3>3. ReturnWord(m) = Fine(v)
      BY <2>2 DEF ReturnWord
    <3> HIDE DEF v
    <3>4. QED
      BY <1>2, <3>2, <3>3
  <2>3. QED
    BY <2>1, <2>2
<1>14. QED
  BY <1>6, <1>7, <1>9, <1>10, <1>11, <1>12, <1>13

LEMMA NativeSound ==
  ASSUME NEW m, IsVm(m), NEW n \in (Names \ {"f"}) \cup Commands, NEW ip
  PROVE  Sound(m, Native(m, n, ip)) /\ Native(m, n, ip).filed = <<>>
<1>0. /\ Sound(m, Refuse(m)) /\ Refuse(m).filed = <<>>
      /\ Sound(m, Fine(m)) /\ Fine(m).filed = <<>>
  BY AnswerSound, Reflexive DEF Refuse, Fine
<1>1. ASSUME NEW w, IsVm(w), Grew(m, w)
      PROVE  Sound(m, Fine(w)) /\ Fine(w).filed = <<>>
  BY <1>1, AnswerSound DEF Fine
<1>2. CASE n \in {"+", "-", "<", "swap_one", "dup_one", "drop", "return", "+."}
  BY <1>2, StackWordsSound DEF Native
<1>3. CASE n = "nl"
  BY <1>0, <1>3 DEF Native
<1>4. CASE n = "look"
  <2>1. Native(m, n, ip) = Fine([m EXCEPT !.seen = [stack |-> Items(m), ip |-> ip]])
    BY <1>4 DEF Native
  <2>2. QED
    BY <1>1, <2>1, FieldsChange
<1>5. CASE n = "stacks_left"
  <2>1. Native(m, n, ip) = Fine(To(m, Other(m.current))) /\ Other(m.current) \in Stacks
    BY <1>5 DEF Native, Other, Stacks
  <2>2. QED
    BY <1>1, <2>1, FieldsChange
<1>6. CASE n = "exit"
  <2>1. Native(m, n, ip) = Fine([m EXCEPT !.exit = TRUE])
    BY <1>6 DEF Native
  <2>2. QED
    BY <1>1, <2>1, FieldsChange
<1>7. CASE n = "oops"
  BY <1>0, <1>7 DEF Native
<1>8. CASE n = "bind+"
  <2>1. Native(m, n, ip) = Fine(Rebound(m, "+")) /\ "+" \in Names
    BY <1>8 DEF Native, Names
  <2>2. QED
    BY <1>1, <2>1, ReboundGrew
<1>9. CASE n = "bindnl"
  <2>1. Native(m, n, ip) = Fine(Rebound(m, "nl")) /\ "nl" \in Names
    BY <1>9 DEF Native, Names
  <2>2. QED
    BY <1>1, <2>1, ReboundGrew
<1>10. CASE n = ":"
  <2>1. Native(m, n, ip) = AutoaddEnable(m)
    BY <1>10 DEF Native
  <2>2. QED
    BY <1>0, <1>1, <2>1, FieldsChange DEF AutoaddEnable
<1>11. CASE n = ";"
  <2>1. Native(m, n, ip) = AutoaddDisable(m)
    BY <1>11 DEF Native
  <2>2. QED
    BY <1>0, <1>1, <2>1, FieldsChange DEF AutoaddDisable
<1>12. QED
  BY <1>2, <1>3, <1>4, <1>5, <1>6, <1>7, <1>8, <1>9, <1>10, <1>11 DEF Names, Commands

LEMMA CollectSound ==
  ASSUME NEW m, IsVm(m), NEW x, IsItem(x)
  PROVE  Sound(m, Collect(m, x)) /\ Collect(m, x).filed = <<>>
<1>1. Sound(m, Refuse(m)) /\ Refuse(m).filed = <<>>
  BY AnswerSound, Reflexive DEF Refuse
<1>2. CASE Depth(m) < 1
  BY <1>1, <1>2 DEF Collect
<1>3. CASE ~(Depth(m) < 1)
  <2> DEFINE y == Collected(Peek(m, 1), x)
  <2>1. 1 <= Depth(m)
    BY <1>3, DepthIs
  <2>2. IsVm(Drop(m, 1)) /\ Alike(m, Drop(m, 1))
    BY <2>1, DropIs
  <2>3. IsVm(Push(Drop(m, 1), y)) /\ Alike(Drop(m, 1), Push(Drop(m, 1), y))
    <3>1. IsItem(Peek(m, 1))
      BY <2>1, DepthIs
    <3>2. IsItem(y)
      BY <3>1, ItemsMade
    <3> HIDE DEF y
    <3>3. QED
      BY <2>2, <3>2, PushIs
  <2>4. Grew(m, Push(Drop(m, 1), y))
    BY <2>2, <2>3, AlikeGrew DEF Alike
  <2>5. Collect(m, x) = Fine(Push(Drop(m, 1), y))
    BY <1>3 DEF Collect
  <2>6. ASSUME NEW w, IsVm(w), Grew(m, w) PROVE Sound(m, Fine(w)) /\ Fine(w).filed = <<>>
    BY <2>6, AnswerSound DEF Fine
  <2> HIDE DEF y
  <2>7. QED
    BY <2>3, <2>4, <2>5, <2>6
<1>4. QED
  BY <1>2, <1>3

LEMMA ApplySound ==
  ASSUME NEW m, IsVm(m), NEW v \in Values, NEW ip
  PROVE  Sound(m, Apply(m, v, ip)) /\ Apply(m, v, ip).filed \in Seq(Values)
<1>0. <<>> \in Seq(Values)
  BY EmptySeq
<1>1. ASSUME NEW w, IsVm(w), Grew(m, w)
      PROVE  Sound(m, Fine(w)) /\ Fine(w).filed = <<>>
  BY <1>1, AnswerSound DEF Fine
<1>2. \A x : IsItem(x) => Sound(m, Fine(Push(m, x))) /\ Fine(Push(m, x)).filed = <<>>
  BY <1>1, PushIs, AlikeGrew
<1>3. CASE v \in Contexts
  <2>1. StackOf(v) \in Stacks
    BY DEF StackOf, Stacks
  <2>2. Sound(m, Fine(To(m, StackOf(v)))) /\ Fine(To(m, StackOf(v))).filed = <<>>
    BY <1>1, <2>1, FieldsChange
  <2>0. v \notin DOMAIN Literals
    <3>1. DOMAIN Literals = {"1", "3", "text", "list"}
      BY DEF Literals
    <3>2. QED
      BY <1>3, <3>1 DEF Contexts
  <2>3. CASE m.autoadd
    <3>1. Apply(m, v, ip) = Fine(Push(m, Name(v)))
      BY <1>3, <2>0, <2>3 DEF Apply
    <3>2. IsItem(Name(v))
      BY <1>3, ItemsMade
    <3>3. QED
      BY <1>0, <1>2, <3>1, <3>2
  <2>4. CASE ~m.autoadd
    <3>1. Apply(m, v, ip) = Fine(To(m, StackOf(v)))
      BY <1>3, <2>0, <2>4 DEF Apply
    <3>2. QED
      BY <1>0, <2>2, <3>1
  <2>5. QED
    BY <2>3, <2>4
<1>4. CASE v \notin Contexts /\ v \in DOMAIN Literals
  <2>1. IsItem(Literals[v])
    BY <1>4, ItemsMade
  <2>2. QED
    BY <1>0, <1>2, <1>4, <2>1, CollectSound DEF Apply
<1>5. CASE v \notin Contexts /\ v \notin DOMAIN Literals
  <2>1. Apply(m, v, ip) = Dispatch(m, v, ip) /\ v \in Names \cup Commands
    BY <1>5 DEF Apply, Values
  <2>2. CASE v \in Commands
    <3>1. Dispatch(m, v, ip) = Native(m, v, ip)
      BY <2>2 DEF Dispatch
    <3>2. QED
      BY <1>0, <2>1, <2>2, <3>1, NativeSound
  <2>3. CASE v \notin Commands /\ m.autoadd
    <3>1. Dispatch(m, v, ip) = Collect(m, Name(v))
      BY <2>3 DEF Dispatch
    <3>2. IsItem(Name(v))
      BY <2>1, <2>3, ItemsMade
    <3>3. QED
      BY <1>0, <2>1, <3>1, <3>2, CollectSound
  <2>4. CASE v \notin Commands /\ ~m.autoadd /\ ~m.native[v]
    <3>1. Dispatch(m, v, ip) = File(m, LambdaOf[v])
      BY <2>4 DEF Dispatch
    <3>2. LambdaOf[v] \in Seq(Values)
      BY <2>1, <2>4, JitAssumption
    <3>3. QED
      BY <2>1, <3>1, <3>2, Reflexive DEF Sound, File
  <2>5. CASE v \notin Commands /\ ~m.autoadd /\ m.native[v]
    <3>1. Dispatch(m, v, ip) = Native(m, v, ip)
      BY <2>5 DEF Dispatch
    <3>2. v \in (Names \ {"f"}) \cup Commands
      BY <2>1, <2>5 DEF IsVm
    <3>3. QED
      BY <1>0, <2>1, <3>1, <3>2, NativeSound
  <2>6. QED
    BY <2>2, <2>3, <2>4, <2>5 DEF IsVm
<1>6. QED
  BY <1>3, <1>4, <1>5

(* Tier 0 applies values as compiled code does.                            *)
LEMMA SameOps ==
  /\ \A n : Reference!Wrap(n) = Wrap(n) /\ Reference!Number(n) = Number(n)
  /\ \A k, n : Reference!Of(k, n) = Of(k, n)
  /\ \A b : Reference!Bool(b) = Bool(b)
  /\ Reference!Text = Text /\ Reference!Literals = Literals
  /\ \A m : Reference!Items(m) = Items(m) /\ Reference!Depth(m) = Depth(m)
  /\ \A m, x : Reference!Push(m, x) = Push(m, x) /\ Reference!PushAll(m, x) = PushAll(m, x)
  /\ \A m, k : Reference!Drop(m, k) = Drop(m, k) /\ Reference!Peek(m, k) = Peek(m, k)
  /\ \A m, s : Reference!To(m, s) = To(m, s)
  /\ \A m, n : Reference!Rebound(m, n) = Rebound(m, n)
  /\ \A m, ok : Reference!Answer(m, ok) = Answer(m, ok)
  /\ \A m : Reference!Fine(m) = Fine(m) /\ Reference!Refuse(m) = Refuse(m)
<1>1. \A n : Reference!Wrap(n) = Wrap(n)
  BY DEF Reference!Wrap, Wrap
<1>2. \A k, n : Reference!Of(k, n) = Of(k, n)
  BY DEF Reference!Of, Of
<1>3. \A n : Reference!Number(n) = Number(n)
  BY <1>1, <1>2 DEF Reference!Number, Number
<1>4. \A b : Reference!Bool(b) = Bool(b)
  BY <1>2 DEF Reference!Bool, Bool
<1>5. Reference!Text = Text
  BY <1>2 DEF Reference!Text, Text
<1>6. Reference!Literals = Literals
  BY <1>2, <1>3, <1>5 DEF Reference!Literals, Literals
<1>7. \A m : Reference!Items(m) = Items(m) /\ Reference!Depth(m) = Depth(m)
  BY DEF Reference!Items, Items, Reference!Depth, Depth
<1>8. \A m, x : Reference!Push(m, x) = Push(m, x) /\ Reference!PushAll(m, x) = PushAll(m, x)
  BY DEF Reference!Push, Push, Reference!PushAll, PushAll
<1>9. \A m, k : Reference!Drop(m, k) = Drop(m, k) /\ Reference!Peek(m, k) = Peek(m, k)
  BY <1>7 DEF Reference!Drop, Drop, Reference!Peek, Peek
<1>10. \A m, s : Reference!To(m, s) = To(m, s)
  BY DEF Reference!To, To
<1>11. \A m, n : Reference!Rebound(m, n) = Rebound(m, n)
  BY DEF Reference!Rebound, Rebound
<1>12. \A m, ok : Reference!Answer(m, ok) = Answer(m, ok)
  BY DEF Reference!Answer, Answer
<1>13. \A m : Reference!Fine(m) = Fine(m) /\ Reference!Refuse(m) = Refuse(m)
  BY <1>12 DEF Reference!Fine, Fine, Reference!Refuse, Refuse
<1>14. QED
  BY <1>1, <1>2, <1>3, <1>4, <1>5, <1>6, <1>7, <1>8, <1>9, <1>10, <1>11, <1>12, <1>13

LEMMA SameStackWords ==
  ASSUME NEW m
  PROVE  /\ \A op, x, y : Reference!NumericOp(op, x, y) = NumericOp(op, x, y)
         /\ \A op : Reference!Binary(m, Reference!Computing(m, op)) = Binary(m, Computing(m, op))
         /\ Reference!Binary(m, Reference!Less(m)) = Binary(m, Less(m))
         /\ Reference!SumBench(m) = SumBench(m)
         /\ Reference!SwapOne(m) = SwapOne(m)
         /\ Reference!DupOne(m) = DupOne(m)
         /\ Reference!DropWord(m) = DropWord(m)
         /\ Reference!ReturnWord(m) = ReturnWord(m)
         /\ Reference!AutoaddEnable(m) = AutoaddEnable(m)
         /\ Reference!AutoaddDisable(m) = AutoaddDisable(m)
<1>1. \A x, y : Reference!AreInt(x, y) = AreInt(x, y)
  BY DEF Reference!AreInt, AreInt
<1>2. \A x : Reference!IsText(x) = IsText(x)
  BY DEF Reference!IsText, IsText
<1>3. ASSUME NEW op, NEW x, NEW y PROVE Reference!NumericOp(op, x, y) = NumericOp(op, x, y)
  BY <1>1, <1>2, SameOps DEF Reference!NumericOp, NumericOp
<1>4. \A r : Reference!Binary(m, r) = Binary(m, r)
  BY SameOps DEF Reference!Binary, Binary
<1>5. \A op : Reference!Computing(m, op) = Computing(m, op)
  BY <1>3, SameOps DEF Reference!Computing, Computing
<1>6. Reference!Less(m) = Less(m)
  BY <1>1, SameOps DEF Reference!Less, Less
<1>7. Reference!SumBench(m) = SumBench(m)
  BY <1>3, SameOps DEF Reference!SumBench, SumBench, Reference!Last, Last, Reference!Front, Front
<1>8. Reference!SwapOne(m) = SwapOne(m)
  BY <1>4, SameOps DEF Reference!SwapOne, SwapOne
<1>9. Reference!DupOne(m) = DupOne(m) /\ Reference!DropWord(m) = DropWord(m)
  BY SameOps DEF Reference!DupOne, DupOne, Reference!DropWord, DropWord
<1>10. Reference!ReturnWord(m) = ReturnWord(m)
  BY SameOps DEF Reference!ReturnWord, ReturnWord
<1>11. /\ Reference!AutoaddEnable(m) = AutoaddEnable(m)
       /\ Reference!AutoaddDisable(m) = AutoaddDisable(m)
  BY SameOps DEF Reference!AutoaddEnable, AutoaddEnable, Reference!AutoaddDisable, AutoaddDisable
<1>12. QED
  BY <1>3, <1>4, <1>5, <1>6, <1>7, <1>8, <1>9, <1>10, <1>11

LEMMA SameApply ==
  /\ \A m, v, ip : Reference!Apply(m, v, ip) = Apply(m, v, ip)
  /\ \A r, rest : Reference!After(r, rest) = After(r, rest)
  /\ \A r : Reference!Ended(r) = Ended(r)
<1>1. \A s : Reference!Other(s) = Other(s)
  BY DEF Reference!Other, Other
<1>2. ASSUME NEW m, NEW n, NEW ip PROVE Reference!Native(m, n, ip) = Native(m, n, ip)
  BY <1>1, SameOps, SameStackWords DEF Reference!Native, Native
<1>3. ASSUME NEW m, NEW x PROVE Reference!Collect(m, x) = Collect(m, x)
  BY SameOps DEF Reference!Collect, Collect, Reference!Collected, Collected
<1>4. \A n : Reference!Name(n) = Name(n)
  BY SameOps DEF Reference!Name, Name
<1>5. Reference!Commands = Commands /\ Reference!Contexts = Contexts
  BY DEF Reference!Commands, Commands, Reference!Contexts, Contexts
<1>6. \A s : Reference!StackOf(s) = StackOf(s)
  BY DEF Reference!StackOf, StackOf
<1>7. \A m, l : Reference!File(m, l) = File(m, l)
  BY DEF Reference!File, File
<1>8. ASSUME NEW m, NEW n, NEW ip PROVE Reference!Dispatch(m, n, ip) = Dispatch(m, n, ip)
  BY <1>2, <1>3, <1>4, <1>5, <1>7 DEF Reference!Dispatch, Dispatch
<1>9. ASSUME NEW m, NEW v, NEW ip PROVE Reference!Apply(m, v, ip) = Apply(m, v, ip)
  BY <1>3, <1>4, <1>5, <1>6, <1>8, SameOps DEF Reference!Apply, Apply
<1>10. /\ \A r, rest : Reference!After(r, rest) = After(r, rest)
       /\ \A r : Reference!Ended(r) = Ended(r)
  BY DEF Reference!After, After, Reference!Ended, Ended
<1>11. QED
  BY <1>9, <1>10

-----------------------------------------------------------------------------
(* The numbers held.                                                       *)

Narrow == {n \in Int : Wrap(n) = n}

LEMMA Remainder ==
  ASSUME NEW d \in Nat \ {0}, NEW n \in Int
  PROVE  n % d \in 0 .. d - 1 /\ (n \in 0 .. d - 1 => n % d = n)
OBVIOUS

LEMMA Wraps ==
  ASSUME NEW n \in Int
  PROVE  Wrap(n) \in Narrow /\ Number(Wrap(n)) = Number(n)
<1> DEFINE d == 2 * Half
           k == (n + Half) % d
<1>1. d \in Nat \ {0} /\ n + Half \in Int /\ Half \in Nat
  BY JitAssumption
<1>2. k \in 0 .. d - 1 /\ (k \in 0 .. d - 1 => k % d = k)
  <2> HIDE DEF d
  <2>1. k \in 0 .. d - 1
    BY <1>1, Remainder
  <2>2. k \in Int
    BY <1>1, <2>1
  <2> HIDE DEF k
  <2>3. QED
    BY <1>1, <2>1, <2>2, Remainder
<1>3. Wrap(n) = k - Half /\ Wrap(n) \in Int
  BY <1>1, <1>2 DEF Wrap
<1>4. Wrap(Wrap(n)) = ((k - Half + Half) % d) - Half
  BY <1>3 DEF Wrap
<1>5. k - Half + Half = k
  BY <1>1, <1>2
<1> HIDE DEF k, d
<1>6. Wrap(Wrap(n)) = Wrap(n)
  BY <1>2, <1>3, <1>4, <1>5
<1>7. QED
  BY <1>3, <1>6 DEF Narrow, Number

LEMMA NumbersAre ==
  ASSUME NEW rs \in Seq(Int)
  PROVE  /\ IsStack(Numbers(rs)) /\ IsSeq(Numbers(rs)) /\ IsSeq(rs)
         /\ Len(Numbers(rs)) = Len(rs) /\ Len(rs) \in Nat
         /\ \A i \in 1 .. Len(rs) : Numbers(rs)[i] = Number(rs[i])
<1>1. Len(rs) \in Nat /\ DOMAIN rs = 1 .. Len(rs) /\ \A i \in 1 .. Len(rs) : rs[i] \in Int
  BY LenProperties, ElementOfSeq
<1>2. Numbers(rs) = [i \in 1 .. Len(rs) |-> Number(rs[i])]
  BY <1>1 DEF Numbers
<1> DEFINE S == {Number(rs[i]) : i \in 1 .. Len(rs)}
<1>3. Numbers(rs) \in Seq(S) /\ Len(Numbers(rs)) = Len(rs)
  BY <1>1, <1>2
<1>4. IsSeq(Numbers(rs)) /\ IsSeq(rs)
  BY <1>3, AnySeq
<1>5. QED
  BY <1>1, <1>2, <1>3, <1>4, ItemsMade DEF IsStack

LEMMA NumbersJoined ==
  ASSUME NEW r \in Seq(Int), NEW s \in Seq(Int)
  PROVE  /\ Numbers(r \o s) = Numbers(r) \o Numbers(s)
         /\ r \o s \in Seq(Int) /\ Numbers(<<>>) = <<>>
<1>1. Numbers(<<>>) = <<>>
  BY DEF Numbers
<1>2. /\ r \o s \in Seq(Int) /\ Len(r \o s) = Len(r) + Len(s)
      /\ \A i \in 1 .. Len(r) + Len(s) :
           (r \o s)[i] = IF i <= Len(r) THEN r[i] ELSE s[i - Len(r)]
  BY ConcatProperties
<1>3. /\ IsSeq(Numbers(r)) /\ IsSeq(Numbers(s))
      /\ Len(Numbers(r)) = Len(r) /\ Len(Numbers(s)) = Len(s)
      /\ Len(r) \in Nat /\ Len(s) \in Nat
      /\ \A i \in 1 .. Len(r) : Numbers(r)[i] = Number(r[i])
      /\ \A i \in 1 .. Len(s) : Numbers(s)[i] = Number(s[i])
  BY NumbersAre
<1>4. /\ Len(Numbers(r \o s)) = Len(r) + Len(s) /\ IsSeq(Numbers(r \o s))
      /\ \A i \in 1 .. Len(r) + Len(s) : Numbers(r \o s)[i] = Number((r \o s)[i])
  BY <1>2, NumbersAre
<1>5. PICK S : Numbers(r) \in Seq(S) /\ Numbers(s) \in Seq(S)
  BY <1>3, Together
<1>6. /\ Numbers(r) \o Numbers(s) \in Seq(S)
      /\ Len(Numbers(r) \o Numbers(s)) = Len(r) + Len(s)
      /\ \A i \in 1 .. Len(r) + Len(s) :
           (Numbers(r) \o Numbers(s))[i] =
             IF i <= Len(r) THEN Numbers(r)[i] ELSE Numbers(s)[i - Len(r)]
  <2> DEFINE a == Numbers(r)
             b == Numbers(s)
  <2>1. a \in Seq(S) /\ b \in Seq(S) /\ Len(a) = Len(r) /\ Len(b) = Len(s)
    BY <1>3, <1>5
  <2> HIDE DEF a, b
  <2>2. /\ a \o b \in Seq(S) /\ Len(a \o b) = Len(a) + Len(b)
        /\ \A i \in 1 .. Len(a) + Len(b) :
             (a \o b)[i] = IF i <= Len(a) THEN a[i] ELSE b[i - Len(a)]
    BY <2>1, ConcatProperties
  <2>3. QED
    BY <2>1, <2>2 DEF a, b
<1>7. ASSUME NEW i \in 1 .. Len(r) + Len(s)
      PROVE  Numbers(r \o s)[i] = (Numbers(r) \o Numbers(s))[i]
  <2>1. CASE i <= Len(r)
    BY <1>2, <1>3, <1>4, <1>6, <2>1
  <2>2. CASE i > Len(r)
    <3>1. i - Len(r) \in 1 .. Len(s) /\ ~(i <= Len(r))
      BY <1>3, <2>2
    <3>2. QED
      BY <1>2, <1>3, <1>4, <1>6, <3>1
  <2>3. QED
    BY <1>3, <2>1, <2>2
<1>8. PICK T : Numbers(r \o s) \in Seq(T) /\ Numbers(r) \o Numbers(s) \in Seq(T)
  <2>1. IsSeq(Numbers(r) \o Numbers(s))
    BY <1>3, Joined
  <2>2. QED
    BY <1>4, <2>1, Together
<1>9. Numbers(r \o s) = Numbers(r) \o Numbers(s)
  <2> DEFINE a == Numbers(r \o s)
             b == Numbers(r) \o Numbers(s)
  <2>1. a \in Seq(T) /\ b \in Seq(T) /\ Len(a) = Len(b) /\ \A i \in 1 .. Len(a) : a[i] = b[i]
    BY <1>4, <1>6, <1>7, <1>8
  <2> HIDE DEF a, b
  <2>2. a = b
    BY <2>1, SeqEqual
  <2>3. QED
    BY <2>2 DEF a, b
<1>10. QED
  BY <1>1, <1>2, <1>9

LEMMA SyncedIs ==
  ASSUME NEW m, IsVm(m), NEW rs \in Seq(Int)
  PROVE  /\ IsVm(Synced(m, rs)) /\ Alike(m, Synced(m, rs))
         /\ Synced(m, rs) = On(m, Items(m) \o Numbers(rs))
         /\ Items(Synced(m, rs)) = Items(m) \o Numbers(rs)
         /\ Depth(Synced(m, rs)) = Depth(m) + Len(rs)
         /\ Synced(m, <<>>) = m
<1>1. IsStack(Numbers(rs)) /\ Len(Numbers(rs)) = Len(rs)
  BY NumbersAre
<1>2. Synced(m, rs) = PushAll(m, Numbers(rs)) /\ PushAll(m, Numbers(rs)) = On(m, Items(m) \o Numbers(rs))
  BY OnStackOps DEF Synced
<1>3. Synced(m, <<>>) = m
  <2>1. Synced(m, <<>>) = On(m, Items(m) \o <<>>)
    BY OnStackOps, NumbersJoined, EmptySeq DEF Synced
  <2>2. Items(m) \o <<>> = Items(m)
    BY DepthIs, Joined
  <2>3. QED
    BY <2>1, <2>2, OnIs, SmallStacks
<1>4. QED
  BY <1>1, <1>2, <1>3, PushAllIs

LEMMA SyncedTwice ==
  ASSUME NEW m, IsVm(m), NEW r \in Seq(Int), NEW s \in Seq(Int)
  PROVE  Synced(Synced(m, r), s) = Synced(m, r \o s) /\ r \o s \in Seq(Int)
<1> DEFINE w == Synced(m, r)
<1>1. IsVm(w) /\ w = On(m, Items(m) \o Numbers(r)) /\ Items(w) = Items(m) \o Numbers(r)
  BY SyncedIs
<1>2. Synced(w, s) = On(w, Items(w) \o Numbers(s))
  <2> HIDE DEF w
  <2>1. QED
    BY <1>1, SyncedIs
<1>3. Items(w) \o Numbers(s) = Items(m) \o (Numbers(r) \o Numbers(s))
  <2>1. IsSeq(Items(m)) /\ IsSeq(Numbers(r)) /\ IsSeq(Numbers(s))
    BY DepthIs, NumbersAre
  <2>2. QED
    BY <1>1, <2>1, Joins
<1>4. r \o s \in Seq(Int) /\ Numbers(r) \o Numbers(s) = Numbers(r \o s)
  BY NumbersJoined
<1> HIDE DEF w
<1>5. Synced(w, s) = On(m, Items(m) \o Numbers(r \o s))
  BY <1>1, <1>2, <1>3, <1>4, OnOn
<1>6. Synced(m, r \o s) = On(m, Items(m) \o Numbers(r \o s))
  BY <1>4, SyncedIs
<1>7. QED
  BY <1>4, <1>5, <1>6 DEF w

-----------------------------------------------------------------------------
(* Fragments.                                                              *)

Start(m, rs) == [vm |-> m, regs |-> rs, file |-> <<0, 0>>]

IsRun(fr, s, f) ==
  f = [i \in 0 .. Len(fr.ops) |-> IF i = 0 THEN s ELSE Emitted(f[i - 1], fr.ops[i])]

LEMMA RanIs ==
  ASSUME NEW fr, NEW m, NEW rs, NEW g, IsRun(fr, Start(m, rs), g)
  PROVE  \E f : IsRun(fr, Start(m, rs), f) /\ Ran(fr, m, rs) = f[Len(fr.ops)]
<1> DEFINE run == CHOOSE f : f = [i \in 0 .. Len(fr.ops) |->
                                   IF i = 0 THEN [vm |-> m, regs |-> rs, file |-> <<0, 0>>]
                                   ELSE Emitted(f[i - 1], fr.ops[i])]
<1>1. Ran(fr, m, rs) = run[Len(fr.ops)]
  BY DEF Ran
<1>2. g = [i \in 0 .. Len(fr.ops) |->
             IF i = 0 THEN [vm |-> m, regs |-> rs, file |-> <<0, 0>>]
             ELSE Emitted(g[i - 1], fr.ops[i])]
  BY DEF IsRun, Start
<1>3. run = [i \in 0 .. Len(fr.ops) |->
               IF i = 0 THEN [vm |-> m, regs |-> rs, file |-> <<0, 0>>]
               ELSE Emitted(run[i - 1], fr.ops[i])]
  BY <1>2
<1> HIDE DEF run
<1>4. IsRun(fr, Start(m, rs), run)
  BY <1>3 DEF IsRun, Start
<1>5. QED
  BY <1>1, <1>4

LEMMA RanOnce ==
  ASSUME NEW fr, NEW o, fr.ops = <<o>>, NEW m, NEW rs
  PROVE  Ran(fr, m, rs) = Emitted(Start(m, rs), o)
<1> DEFINE s == Start(m, rs)
           g == [i \in 0 .. 1 |-> IF i = 0 THEN s ELSE Emitted(s, o)]
<1>1. Len(fr.ops) = 1 /\ fr.ops[1] = o
  OBVIOUS
<1>2. IsRun(fr, s, g)
  <2> HIDE DEF s
  <2>1. g[0] = s /\ 0 .. 1 = {0, 1}
    OBVIOUS
  <2>2. [i \in 0 .. 1 |-> IF i = 0 THEN s ELSE Emitted(g[i - 1], fr.ops[i])] = g
    BY <1>1, <2>1
  <2>3. QED
    BY <1>1, <2>2 DEF IsRun
<1>3. PICK f : IsRun(fr, s, f) /\ Ran(fr, m, rs) = f[Len(fr.ops)]
  BY <1>2, RanIs
<1> HIDE DEF s
<1>4. f[0] = s
  BY <1>1, <1>3 DEF IsRun
<1>5. f[1] = Emitted(f[0], o)
  BY <1>1, <1>3 DEF IsRun
<1>6. QED
  BY <1>1, <1>3, <1>4, <1>5 DEF s

LEMMA RanFour ==
  ASSUME NEW fr, NEW a, NEW b, NEW c, NEW d, fr.ops = <<a, b, c, d>>, NEW m, NEW rs,
         NEW s1, s1 = Emitted(Start(m, rs), a), NEW s2, s2 = Emitted(s1, b),
         NEW s3, s3 = Emitted(s2, c), NEW s4, s4 = Emitted(s3, d)
  PROVE  Ran(fr, m, rs) = s4
<1> DEFINE s == Start(m, rs)
           g == [i \in 0 .. 4 |-> IF i = 0 THEN s ELSE IF i = 1 THEN s1 ELSE IF i = 2 THEN s2
                                  ELSE IF i = 3 THEN s3 ELSE s4]
<1>1. /\ Len(fr.ops) = 4 /\ fr.ops[1] = a /\ fr.ops[2] = b /\ fr.ops[3] = c /\ fr.ops[4] = d
      /\ s1 = Emitted(s, a)
  OBVIOUS
<1> HIDE DEF s
<1>2. IsRun(fr, s, g)
  <2>1. g[0] = s /\ g[1] = s1 /\ g[2] = s2 /\ g[3] = s3 /\ g[4] = s4
    OBVIOUS
  <2> HIDE DEF g
  <2>2. ASSUME NEW i \in 0 .. 4
        PROVE  g[i] = IF i = 0 THEN s ELSE Emitted(g[i - 1], fr.ops[i])
    <3>1. i = 0 \/ i = 1 \/ i = 2 \/ i = 3 \/ i = 4
      OBVIOUS
    <3>2. 1 - 1 = 0 /\ 2 - 1 = 1 /\ 3 - 1 = 2 /\ 4 - 1 = 3
      OBVIOUS
    <3>3. QED
      BY <1>1, <2>1, <3>1, <3>2
  <2>3. [i \in 0 .. 4 |-> IF i = 0 THEN s ELSE Emitted(g[i - 1], fr.ops[i])] = g
    BY <2>2 DEF g
  <2>4. QED
    BY <1>1, <2>3 DEF IsRun
<1>3. PICK f : IsRun(fr, s, f) /\ Ran(fr, m, rs) = f[Len(fr.ops)]
  BY <1>2, RanIs DEF s
<1>4. f[0] = s
  BY <1>1, <1>3 DEF IsRun
<1>5. f[1] = Emitted(f[0], a)
  BY <1>1, <1>3 DEF IsRun
<1>6. f[2] = Emitted(f[1], b)
  BY <1>1, <1>3 DEF IsRun
<1>7. f[3] = Emitted(f[2], c)
  BY <1>1, <1>3 DEF IsRun
<1>8. f[4] = Emitted(f[3], d)
  BY <1>1, <1>3 DEF IsRun
<1>9. QED
  BY <1>1, <1>3, <1>4, <1>5, <1>6, <1>7, <1>8

(* What pushed values come back as.                                        *)
LEMMA TakeBack ==
  ASSUME NEW m, IsVm(m), NEW q, IsStack(q)
  PROVE  /\ Drop(PushAll(m, q), Len(q)) = m
         /\ \A k \in 1 .. Len(q) : Peek(PushAll(m, q), k) = q[Len(q) - k + 1]
         /\ Depth(PushAll(m, q)) >= Len(q) /\ Depth(PushAll(m, q)) \in Nat
<1> DEFINE w == PushAll(m, q)
<1>1. /\ IsVm(w) /\ Items(w) = Items(m) \o q /\ Depth(w) = Depth(m) + Len(q)
      /\ w = On(m, Items(m) \o q)
  BY PushAllIs, OnStackOps
<1>2. /\ IsSeq(Items(m)) /\ Depth(m) = Len(Items(m)) /\ Depth(m) \in Nat /\ IsStack(Items(m))
      /\ IsSeq(q) /\ Len(q) \in Nat
  <2>1. IsSeq(q)
    BY DEF IsStack
  <2>2. QED
    BY <2>1, DepthIs, Joined
<1>3. /\ SubSeq(Items(m) \o q, 1, Len(Items(m))) = Items(m)
      /\ \A i \in 1 .. Len(q) : (Items(m) \o q)[Len(Items(m)) + i] = q[i]
  <2> DEFINE p == Items(m)
  <2>1. IsSeq(p) /\ IsSeq(q)
    BY <1>2
  <2> HIDE DEF p
  <2>2. SubSeq(p \o q, 1, Len(p)) = p
    BY <2>1, Joined
  <2>3. \A i \in 1 .. Len(q) : (p \o q)[Len(p) + i] = q[i]
    BY <2>1, Joined
  <2>4. QED
    BY <2>2, <2>3 DEF p
<1> HIDE DEF w
<1>4. Drop(w, Len(q)) = On(w, SubSeq(Items(w), 1, Depth(w) - Len(q)))
  BY <1>1, OnStackOps
<1>5. Depth(w) - Len(q) = Len(Items(m))
  BY <1>1, <1>2
<1>6. Drop(w, Len(q)) = On(w, Items(m))
  BY <1>1, <1>3, <1>4, <1>5
<1>7. Drop(w, Len(q)) = m
  BY <1>1, <1>6, OnOn, OnIs
<1>8. ASSUME NEW k \in 1 .. Len(q) PROVE Peek(w, k) = q[Len(q) - k + 1]
  <2>1. Len(q) - k + 1 \in 1 .. Len(q) /\ Depth(w) - k + 1 = Len(Items(m)) + (Len(q) - k + 1)
    BY <1>1, <1>2
  <2>2. QED
    BY <1>1, <1>3, <2>1 DEF Peek
<1>9. QED
  BY <1>1, <1>2, <1>7, <1>8 DEF w

LEMMA DropTwice ==
  ASSUME NEW m, IsVm(m), 2 <= Depth(m)
  PROVE  /\ Drop(Drop(m, 1), 1) = Drop(m, 2) /\ Peek(Drop(m, 1), 1) = Peek(m, 2)
         /\ Drop(m, 1).current = m.current
<1>1. /\ IsSeq(Items(m)) /\ Depth(m) = Len(Items(m)) /\ Depth(m) \in Nat
  BY DepthIs
<1> DEFINE w == Drop(m, 1)
<1>2. /\ IsVm(w) /\ Items(w) = SubSeq(Items(m), 1, Depth(m) - 1) /\ Depth(w) = Depth(m) - 1
      /\ w.current = m.current
  <2>1. 1 \in Nat /\ 1 <= Depth(m)
    BY <1>1
  <2>2. QED
    BY <2>1, DropIs DEF Alike
<1>3. \A i \in 1 .. Depth(m) - 1 : SubSeq(Items(m), 1, Depth(m) - 1)[i] = Items(m)[i]
  <2>1. Depth(m) - 1 \in 0 .. Len(Items(m))
    BY <1>1
  <2>2. QED
    BY <1>1, <2>1, FirstOf
<1>4. Peek(w, 1) = Peek(m, 2)
  <2>1. Depth(w) - 1 + 1 = Depth(m) - 1 /\ Depth(m) - 2 + 1 = Depth(m) - 1 /\ Depth(m) - 1 \in 1 .. Depth(m) - 1
    BY <1>1, <1>2
  <2> HIDE DEF w
  <2>2. QED
    BY <1>2, <1>3, <2>1 DEF Peek
<1>5. SubSeq(Items(w), 1, Depth(w) - 1) = SubSeq(Items(m), 1, Depth(m) - 2)
  <2> DEFINE a == SubSeq(Items(m), 1, Depth(m) - 1)
             k == Depth(m) - 2
  <2>1. IsSeq(a) /\ Len(a) = Depth(m) - 1 /\ \A i \in 1 .. Depth(m) - 1 : a[i] = Items(m)[i]
    <3>1. Depth(m) - 1 \in 0 .. Len(Items(m))
      BY <1>1
    <3>2. QED
      BY <1>1, <3>1, FirstOf
  <2>2. k \in 0 .. Len(Items(m)) /\ k \in 0 .. Len(a) /\ \A i \in 1 .. k : i \in 1 .. Depth(m) - 1
    BY <1>1, <2>1
  <2> HIDE DEF a, k
  <2>3. /\ IsSeq(SubSeq(a, 1, k)) /\ Len(SubSeq(a, 1, k)) = k
        /\ \A i \in 1 .. k : SubSeq(a, 1, k)[i] = a[i]
    BY <2>1, <2>2, FirstOf
  <2>4. /\ IsSeq(SubSeq(Items(m), 1, k)) /\ Len(SubSeq(Items(m), 1, k)) = k
        /\ \A i \in 1 .. k : SubSeq(Items(m), 1, k)[i] = Items(m)[i]
    BY <1>1, <2>2, FirstOf
  <2>5. PICK S : SubSeq(a, 1, k) \in Seq(S) /\ SubSeq(Items(m), 1, k) \in Seq(S)
    BY <2>3, <2>4, Together
  <2> DEFINE u == SubSeq(a, 1, k)
             v == SubSeq(Items(m), 1, k)
  <2>6. /\ u \in Seq(S) /\ v \in Seq(S) /\ Len(u) = Len(v)
        /\ \A i \in 1 .. Len(u) : u[i] = v[i]
    BY <2>1, <2>2, <2>3, <2>4, <2>5
  <2> HIDE DEF u, v
  <2>7. u = v
    BY <2>6, SeqEqual
  <2>8. Depth(w) - 1 = k
    BY <1>1, <1>2 DEF k
  <2>9. QED
    BY <1>2, <2>7, <2>8 DEF u, v, a, k
<1>6. Drop(w, 1) = On(w, SubSeq(Items(w), 1, Depth(w) - 1))
  <2> HIDE DEF w
  <2>1. QED
    BY <1>2, OnStackOps
<1>7. w = On(m, SubSeq(Items(m), 1, Depth(m) - 1)) /\ Drop(m, 2) = On(m, SubSeq(Items(m), 1, Depth(m) - 2))
  BY OnStackOps
<1> HIDE DEF w
<1>8. Drop(w, 1) = Drop(m, 2)
  <2>1. Drop(w, 1) = On(w, SubSeq(Items(m), 1, Depth(m) - 2))
    BY <1>5, <1>6
  <2>2. On(On(m, SubSeq(Items(m), 1, Depth(m) - 1)), SubSeq(Items(m), 1, Depth(m) - 2))
          = On(m, SubSeq(Items(m), 1, Depth(m) - 2))
    BY OnOn
  <2>3. QED
    BY <1>7, <2>1, <2>2
<1>9. QED
  BY <1>2, <1>4, <1>8 DEF w

LEMMA FragmentsAre ==
  /\ DOMAIN Fragments = {"+", "-", "<", "swap_one", "dup_one", "drop"}
  /\ Fragments["+"] = TopAreInt(<<Pop, Pop, Arith("add", 1, 2), Keep>>)
  /\ Fragments["-"] = TopAreInt(<<Pop, Pop, Arith("sub", 2, 1), Keep>>)
  /\ Fragments["<"] = TopAreInt(<<Pop, Pop, Arith("lt", 2, 1), KeepBool>>)
  /\ Fragments["swap_one"] = DepthOf(2, OnStack("swap"))
  /\ Fragments["dup_one"] = DepthOf(1, OnStack("dup"))
  /\ Fragments["drop"] = DepthOf(1, OnStack("drop"))
<1>1. DOMAIN Fragments = {"+", "-", "<", "swap_one", "dup_one", "drop"}
  BY DEF Fragments
<1>2. Fragments["+"] = TopAreInt(<<Pop, Pop, Arith("add", 1, 2), Keep>>)
  BY DEF Fragments
<1>3. Fragments["-"] = TopAreInt(<<Pop, Pop, Arith("sub", 2, 1), Keep>>)
  BY DEF Fragments
<1>4. Fragments["<"] = TopAreInt(<<Pop, Pop, Arith("lt", 2, 1), KeepBool>>)
  BY DEF Fragments
<1>5. Fragments["swap_one"] = DepthOf(2, OnStack("swap"))
  BY DEF Fragments
<1>6. Fragments["dup_one"] = DepthOf(1, OnStack("dup"))
  BY DEF Fragments
<1>7. Fragments["drop"] = DepthOf(1, OnStack("drop"))
  BY DEF Fragments
<1>8. QED
  BY <1>1, <1>2, <1>3, <1>4, <1>5, <1>6, <1>7

State(m, rs, x, y) == [vm |-> m, regs |-> rs, file |-> <<x, y>>]

LEMMA PopHeld ==
  ASSUME NEW m, NEW rs, rs # <<>>, NEW x, NEW y, NEW s, s = State(m, rs, x, y)
  PROVE  Emitted(s, Pop) = State(m, Front(rs), Last(rs), x)
<1>1. s.vm = m /\ s.regs = rs /\ s.file = <<x, y>> /\ s.file[1] = x
  BY DEF State
<1>2. Emitted(s, Pop) = [s EXCEPT !.regs = Front(rs), !.file = <<Last(rs), x>>]
  BY <1>1 DEF Emitted, Pop
<1>3. QED
  BY <1>2 DEF State

LEMMA PopStack ==
  ASSUME NEW m, NEW x, NEW y, NEW s, s = State(m, <<>>, x, y)
  PROVE  Emitted(s, Pop) = State(Drop(m, 1), <<>>, Peek(m, 1).n, x)
<1>1. s.vm = m /\ s.regs = <<>> /\ s.file[1] = x
  BY DEF State
<1>2. Emitted(s, Pop) = [s EXCEPT !.vm = Drop(m, 1), !.file = <<Peek(m, 1).n, x>>]
  BY <1>1 DEF Emitted, Pop
<1>3. QED
  BY <1>2 DEF State

LEMMA Keeps ==
  ASSUME NEW m, NEW x, NEW y, NEW s, s = State(m, <<>>, x, y)
  PROVE  Emitted(s, Keep) = State(m, <<x>>, x, y)
<1>1. s.regs = <<>> /\ s.file[1] = x
  BY DEF State
<1>2. Emitted(s, Keep) = [s EXCEPT !.regs = Append(s.regs, s.file[1])]
  BY DEF Emitted, Keep
<1>3. Append(<<>>, x) = <<x>>
  OBVIOUS
<1>4. Emitted(s, Keep) = [s EXCEPT !.regs = <<x>>]
  BY <1>1, <1>2, <1>3
<1>5. QED
  BY <1>4 DEF State

LEMMA KeepsBool ==
  ASSUME NEW m, NEW x, NEW y, NEW s, s = State(m, <<>>, x, y)
  PROVE  Emitted(s, KeepBool) = State(Push(m, Of("bool", x)), <<>>, x, y)
<1>1. s.vm = m /\ s.file[1] = x
  BY DEF State
<1>2. Emitted(s, KeepBool) = [s EXCEPT !.vm = Push(m, Of("bool", x))]
  BY <1>1 DEF Emitted, KeepBool
<1>3. QED
  BY <1>2 DEF State

LEMMA Computes ==
  ASSUME NEW m, NEW x, NEW y, NEW s, s = State(m, <<>>, x, y)
  PROVE  /\ Emitted(s, Arith("add", 1, 2)) = State(m, <<>>, Wrap(x + y), y)
         /\ Emitted(s, Arith("sub", 2, 1)) = State(m, <<>>, Wrap(y - x), y)
         /\ Emitted(s, Arith("lt", 2, 1)) = State(m, <<>>, IF y < x THEN 1 ELSE 0, y)
<1>1. s.file = <<x, y>> /\ s.file[1] = x /\ s.file[2] = y
  BY DEF State
<1>2. \A c : [s EXCEPT !.file[1] = c] = State(m, <<>>, c, y)
  BY DEF State
<1>3. Emitted(s, Arith("add", 1, 2)) = [s EXCEPT !.file[1] = Wrap(x + y)]
  BY <1>1 DEF Emitted, Arith, Computed
<1>4. Emitted(s, Arith("sub", 2, 1)) = [s EXCEPT !.file[1] = Wrap(y - x)]
  BY <1>1 DEF Emitted, Arith, Computed
<1>5. Emitted(s, Arith("lt", 2, 1)) = [s EXCEPT !.file[1] = IF y < x THEN 1 ELSE 0]
  BY <1>1 DEF Emitted, Arith, Computed
<1>6. QED
  BY <1>2, <1>3, <1>4, <1>5

(* The held operands of a site, x above y.                                 *)
LEMMA HeldRuns ==
  ASSUME NEW m, IsVm(m), NEW x \in Narrow, NEW y \in Narrow
  PROVE  /\ Ran(Fragments["+"], m, <<y, x>>).vm = m
         /\ Ran(Fragments["+"], m, <<y, x>>).regs = <<Wrap(x + y)>>
         /\ Ran(Fragments["-"], m, <<y, x>>).vm = m
         /\ Ran(Fragments["-"], m, <<y, x>>).regs = <<Wrap(x - y)>>
<1> DEFINE s0 == State(m, <<y, x>>, 0, 0)
           s1 == State(m, <<y>>, x, 0)
           s2 == State(m, <<>>, y, x)
<1>0. x \in Int /\ y \in Int
  BY DEF Narrow
<1>1. Front(<<y, x>>) = <<y>> /\ Last(<<y, x>>) = x /\ Front(<<y>>) = <<>> /\ Last(<<y>>) = y
  <2>1. Last(<<y, x>>) = x /\ Last(<<y>>) = y
    BY DEF Last
  <2>2. Front(<<y, x>>) = <<y>>
    <3>1. Len(<<y, x>>) - 1 = 1
      OBVIOUS
    <3>2. SubSeq(<<y, x>>, 1, 1) = <<y>>
      <4>1. <<y, x>> = <<y>> \o <<x>> /\ Len(<<y>>) = 1
        OBVIOUS
      <4>2. IsSeq(<<y>>) /\ IsSeq(<<x>>)
        <5>1. <<y>> \in Seq({y}) /\ <<x>> \in Seq({x})
          OBVIOUS
        <5>2. QED
          BY <5>1, AnySeq
      <4>3. SubSeq(<<y>> \o <<x>>, 1, Len(<<y>>)) = <<y>>
        BY <4>2, Joined
      <4>4. QED
        BY <4>1, <4>3
    <3>3. QED
      BY <3>1, <3>2 DEF Front
  <2>3. Front(<<y>>) = <<>>
    <3>1. Len(<<y>>) - 1 = 0
      OBVIOUS
    <3>2. SubSeq(<<y>>, 1, 0) = <<>>
      OBVIOUS
    <3>3. QED
      BY <3>1, <3>2 DEF Front
  <2>4. QED
    BY <2>1, <2>2, <2>3
<1>2. s0 = Start(m, <<y, x>>) /\ s1 = Emitted(s0, Pop) /\ s2 = Emitted(s1, Pop)
  <2>1. <<y, x>> # <<>> /\ <<y>> # <<>>
    OBVIOUS
  <2>2. s0 = Start(m, <<y, x>>)
    BY DEF Start, State
  <2>3. Emitted(s0, Pop) = State(m, Front(<<y, x>>), Last(<<y, x>>), 0)
    BY <2>1, PopHeld
  <2>4. Emitted(s1, Pop) = State(m, Front(<<y>>), Last(<<y>>), x)
    BY <2>1, PopHeld
  <2>5. QED
    BY <1>1, <2>2, <2>3, <2>4
<1>3. Append(<<>>, Wrap(x + y)) = <<Wrap(x + y)>> /\ Append(<<>>, Wrap(x - y)) = <<Wrap(x - y)>>
  OBVIOUS
<1>4. x + y = y + x
  BY <1>0
<1>5. Ran(Fragments["+"], m, <<y, x>>) = State(m, <<Wrap(x + y)>>, Wrap(x + y), x)
  <2> DEFINE c == Wrap(x + y)
             s3 == State(m, <<>>, c, x)
             s4 == State(m, <<c>>, c, x)
  <2>1. s3 = Emitted(s2, Arith("add", 1, 2))
    BY <1>4, Computes
  <2>4. s4 = Emitted(s3, Keep)
    <3> HIDE DEF c
    <3>1. QED
      BY Keeps
  <2>2. Fragments["+"].ops = <<Pop, Pop, Arith("add", 1, 2), Keep>>
    BY FragmentsAre DEF TopAreInt
  <2> HIDE DEF s0, s1, s2, s3, s4, c
  <2>3. QED
    BY <1>2, <2>1, <2>2, <2>4, RanFour DEF s4, c
<1>6. Ran(Fragments["-"], m, <<y, x>>) = State(m, <<Wrap(x - y)>>, Wrap(x - y), x)
  <2> DEFINE c == Wrap(x - y)
             s3 == State(m, <<>>, c, x)
             s4 == State(m, <<c>>, c, x)
  <2>1. s3 = Emitted(s2, Arith("sub", 2, 1))
    BY Computes
  <2>4. s4 = Emitted(s3, Keep)
    <3> HIDE DEF c
    <3>1. QED
      BY Keeps
  <2>2. Fragments["-"].ops = <<Pop, Pop, Arith("sub", 2, 1), Keep>>
    BY FragmentsAre DEF TopAreInt
  <2> HIDE DEF s0, s1, s2, s3, s4, c
  <2>3. QED
    BY <1>2, <2>1, <2>2, <2>4, RanFour DEF s4, c
<1>7. QED
  BY <1>5, <1>6 DEF State

(* The operands of a site on the stack.                                    *)
LEMMA StackRuns ==
  ASSUME NEW m, IsVm(m), 2 <= Depth(m),
         NEW x, x = Peek(m, 1).n, NEW y, y = Peek(m, 2).n
  PROVE  /\ Ran(Fragments["+"], m, <<>>).vm = Drop(m, 2)
         /\ Ran(Fragments["+"], m, <<>>).regs = <<Wrap(y + x)>>
         /\ Ran(Fragments["-"], m, <<>>).vm = Drop(m, 2)
         /\ Ran(Fragments["-"], m, <<>>).regs = <<Wrap(x - y)>>
         /\ Ran(Fragments["<"], m, <<>>).vm
               = Push(Drop(m, 2), Of("bool", IF x < y THEN 1 ELSE 0))
         /\ Ran(Fragments["<"], m, <<>>).regs = <<>>
<1> DEFINE w == Drop(m, 2)
           s0 == State(m, <<>>, 0, 0)
           s1 == State(Drop(m, 1), <<>>, x, 0)
           s2 == State(w, <<>>, y, x)
<1>1. s0 = Start(m, <<>>) /\ s1 = Emitted(s0, Pop) /\ s2 = Emitted(s1, Pop)
  <2>1. s0 = Start(m, <<>>)
    BY DEF Start, State
  <2>2. s1 = Emitted(s0, Pop)
    BY PopStack
  <2>3. Emitted(s1, Pop) = State(Drop(Drop(m, 1), 1), <<>>, Peek(Drop(m, 1), 1).n, x)
    BY PopStack
  <2>4. Drop(Drop(m, 1), 1) = Drop(m, 2) /\ Peek(Drop(m, 1), 1) = Peek(m, 2)
    BY DropTwice
  <2>5. QED
    BY <2>1, <2>2, <2>3, <2>4
<1> HIDE DEF w
<1>2. Append(<<>>, Wrap(y + x)) = <<Wrap(y + x)>> /\ Append(<<>>, Wrap(x - y)) = <<Wrap(x - y)>>
  OBVIOUS
<1>3. Ran(Fragments["+"], m, <<>>) = State(w, <<Wrap(y + x)>>, Wrap(y + x), x)
  <2> DEFINE c == Wrap(y + x)
             s3 == State(w, <<>>, c, x)
             s4 == State(w, <<c>>, c, x)
  <2>1. s3 = Emitted(s2, Arith("add", 1, 2))
    BY Computes
  <2>4. s4 = Emitted(s3, Keep)
    <3> HIDE DEF c
    <3>1. QED
      BY Keeps
  <2>2. Fragments["+"].ops = <<Pop, Pop, Arith("add", 1, 2), Keep>>
    BY FragmentsAre DEF TopAreInt
  <2> HIDE DEF s0, s1, s2, s3, s4, c
  <2>3. QED
    BY <1>1, <2>1, <2>2, <2>4, RanFour DEF s4, c
<1>4. Ran(Fragments["-"], m, <<>>) = State(w, <<Wrap(x - y)>>, Wrap(x - y), x)
  <2> DEFINE c == Wrap(x - y)
             s3 == State(w, <<>>, c, x)
             s4 == State(w, <<c>>, c, x)
  <2>1. s3 = Emitted(s2, Arith("sub", 2, 1))
    BY Computes
  <2>4. s4 = Emitted(s3, Keep)
    <3> HIDE DEF c
    <3>1. QED
      BY Keeps
  <2>2. Fragments["-"].ops = <<Pop, Pop, Arith("sub", 2, 1), Keep>>
    BY FragmentsAre DEF TopAreInt
  <2> HIDE DEF s0, s1, s2, s3, s4, c
  <2>3. QED
    BY <1>1, <2>1, <2>2, <2>4, RanFour DEF s4, c
<1>5. Ran(Fragments["<"], m, <<>>)
        = State(Push(w, Of("bool", IF x < y THEN 1 ELSE 0)), <<>>, IF x < y THEN 1 ELSE 0, x)
  <2> DEFINE b == IF x < y THEN 1 ELSE 0
             s3 == State(w, <<>>, b, x)
             s4 == State(Push(w, Of("bool", b)), <<>>, b, x)
  <2>1. s3 = Emitted(s2, Arith("lt", 2, 1))
    BY Computes
  <2>4. s4 = Emitted(s3, KeepBool)
    BY KeepsBool
  <2>2. Fragments["<"].ops = <<Pop, Pop, Arith("lt", 2, 1), KeepBool>>
    BY FragmentsAre DEF TopAreInt
  <2> HIDE DEF s0, s1, s2, s3, s4
  <2>3. QED
    BY <1>1, <2>1, <2>2, <2>4, RanFour DEF s4, b
<1>6. QED
  BY <1>3, <1>4, <1>5 DEF State, w

LEMMA NumbersOf ==
  ASSUME NEW a \in Int, NEW b \in Int
  PROVE  Numbers(<<a>>) = <<Number(a)>> /\ Numbers(<<a, b>>) = <<Number(a), Number(b)>>
<1>1. DOMAIN <<a>> = 1 .. 1 /\ <<a>>[1] = a
  OBVIOUS
<1>2. Numbers(<<a>>) = [i \in 1 .. 1 |-> Number(<<a>>[i])]
  BY <1>1 DEF Numbers
<1>3. <<Number(a)>> = [i \in 1 .. 1 |-> Number(<<a>>[i])]
  BY <1>1
<1>4. DOMAIN <<a, b>> = 1 .. 2 /\ <<a, b>>[1] = a /\ <<a, b>>[2] = b
  OBVIOUS
<1>5. Numbers(<<a, b>>) = [i \in 1 .. 2 |-> Number(<<a, b>>[i])]
  BY <1>4 DEF Numbers
<1>6. <<Number(a), Number(b)>> = [i \in 1 .. 2 |-> Number(<<a, b>>[i])]
  BY <1>4
<1>7. QED
  BY <1>2, <1>3, <1>5, <1>6

(* A site does what the native would.                                      *)
LEMMA SiteHeld ==
  ASSUME NEW m, IsVm(m), NEW n \in {"+", "-"}, NEW x \in Narrow, NEW y \in Narrow, NEW ip,
         NEW ran, ran = Ran(Fragments[n], m, <<y, x>>)
  PROVE  /\ ran.vm = m /\ ran.regs \in Seq(Narrow)
         /\ Native(Synced(m, <<y, x>>), n, ip) = Fine(Synced(ran.vm, ran.regs))
<1> DEFINE op == IF n = "+" THEN "add" ELSE "sub"
           z == IF op = "add" THEN x + y ELSE x - y
           q == <<Number(y), Number(x)>>
           w == PushAll(m, q)
<1>1. x \in Int /\ y \in Int /\ z \in Int /\ Wrap(x) = x /\ Wrap(y) = y
  BY DEF Narrow
<1>2. ran.vm = m /\ ran.regs = <<Wrap(z)>>
  BY HeldRuns
<1>3. Wrap(z) \in Narrow /\ Wrap(z) \in Int /\ Number(Wrap(z)) = Number(z)
  <2> HIDE DEF z
  <2>1. QED
    BY <1>1, Wraps DEF Narrow
<1>4. IsStack(q) /\ Len(q) = 2 /\ q[1] = Number(y) /\ q[2] = Number(x)
  BY <1>1, ItemsMade, SmallStacks
<1>5. /\ Drop(w, 2) = m /\ Peek(w, 1) = Number(x) /\ Peek(w, 2) = Number(y)
      /\ ~(Depth(w) < 2)
  <2> HIDE DEF q
  <2>1. /\ Drop(PushAll(m, q), Len(q)) = m
        /\ \A k \in 1 .. Len(q) : Peek(PushAll(m, q), k) = q[Len(q) - k + 1]
        /\ Depth(PushAll(m, q)) >= Len(q) /\ Depth(PushAll(m, q)) \in Nat
    BY <1>4, TakeBack
  <2>2. Peek(w, 1) = q[2 - 1 + 1] /\ Peek(w, 2) = q[2 - 2 + 1]
    BY <1>4, <2>1
  <2>3. 2 - 1 + 1 = 2 /\ 2 - 2 + 1 = 1
    OBVIOUS
  <2>4. QED
    BY <1>4, <2>1, <2>2, <2>3
<1>6. Synced(m, <<y, x>>) = w
  BY <1>1, NumbersOf DEF Synced
<1> HIDE DEF w, q
<1>7. AreInt(Number(x), Number(y)) /\ Number(x).n = x /\ Number(y).n = y
  BY <1>1 DEF AreInt, Number, Of
<1>8. NumericOp(op, Number(x), Number(y)) = <<Number(z)>>
  BY <1>7 DEF NumericOp, AreInt, IsText
<1>9. Native(w, n, ip) = Binary(w, Computing(w, op))
  BY DEF Native
<1> HIDE DEF op, z
<1>10. Computing(w, op) = Fine(PushAll(m, <<Number(z)>>))
  <2>1. Computing(w, op) = Answer(PushAll(m, <<Number(z)>>), <<Number(z)>> # <<>>)
    BY <1>5, <1>8 DEF Computing
  <2>2. (<<Number(z)>> # <<>>) = TRUE
    OBVIOUS
  <2>3. QED
    BY <2>1, <2>2 DEF Fine
<1>11. Synced(m, <<Wrap(z)>>) = PushAll(m, <<Number(z)>>)
  BY <1>3, NumbersOf DEF Synced
<1>12. <<Wrap(z)>> \in Seq(Narrow)
  BY <1>3
<1>13. QED
  BY <1>2, <1>5, <1>6, <1>9, <1>10, <1>11, <1>12 DEF Binary

LEMMA SiteStack ==
  ASSUME NEW m, IsVm(m), NEW n \in DOMAIN Fragments, Admits(m, Fragments[n]), NEW ip,
         NEW ran, ran = Ran(Fragments[n], m, <<>>)
  PROVE  /\ IsVm(ran.vm) /\ Alike(m, ran.vm) /\ ran.regs \in Seq(Narrow)
         /\ Native(m, n, ip) = Fine(Synced(ran.vm, ran.regs))
<1>0. Depth(m) \in Nat /\ n \in {"+", "-", "<", "swap_one", "dup_one", "drop"}
  BY DepthIs, FragmentsAre
<1>1. <<>> \in Seq(Narrow) /\ \A w : IsVm(w) => Synced(w, <<>>) = w
  <2>1. <<>> \in Seq(Int) /\ <<>> \in Seq(Narrow)
    BY EmptySeq
  <2>2. QED
    BY <2>1, SyncedIs
<1> DEFINE x == Peek(m, 1).n
           y == Peek(m, 2).n
           w == Drop(m, 2)
<1>2. ASSUME n \in {"+", "-", "<"}
      PROVE  /\ 2 <= Depth(m) /\ ~(Depth(m) < 2) /\ IsVm(w) /\ Alike(m, w)
             /\ x \in Int /\ y \in Int /\ AreInt(Peek(m, 1), Peek(m, 2))
  <2>1. Fragments[n].needs = 2 /\ Fragments[n].ints
    BY <1>2, FragmentsAre DEF TopAreInt
  <2>2. Depth(m) >= 2 /\ \A k \in 1 .. 2 : Peek(m, k).kind = "int"
    BY <2>1 DEF Admits
  <2>3. Peek(m, 1).kind = "int" /\ Peek(m, 2).kind = "int" /\ 2 \in Nat /\ 2 <= Depth(m)
    BY <1>0, <2>2
  <2>4. IsItem(Peek(m, 1)) /\ IsItem(Peek(m, 2))
    BY <1>0, <2>3, DepthIs
  <2>5. IsVm(w) /\ Alike(m, w)
    BY <2>3, DropIs
  <2>6. QED
    BY <1>0, <2>3, <2>4, <2>5 DEF AreInt, IsItem
<1>3. CASE n \in {"+", "-"}
  <2> DEFINE op == IF n = "+" THEN "add" ELSE "sub"
             z == IF op = "add" THEN x + y ELSE x - y
  <2>1. z \in Int /\ x + y = y + x
    BY <1>2, <1>3
  <2>2. ran.vm = w /\ ran.regs = <<Wrap(z)>>
    <3>1. 2 <= Depth(m)
      BY <1>2, <1>3
    <3>2. CASE n = "+"
      BY <2>1, <3>1, <3>2, StackRuns
    <3>3. CASE n = "-"
      BY <3>1, <3>3, StackRuns
    <3>4. QED
      BY <1>3, <3>2, <3>3
  <2>3. NumericOp(op, Peek(m, 1), Peek(m, 2)) = <<Number(z)>>
    BY <1>2, <1>3 DEF NumericOp, AreInt, IsText
  <2>4. Native(m, n, ip) = Binary(m, Computing(m, op))
    BY <1>3 DEF Native
  <2> HIDE DEF op, z, w
  <2>5. Wrap(z) \in Narrow /\ Wrap(z) \in Int /\ Number(Wrap(z)) = Number(z)
    BY <2>1, Wraps DEF Narrow
  <2>6. Computing(m, op) = Fine(PushAll(w, <<Number(z)>>))
    <3>1. Computing(m, op) = Answer(PushAll(w, <<Number(z)>>), <<Number(z)>> # <<>>)
      BY <2>3 DEF Computing, w
    <3>2. (<<Number(z)>> # <<>>) = TRUE
      OBVIOUS
    <3>3. QED
      BY <3>1, <3>2 DEF Fine
  <2>7. Synced(w, <<Wrap(z)>>) = PushAll(w, <<Number(z)>>)
    BY <2>5, NumbersOf DEF Synced
  <2>8. <<Wrap(z)>> \in Seq(Narrow)
    BY <2>5
  <2>9. QED
    BY <1>2, <1>3, <2>2, <2>4, <2>6, <2>7, <2>8 DEF Binary
<1>4. CASE n = "<"
  <2> DEFINE v == Push(w, Bool(x < y))
  <2>1. ran.vm = v /\ ran.regs = <<>>
    <3>1. 2 <= Depth(m)
      BY <1>2, <1>4
    <3>2. /\ ran.vm = Push(w, Of("bool", IF x < y THEN 1 ELSE 0)) /\ ran.regs = <<>>
      BY <1>4, <3>1, StackRuns
    <3>3. QED
      BY <3>2 DEF Bool
  <2>2. Native(m, n, ip) = Fine(v)
    BY <1>2, <1>4 DEF Native, Binary, Less
  <2>3. IsVm(v) /\ Alike(m, v)
    <3> DEFINE b == Bool(x < y)
    <3>1. IsItem(b) /\ IsVm(w) /\ Alike(m, w)
      BY <1>2, <1>4, ItemsMade
    <3> HIDE DEF b, w
    <3>2. IsVm(Push(w, b)) /\ Alike(w, Push(w, b))
      BY <3>1, PushIs
    <3>3. QED
      BY <3>1, <3>2 DEF Alike, b
  <2> HIDE DEF v
  <2>4. QED
    BY <1>1, <2>1, <2>2, <2>3
<1>5. ASSUME NEW k \in Nat, NEW op, Fragments[n] = DepthOf(k, OnStack(op))
      PROVE  /\ ~(Depth(m) < k) /\ k <= Depth(m)
             /\ ran = Emitted(Start(m, <<>>), [op |-> op, a |-> 0, b |-> 0])
  <2>1. Fragments[n].needs = k /\ Fragments[n].ops = <<[op |-> op, a |-> 0, b |-> 0]>>
    BY <1>5 DEF DepthOf, OnStack
  <2>2. Depth(m) >= k
    BY <2>1 DEF Admits
  <2>3. ran = Emitted(Start(m, <<>>), [op |-> op, a |-> 0, b |-> 0])
    BY <2>1, RanOnce
  <2>4. QED
    BY <1>0, <2>2, <2>3
<1>6. Start(m, <<>>).vm = m /\ Start(m, <<>>).regs = <<>>
  BY DEF Start
<1>7. CASE n = "swap_one"
  <2> DEFINE v == PushAll(Drop(m, 2), <<Peek(m, 1), Peek(m, 2)>>)
  <2>1. 2 <= Depth(m) /\ ~(Depth(m) < 2) /\ ran = Emitted(Start(m, <<>>), [op |-> "swap", a |-> 0, b |-> 0])
    BY <1>5, <1>7, FragmentsAre
  <2>2. ran = [Start(m, <<>>) EXCEPT !.vm = v]
    BY <1>6, <2>1 DEF Emitted
  <2>3. ran.vm = v /\ ran.regs = <<>>
    BY <2>2 DEF Start
  <2>4. Native(m, n, ip) = Fine(v)
    BY <1>7, <2>1 DEF Native, SwapOne, Binary
  <2>5. IsVm(v) /\ Alike(m, v)
    <3>1. IsItem(Peek(m, 1)) /\ IsItem(Peek(m, 2))
      BY <1>0, <2>1, DepthIs
    <3>2. IsStack(<<Peek(m, 1), Peek(m, 2)>>)
      BY <3>1, SmallStacks
    <3>3. QED
      BY <2>1, <3>2, DropPush
  <2> HIDE DEF v
  <2>6. QED
    BY <1>1, <2>3, <2>4, <2>5
<1>8. CASE n = "dup_one"
  <2> DEFINE v == Push(m, Peek(m, 1))
  <2>1. 1 <= Depth(m) /\ ~(Depth(m) < 1) /\ ran = Emitted(Start(m, <<>>), [op |-> "dup", a |-> 0, b |-> 0])
    BY <1>5, <1>8, FragmentsAre
  <2>2. ran = [Start(m, <<>>) EXCEPT !.vm = v]
    BY <1>6, <2>1 DEF Emitted
  <2>3. ran.vm = v /\ ran.regs = <<>>
    BY <2>2 DEF Start
  <2>4. Native(m, n, ip) = Fine(v)
    BY <1>8, <2>1 DEF Native, DupOne
  <2>5. IsVm(v) /\ Alike(m, v)
    <3>1. IsItem(Peek(m, 1))
      BY <1>0, <2>1, DepthIs
    <3>2. QED
      BY <3>1, PushIs
  <2> HIDE DEF v
  <2>6. QED
    BY <1>1, <2>3, <2>4, <2>5
<1>9. CASE n = "drop"
  <2> DEFINE v == Drop(m, 1)
  <2>1. 1 <= Depth(m) /\ ~(Depth(m) < 1) /\ ran = Emitted(Start(m, <<>>), [op |-> "drop", a |-> 0, b |-> 0])
    BY <1>5, <1>9, FragmentsAre
  <2>2. ran = [Start(m, <<>>) EXCEPT !.vm = v]
    BY <1>6, <2>1 DEF Emitted
  <2>3. ran.vm = v /\ ran.regs = <<>>
    BY <2>2 DEF Start
  <2>4. Native(m, n, ip) = Fine(v)
    BY <1>9, <2>1 DEF Native, DropWord
  <2>5. IsVm(v) /\ Alike(m, v)
    BY <2>1, DropIs
  <2> HIDE DEF v
  <2>6. QED
    BY <1>1, <2>3, <2>4, <2>5
<1>10. QED
  BY <1>0, <1>3, <1>4, <1>7, <1>8, <1>9

-----------------------------------------------------------------------------
(* Calls with values held below their operands.                            *)

LEMMA Commutes ==
  ASSUME NEW m, IsVm(m), NEW q
  PROVE  /\ PushAll([m EXCEPT !.exit = TRUE], q) = [PushAll(m, q) EXCEPT !.exit = TRUE]
         /\ \A n \in Names : PushAll(Rebound(m, n), q) = Rebound(PushAll(m, q), n)
<1>2. PushAll([m EXCEPT !.exit = TRUE], q) = [PushAll(m, q) EXCEPT !.exit = TRUE]
  BY DEF PushAll, IsVm
<1>3. ASSUME NEW n \in Names PROVE PushAll(Rebound(m, n), q) = Rebound(PushAll(m, q), n)
  <2> DEFINE flipped == ~m.native[n]
             next == IF m.gen[n] < MaxGen THEN m.gen[n] + 1 ELSE m.gen[n]
             p == PushAll(m, q)
  <2>1. p.native = m.native /\ p.gen = m.gen
    BY DEF PushAll, IsVm
  <2>2. Rebound(m, n) = [m EXCEPT !.native[n] = flipped, !.gen[n] = next]
    BY DEF Rebound, IsVm
  <2>3. Rebound(p, n) = [p EXCEPT !.native[n] = flipped, !.gen[n] = next]
    <3> DEFINE flip == ~p.native[n]
               inc == IF p.gen[n] < MaxGen THEN p.gen[n] + 1 ELSE p.gen[n]
    <3>1. flip = flipped /\ inc = next
      <4> HIDE DEF p
      <4>1. QED
        BY <2>1
    <3>2. Rebound(p, n) = [p EXCEPT !.native[n] = flip, !.gen[n] = inc]
      BY DEF Rebound, PushAll, IsVm
    <3> HIDE DEF flip, inc, flipped, next, p
    <3>3. QED
      BY <3>1, <3>2
  <2> HIDE DEF flipped, next
  <2>4. PushAll([m EXCEPT !.native[n] = flipped, !.gen[n] = next], q)
          = [PushAll(m, q) EXCEPT !.native[n] = flipped, !.gen[n] = next]
    BY DEF PushAll, IsVm
  <2>5. QED
    BY <2>2, <2>3, <2>4
<1>4. QED
  BY <1>2, <1>3

(* A call with h held below its operands, and the same with h in place.    *)
Alters(m, h, o, c, r) ==
  \/ r = [c EXCEPT !.vm = Synced(c.vm, h)]
  \/ Ended(c) = "running" /\ c.vm.epoch # m.epoch
  \/ /\ Ended(c) = "failed" /\ Ended(r) = "failed"
     /\ c.vm = Synced(m, o) /\ r.vm = Synced(m, h \o o) /\ h # <<>>

LEMMA CrossOne ==
  ASSUME NEW m, IsVm(m), ~m.exit, NEW h \in Seq(Narrow), h # <<>>, NEW x \in Narrow,
         NEW n \in {"return", "+."}, NEW ip,
         NEW c, c = Native(Synced(m, <<x>>), n, ip),
         NEW r, r = Native(Synced(Synced(m, h), <<x>>), n, ip)
  PROVE  Alters(m, h, <<x>>, c, r)
<1> DEFINE a == Synced(m, h)
           u == Synced(m, <<x>>)
           v == Synced(a, <<x>>)
<1>0. h \in Seq(Int) /\ <<x>> \in Seq(Int) /\ x \in Int
  <2>1. x \in Int /\ Narrow \subseteq Int
    BY DEF Narrow
  <2>2. h \in Seq(Int)
    BY <2>1, SeqMonotonic
  <2>3. QED
    BY <2>1, <2>2
<1>1. IsVm(a) /\ a.bench = m.bench /\ a.exit = m.exit
  BY <1>0, SyncedIs DEF Alike
<1>2. ASSUME NEW w, IsVm(w)
      PROVE  LET p == Synced(w, <<x>>) IN
             /\ Drop(p, 1) = w /\ Peek(p, 1) = Number(x) /\ ~(Depth(p) < 1)
             /\ p.bench = w.bench /\ p.exit = w.exit
  <2> DEFINE q == <<Number(x)>>
  <2>1. Synced(w, <<x>>) = PushAll(w, q)
    BY <1>0, NumbersOf DEF Synced
  <2>2. IsStack(q) /\ Len(q) = 1 /\ q[1] = Number(x)
    BY <1>0, ItemsMade, SmallStacks
  <2> HIDE DEF q
  <2>3. /\ Drop(PushAll(w, q), Len(q)) = w
        /\ \A k \in 1 .. Len(q) : Peek(PushAll(w, q), k) = q[Len(q) - k + 1]
        /\ Depth(PushAll(w, q)) >= Len(q) /\ Depth(PushAll(w, q)) \in Nat
    BY <1>2, <2>2, TakeBack
  <2>4. Peek(PushAll(w, q), 1) = q[1 - 1 + 1]
    BY <2>2, <2>3
  <2>5. Alike(w, PushAll(w, q))
    BY <1>2, <2>2, PushAllIs
  <2>6. QED
    BY <2>1, <2>2, <2>3, <2>4, <2>5 DEF Alike
<1>3. /\ Drop(u, 1) = m /\ Peek(u, 1) = Number(x) /\ ~(Depth(u) < 1)
      /\ u.bench = m.bench /\ u.exit = m.exit
  BY <1>2
<1>4. /\ Drop(v, 1) = a /\ Peek(v, 1) = Number(x) /\ ~(Depth(v) < 1)
      /\ v.bench = m.bench /\ v.exit = m.exit
  <2> HIDE DEF a
  <2>1. QED
    BY <1>1, <1>2
<1>5. ASSUME NEW y PROVE Synced([m EXCEPT !.bench = y], h) = [a EXCEPT !.bench = y]
  <2>1. PushAll([m EXCEPT !.bench = y], Numbers(h)) = [PushAll(m, Numbers(h)) EXCEPT !.bench = y]
    <3> DEFINE q == Numbers(h)
    <3> HIDE DEF q
    <3>1. PushAll([m EXCEPT !.bench = y], q) = [PushAll(m, q) EXCEPT !.bench = y]
      BY DEF PushAll, IsVm
    <3>2. QED
      BY <3>1 DEF q
  <2>2. QED
    BY <2>1 DEF Synced
<1>6. c = Native(u, n, ip) /\ r = Native(v, n, ip)
  OBVIOUS
<1> HIDE DEF u, v
<1>7. ASSUME NEW y, NEW ok, c = Answer([m EXCEPT !.bench = y], ok), r = Answer([a EXCEPT !.bench = y], ok)
      PROVE  r = [c EXCEPT !.vm = Synced(c.vm, h)]
  <2> DEFINE d == [m EXCEPT !.bench = y]
             e == [a EXCEPT !.bench = y]
  <2>1. Synced(d, h) = e
    BY <1>5
  <2>2. c = Answer(d, ok) /\ r = Answer(e, ok)
    BY <1>7
  <2> HIDE DEF d, e
  <2>3. QED
    BY <2>1, <2>2 DEF Answer
<1>8. CASE n = "return"
  <2> DEFINE y == Append(m.bench, Number(x))
  <2>1. c = Fine([m EXCEPT !.bench = y])
    BY <1>3, <1>6, <1>8 DEF Native, ReturnWord
  <2>2. r = Fine([a EXCEPT !.bench = y])
    BY <1>1, <1>4, <1>6, <1>8 DEF Native, ReturnWord
  <2> HIDE DEF y, a
  <2>3. QED
    BY <1>7, <2>1, <2>2 DEF Fine, Alters
<1>9. CASE n = "+." /\ m.bench # <<>>
  <2> DEFINE q == NumericOp("add", Last(m.bench), Number(x))
             y == Front(m.bench) \o q
  <2>1. c = SumBench(u) /\ r = SumBench(v)
    BY <1>6, <1>9 DEF Native
  <2>2. c = Answer([m EXCEPT !.bench = y], q # <<>>)
    BY <1>3, <1>9, <2>1 DEF SumBench
  <2>3. r = Answer([a EXCEPT !.bench = y], q # <<>>)
    BY <1>1, <1>4, <1>9, <2>1 DEF SumBench
  <2> HIDE DEF q, y, a
  <2>4. QED
    BY <1>7, <2>2, <2>3 DEF Alters
<1>10. CASE n = "+." /\ m.bench = <<>>
  <2>1. c = SumBench(u) /\ r = SumBench(v)
    BY <1>6, <1>10 DEF Native
  <2>2. c = Refuse(u) /\ r = Refuse(v)
    BY <1>3, <1>4, <1>10, <2>1 DEF SumBench
  <2>3. Ended(c) = "failed" /\ Ended(r) = "failed" /\ c.vm = u /\ r.vm = v
    BY <2>2 DEF Refuse, Answer, Ended
  <2>4. v = Synced(m, h \o <<x>>)
    <3>1. Synced(Synced(m, h), <<x>>) = Synced(m, h \o <<x>>)
      <4> DEFINE s == <<x>>
      <4>1. s \in Seq(Int) /\ h \in Seq(Int)
        BY <1>0
      <4> HIDE DEF s
      <4>2. Synced(Synced(m, h), s) = Synced(m, h \o s)
        BY <4>1, SyncedTwice
      <4>3. QED
        BY <4>2 DEF s
    <3>2. QED
      BY <3>1 DEF v
  <2>5. QED
    BY <2>3, <2>4 DEF Alters, u
<1>11. QED
  BY <1>8, <1>9, <1>10

LEMMA CrossNone ==
  ASSUME NEW m, IsVm(m), ~m.exit, NEW h \in Seq(Narrow),
         NEW n \in MayCross \ {"return", "+."}, NEW ip,
         NEW c, c = Native(m, n, ip),
         NEW r, r = Native(Synced(m, h), n, ip)
  PROVE  Alters(m, h, <<>>, c, r)
<1> DEFINE a == Synced(m, h)
<1>1. n \in {"nl", "stacks_left", "exit", "oops", "bind+", "bindnl"}
  BY DEF MayCross
<1>2. ASSUME NEW w, NEW ok, c = Answer(w, ok), r = Answer(Synced(w, h), ok)
      PROVE  Alters(m, h, <<>>, c, r)
  BY <1>2 DEF Answer, Alters
<1>3. CASE n = "nl" \/ n = "oops"
  BY <1>2, <1>3 DEF Native, Fine, Refuse
<1>4. CASE n = "stacks_left"
  <2>1. Other(m.current) # m.current /\ m.epoch + 1 # m.epoch
    BY DEF Other, IsVm, Stacks
  <2>2. To(m, Other(m.current)).epoch = m.epoch + 1 /\ To(m, Other(m.current)).exit = m.exit
    BY <2>1 DEF To, IsVm
  <2>3. c = Fine(To(m, Other(m.current)))
    BY <1>4 DEF Native
  <2>4. c.vm.epoch # m.epoch /\ Ended(c) = "running"
    BY <2>1, <2>2, <2>3 DEF Fine, Answer, Ended
  <2>5. QED
    BY <2>4 DEF Alters
<1>5. CASE n = "exit"
  <2>1. Synced([m EXCEPT !.exit = TRUE], h) = [a EXCEPT !.exit = TRUE]
    BY Commutes DEF Synced
  <2>2. c = Answer([m EXCEPT !.exit = TRUE], TRUE) /\ r = Answer([a EXCEPT !.exit = TRUE], TRUE)
    BY <1>5 DEF Native, Fine
  <2>3. QED
    BY <1>2, <2>1, <2>2
<1>6. CASE n = "bind+"
  <2>1. Synced(Rebound(m, "+"), h) = Rebound(a, "+")
    BY Commutes DEF Synced, Names
  <2>2. c = Answer(Rebound(m, "+"), TRUE) /\ r = Answer(Rebound(a, "+"), TRUE)
    BY <1>6 DEF Native, Fine
  <2>3. QED
    BY <1>2, <2>1, <2>2
<1>7. CASE n = "bindnl"
  <2>1. Synced(Rebound(m, "nl"), h) = Rebound(a, "nl")
    BY Commutes DEF Synced, Names
  <2>2. c = Answer(Rebound(m, "nl"), TRUE) /\ r = Answer(Rebound(a, "nl"), TRUE)
    BY <1>7 DEF Native, Fine
  <2>3. QED
    BY <1>2, <2>1, <2>2
<1>8. QED
  BY <1>1, <1>3, <1>4, <1>5, <1>6, <1>7

LEMMA Middle ==
  ASSUME NEW a, NEW b, NEW c, IsSeq(a), IsSeq(b), IsSeq(c)
  PROVE  SubSeq(a \o (b \o c), Len(a) + 1, Len(a) + Len(b)) = b
<1> DEFINE d == b \o c
           s == a \o d
           t == SubSeq(s, Len(a) + 1, Len(a) + Len(b))
<1>1. /\ IsSeq(d) /\ Len(a) \in Nat /\ Len(b) \in Nat /\ Len(c) \in Nat
      /\ Len(d) = Len(b) + Len(c) /\ \A i \in 1 .. Len(b) : d[i] = b[i]
  BY Joined
<1> HIDE DEF d
<1>2. /\ IsSeq(s) /\ Len(s) = Len(a) + Len(d) /\ \A i \in 1 .. Len(d) : s[Len(a) + i] = d[i]
  BY <1>1, Joined
<1> HIDE DEF s
<1>3. PICK S : s \in Seq(S)
  BY <1>2 DEF IsSeq
<1>4. /\ t \in Seq(S) /\ Len(t) = Len(b)
      /\ \A i \in 1 .. Len(b) : t[i] = s[Len(a) + 1 + i - 1]
  <2> DEFINE m == Len(a) + 1
             n == Len(a) + Len(b)
  <2>1. m \in Int /\ n \in Int /\ n - m + 1 = Len(b) /\ (m <= n <=> Len(b) # 0)
    BY <1>1
  <2>2. \A i \in m .. n : i \in 1 .. Len(s)
    BY <1>1, <1>2
  <2>3. \A i \in m .. n : s[i] \in S
    BY <1>3, <2>2, ElementOfSeq
  <2> HIDE DEF m, n
  <2>4. /\ SubSeq(s, m, n) \in Seq(S)
        /\ Len(SubSeq(s, m, n)) = IF m <= n THEN n - m + 1 ELSE 0
        /\ \A i \in 1 .. n - m + 1 : SubSeq(s, m, n)[i] = s[m + i - 1]
    BY <2>1, <2>3, SubSeqProperties
  <2>5. QED
    BY <1>1, <2>1, <2>4 DEF m, n
<1> HIDE DEF t
<1>5. \A i \in 1 .. Len(b) : t[i] = b[i]
  <2> SUFFICES ASSUME NEW i \in 1 .. Len(b) PROVE t[i] = b[i]
    OBVIOUS
  <2>1. Len(a) + 1 + i - 1 = Len(a) + i /\ i \in 1 .. Len(d)
    BY <1>1
  <2>2. QED
    BY <1>1, <1>2, <1>4, <2>1
<1>6. IsSeq(t)
  BY <1>4, AnySeq
<1>7. PICK T : t \in Seq(T) /\ b \in Seq(T)
  BY <1>6, Together
<1>8. t = b
  BY <1>4, <1>5, <1>7, SeqEqual
<1>9. QED
  BY <1>8 DEF t, s, d

AreParts(s, a, b, c) ==
  /\ SubSeq(s, 1, Len(a)) = a
  /\ SubSeq(s, Len(a) + 1, Len(a) + Len(b)) = b
  /\ SubSeq(s, Len(a) + Len(b) + 1, Len(s)) = c
  /\ Len(s) = Len(a) + Len(b) + Len(c)
  /\ Len(a) \in Nat /\ Len(b) \in Nat /\ Len(c) \in Nat

LEMMA Parts ==
  ASSUME NEW a, NEW b, NEW c, IsSeq(a), IsSeq(b), IsSeq(c), NEW s, s = a \o (b \o c)
  PROVE  AreParts(s, a, b, c)
<1>1. /\ IsSeq(b \o c) /\ Len(b \o c) = Len(b) + Len(c)
      /\ Len(a) \in Nat /\ Len(b) \in Nat /\ Len(c) \in Nat
  BY Joined
<1>2. SubSeq(s, 1, Len(a)) = a /\ Len(s) = Len(a) + Len(b) + Len(c)
  <2> DEFINE d == b \o c
  <2>1. IsSeq(d) /\ s = a \o d /\ Len(d) = Len(b) + Len(c)
    BY <1>1
  <2> HIDE DEF d
  <2>2. SubSeq(a \o d, 1, Len(a)) = a /\ Len(a \o d) = Len(a) + Len(d)
    BY <2>1, Joined
  <2>3. QED
    BY <1>1, <2>1, <2>2
<1>3. SubSeq(s, Len(a) + 1, Len(a) + Len(b)) = b
  BY Middle
<1>4. SubSeq(s, Len(a) + Len(b) + 1, Len(s)) = c
  <2> DEFINE d == a \o b
             e == <<>>
  <2>1. IsSeq(d) /\ Len(d) = Len(a) + Len(b) /\ s = d \o c /\ c = c \o e /\ IsSeq(e)
    <3>1. IsSeq(d) /\ Len(d) = Len(a) + Len(b) /\ c \o <<>> = c
      BY Joined
    <3>2. s = d \o c
      BY Joins
    <3>3. IsSeq(e)
      BY SmallStacks DEF IsStack
    <3>4. QED
      BY <3>1, <3>2, <3>3
  <2> HIDE DEF d, e
  <2>2. SubSeq(d \o (c \o e), Len(d) + 1, Len(d) + Len(c)) = c
    BY <2>1, Middle
  <2>3. QED
    BY <1>1, <1>2, <2>1, <2>2
<1>5. QED
  BY <1>1, <1>2, <1>3, <1>4 DEF AreParts

(* w is left but for q, which is on top.                                   *)
Misplaced(left, w, q) ==
  \E i, j \in 0 .. Len(Items(left)) :
    /\ i < j /\ SubSeq(Items(left), i + 1, j) = q
    /\ w = [left EXCEPT !.stack[left.current] =
              SubSeq(Items(left), 1, i) \o SubSeq(Items(left), j + 1, Len(Items(left))) \o q]

(* Pushed above the operands, held values are out of place.                *)
LEMMA OutOfPlace ==
  ASSUME NEW m, IsVm(m), NEW h \in Seq(Int), h # <<>>, NEW o \in Seq(Int),
         NEW left, left = Synced(m, h \o o), NEW w, w = Synced(Synced(m, o), h)
  PROVE  Misplaced(left, w, Numbers(h))
<1> DEFINE a == Items(m)
           b == Numbers(h)
           c == Numbers(o)
           i == Len(a)
           j == Len(a) + Len(b)
           items == Items(left)
<1>1. IsSeq(a) /\ IsSeq(b) /\ IsSeq(c) /\ Len(b) = Len(h) /\ Len(h) \in Nat
  BY NumbersAre, DepthIs
<1>2. left = On(m, a \o (b \o c)) /\ items = a \o (b \o c)
  <2>1. h \o o \in Seq(Int) /\ Numbers(h \o o) = b \o c
    BY NumbersJoined
  <2>2. QED
    BY <2>1, SyncedIs DEF items
<1>3. w = On(m, a \o (c \o b))
  <2>1. w = Synced(m, o \o h)
    BY SyncedTwice
  <2>2. o \o h \in Seq(Int) /\ Numbers(o \o h) = c \o b
    BY NumbersJoined
  <2>3. QED
    BY <2>1, <2>2, SyncedIs
<1> HIDE DEF a, b, c, items
<1>4. /\ SubSeq(items, 1, i) = a /\ SubSeq(items, i + 1, j) = b
      /\ SubSeq(items, j + 1, Len(items)) = c
      /\ Len(items) = Len(a) + Len(b) + Len(c)
      /\ Len(a) \in Nat /\ Len(b) \in Nat /\ Len(c) \in Nat
  <2>1. AreParts(items, a, b, c)
    BY <1>1, <1>2, Parts
  <2>2. QED
    BY <2>1 DEF AreParts
<1>5. Len(b) # 0
  BY <1>1, EmptySeq
<1>6. i \in 0 .. Len(items) /\ j \in 0 .. Len(items) /\ i < j
  BY <1>4, <1>5
<1>7. (a \o c) \o b = a \o (c \o b)
  BY <1>1, Joins
<1>8. w = On(left, (a \o c) \o b)
  BY <1>2, <1>3, <1>7, OnOn
<1>9. w = [left EXCEPT !.stack[left.current] =
             SubSeq(items, 1, i) \o SubSeq(items, j + 1, Len(items)) \o b]
  BY <1>4, <1>8 DEF On
<1> HIDE DEF i, j
<1>10. SubSeq(items, i + 1, j) = Numbers(h)
  BY <1>4 DEF b
<1>11. w = [left EXCEPT !.stack[left.current] =
              SubSeq(items, 1, i) \o SubSeq(items, j + 1, Len(items)) \o Numbers(h)]
  BY <1>9 DEF b
<1>12. QED
  <2> SUFFICES \E p, q \in 0 .. Len(items) :
                 /\ p < q /\ SubSeq(items, p + 1, q) = Numbers(h)
                 /\ w = [left EXCEPT !.stack[left.current] =
                           SubSeq(items, 1, p) \o SubSeq(items, q + 1, Len(items)) \o Numbers(h)]
    BY DEF Misplaced, items
  <2> i \in 0 .. Len(items) /\ j \in 0 .. Len(items)
    BY <1>6
  <2> WITNESS i \in 0 .. Len(items), j \in 0 .. Len(items)
  <2>1. QED
    BY <1>6, <1>10, <1>11

-----------------------------------------------------------------------------
(* What each kind of step makes of the interpreter and what is held.       *)

LEMMA NarrowInts == Seq(Narrow) \subseteq Seq(Int)
<1>1. Narrow \subseteq Int
  BY DEF Narrow
<1>2. QED
  BY <1>1, SeqMonotonic

LEMMA TwoOf ==
  ASSUME NEW S, NEW q \in Seq(S), Len(q) = 2
  PROVE  q = <<q[1], q[2]>> /\ q[1] \in S /\ q[2] \in S
<1>1. q[1] \in S /\ q[2] \in S
  BY ElementOfSeq
<1> DEFINE p == <<q[1], q[2]>>
<1>2. p \in Seq(S) /\ Len(p) = 2 /\ p[1] = q[1] /\ p[2] = q[2]
  BY <1>1
<1> HIDE DEF p
<1>3. \A i \in 1 .. Len(q) : q[i] = p[i]
  BY <1>2
<1>4. q = p
  BY <1>2, <1>3, SeqEqual
<1>5. QED
  BY <1>1, <1>4 DEF p

LEMMA OneOf ==
  ASSUME NEW S, NEW q \in Seq(S), Len(q) = 1
  PROVE  q = <<q[1]>> /\ q[1] \in S
<1>1. q[1] \in S
  BY ElementOfSeq
<1> DEFINE p == <<q[1]>>
<1>2. p \in Seq(S) /\ Len(p) = 1 /\ p[1] = q[1]
  BY <1>1
<1> HIDE DEF p
<1>3. \A i \in 1 .. Len(q) : q[i] = p[i]
  BY <1>2
<1>4. q = p
  BY <1>2, <1>3, SeqEqual
<1>5. QED
  BY <1>1, <1>4 DEF p

LEMMA Split ==
  ASSUME NEW S, NEW q \in Seq(S), NEW k \in 0 .. Len(q)
  PROVE  /\ SubSeq(q, 1, k) \in Seq(S) /\ SubSeq(q, k + 1, Len(q)) \in Seq(S)
         /\ Len(SubSeq(q, 1, k)) = k /\ Len(SubSeq(q, k + 1, Len(q))) = Len(q) - k
         /\ q = SubSeq(q, 1, k) \o SubSeq(q, k + 1, Len(q))
<1>1. /\ IsSeq(SubSeq(q, 1, k)) /\ Len(SubSeq(q, 1, k)) = k
      /\ \A i \in 1 .. k : SubSeq(q, 1, k)[i] = q[i]
      /\ IsSeq(SubSeq(q, k + 1, Len(q))) /\ Len(SubSeq(q, k + 1, Len(q))) = Len(q) - k
      /\ \A i \in 1 .. Len(q) - k : SubSeq(q, k + 1, Len(q))[i] = q[k + i]
      /\ q = SubSeq(q, 1, k) \o SubSeq(q, k + 1, Len(q))
  BY AnySeq, FirstOf
<1>2. Len(q) \in Nat /\ \A i \in 1 .. Len(q) : q[i] \in S
  BY LenProperties, ElementOfSeq
<1>3. SubSeq(q, 1, k) \in Seq(S)
  <2>1. 1 \in Int /\ k \in Int /\ \A i \in 1 .. k : q[i] \in S
    BY <1>2
  <2>2. QED
    BY <2>1, SubSeqProperties
<1>4. SubSeq(q, k + 1, Len(q)) \in Seq(S)
  <2>1. k + 1 \in Int /\ Len(q) \in Int /\ \A i \in k + 1 .. Len(q) : q[i] \in S
    BY <1>2
  <2>2. QED
    BY <2>1, SubSeqProperties
<1>5. QED
  BY <1>1, <1>3, <1>4

LEMMA Registers ==
  ASSUME NEW n \in DOMAIN Fragments, TakesRegisters(Fragments[n])
  PROVE  n \in {"+", "-"} /\ Fragments[n].needs = 2
<1>1. n \in {"+", "-", "<", "swap_one", "dup_one", "drop"}
  BY FragmentsAre
<1>2. n # "<"
  <2>1. Fragments["<"].ops = <<Pop, Pop, Arith("lt", 2, 1), KeepBool>>
    BY FragmentsAre DEF TopAreInt
  <2>2. 3 \in DOMAIN Fragments["<"].ops /\ Fragments["<"].ops[3] = Arith("lt", 2, 1)
    BY <2>1
  <2>3. Arith("lt", 2, 1).op = "lt"
    BY DEF Arith
  <2>4. QED
    BY <2>2, <2>3 DEF TakesRegisters
<1>3. /\ ~Fragments["swap_one"].ints /\ ~Fragments["dup_one"].ints /\ ~Fragments["drop"].ints
      /\ Fragments["+"].needs = 2 /\ Fragments["-"].needs = 2
  BY FragmentsAre DEF TopAreInt, DepthOf
<1>4. QED
  BY <1>1, <1>2, <1>3 DEF TakesRegisters

(* w is an interpreter like m, on which rs held are what n leaves of s.    *)
Inlines(m, s, n, ip, w, rs) ==
  /\ IsVm(w) /\ Alike(m, w) /\ rs \in Seq(Narrow)
  /\ Native(s, n, ip) = Fine(Synced(w, rs))

LEMMA InlinesHeld ==
  ASSUME NEW m, IsVm(m), NEW rs \in Seq(Narrow), NEW n \in DOMAIN Fragments, NEW ip,
         TakesRegisters(Fragments[n]), Len(rs) >= Fragments[n].needs,
         NEW e, e = Len(rs) - Fragments[n].needs,
         NEW ran, ran = Ran(Fragments[n], Synced(m, SubSeq(rs, 1, e)), SubSeq(rs, e + 1, Len(rs)))
  PROVE  Inlines(m, Synced(m, rs), n, ip, ran.vm, ran.regs)
<1>1. n \in {"+", "-"} /\ e = Len(rs) - 2 /\ Len(rs) >= 2 /\ Len(rs) \in Nat
  BY Registers, LenProperties
<1> DEFINE a == SubSeq(rs, 1, e)
           b == SubSeq(rs, e + 1, Len(rs))
<1>2. a \in Seq(Narrow) /\ b \in Seq(Narrow) /\ Len(b) = 2 /\ rs = a \o b
  <2>1. e \in 0 .. Len(rs) /\ Len(rs) - e = 2
    BY <1>1
  <2>2. QED
    BY <2>1, Split
<1>3. ran = Ran(Fragments[n], Synced(m, a), b)
  OBVIOUS
<1> HIDE DEF a, b
<1>4. a \in Seq(Int) /\ b \in Seq(Int) /\ rs \in Seq(Int)
  BY <1>2, NarrowInts
<1>5. PICK x, y : x \in Narrow /\ y \in Narrow /\ b = <<y, x>>
  BY <1>2, TwoOf
<1>6. IsVm(Synced(m, a)) /\ Alike(m, Synced(m, a))
  BY <1>4, SyncedIs
<1>7. Synced(Synced(m, a), b) = Synced(m, rs)
  BY <1>2, <1>4, SyncedTwice
<1> DEFINE w == Synced(m, a)
<1>8. IsVm(w) /\ ran = Ran(Fragments[n], w, <<y, x>>)
  BY <1>3, <1>5, <1>6
<1> HIDE DEF w
<1>9. /\ ran.vm = w /\ ran.regs \in Seq(Narrow)
      /\ Native(Synced(w, <<y, x>>), n, ip) = Fine(Synced(ran.vm, ran.regs))
  BY <1>1, <1>5, <1>8, SiteHeld
<1>10. Synced(w, <<y, x>>) = Synced(m, rs)
  BY <1>5, <1>7 DEF w
<1>11. QED
  BY <1>6, <1>8, <1>9, <1>10 DEF Inlines, w

LEMMA InlinesStack ==
  ASSUME NEW m, IsVm(m), NEW rs \in Seq(Narrow), NEW n \in DOMAIN Fragments, NEW ip,
         Admits(Synced(m, rs), Fragments[n]),
         NEW ran, ran = Ran(Fragments[n], Synced(m, rs), <<>>)
  PROVE  Inlines(m, Synced(m, rs), n, ip, ran.vm, ran.regs)
<1> DEFINE s == Synced(m, rs)
<1>1. IsVm(s) /\ Alike(m, s)
  BY NarrowInts, SyncedIs
<1>2. Admits(s, Fragments[n]) /\ ran = Ran(Fragments[n], s, <<>>)
  OBVIOUS
<1> HIDE DEF s
<1>3. /\ IsVm(ran.vm) /\ Alike(s, ran.vm) /\ ran.regs \in Seq(Narrow)
      /\ Native(s, n, ip) = Fine(Synced(ran.vm, ran.regs))
  BY <1>1, <1>2, SiteStack
<1>4. Alike(m, ran.vm)
  BY <1>1, <1>3 DEF Alike
<1>5. QED
  BY <1>3, <1>4 DEF Inlines, s

LEMMA Least ==
  ASSUME NEW t \in 0 .. 1, NEW l \in Nat
  PROVE  Min({t, l}) = IF t = 1 /\ l = 0 THEN 0 ELSE t
<1> DEFINE k == IF t = 1 /\ l = 0 THEN 0 ELSE t
<1>1. k \in {t, l} /\ \A y \in {t, l} : k <= y
  OBVIOUS
<1>2. \A x \in {t, l} : (\A y \in {t, l} : x <= y) => x = k
  OBVIOUS
<1> HIDE DEF k
<1>3. Min({t, l}) = k
  BY <1>1, <1>2 DEF Min
<1>4. QED
  BY <1>3 DEF k

LEMMA CrossedHeld ==
  ASSUME NEW m, IsVm(m), ~m.exit, NEW n \in MayCross, NEW ip,
         NEW h \in Seq(Narrow), NEW o \in Seq(Narrow),
         h = <<>> \/ Len(o) = Takes(n),
         NEW c, c = Native(Synced(m, o), n, ip),
         NEW r, r = Native(Synced(m, h \o o), n, ip)
  PROVE  Alters(m, h, o, c, r)
<1>1. h \in Seq(Int) /\ o \in Seq(Int)
  BY NarrowInts
<1>2. Synced(m, h \o o) = Synced(Synced(m, h), o)
  BY <1>1, SyncedTwice
<1>3. CASE h = <<>>
  <2>1. IsSeq(o) /\ <<>> \o o = o
    BY AnySeq, Joined, SmallStacks DEF IsStack
  <2>2. r = c
    BY <1>3, <2>1
  <2>3. IsVm(Synced(m, o))
    BY <1>1, SyncedIs
  <2>4. n \in (Names \ {"f"}) \cup Commands
    BY DEF MayCross, Names
  <2>5. Sound(Synced(m, o), c)
    BY <2>3, <2>4, NativeSound
  <2>6. IsVm(c.vm) /\ c = [vm |-> c.vm, filed |-> c.filed, ok |-> c.ok]
    BY <2>5 DEF Sound
  <2>7. Synced(c.vm, h) = c.vm
    BY <1>1, <1>3, <2>6, SyncedIs
  <2>8. r = [c EXCEPT !.vm = Synced(c.vm, h)]
    BY <2>2, <2>6, <2>7
  <2>9. QED
    BY <2>8 DEF Alters
<1>4. CASE h # <<>> /\ n \in {"return", "+."}
  <2>1. Len(o) = 1
    BY <1>4 DEF Takes
  <2>2. PICK x : x \in Narrow /\ o = <<x>>
    BY <2>1, OneOf
  <2>3. c = Native(Synced(m, <<x>>), n, ip) /\ r = Native(Synced(Synced(m, h), <<x>>), n, ip)
    BY <1>2, <2>2
  <2>4. Alters(m, h, <<x>>, c, r)
    BY <1>4, <2>2, <2>3, CrossOne
  <2>5. QED
    BY <2>2, <2>4
<1>5. CASE h # <<>> /\ n \notin {"return", "+."}
  <2>1. o = <<>>
    <3>1. Len(o) = 0
      BY <1>5 DEF Takes
    <3>2. QED
      BY <3>1, EmptySeq
  <2>2. IsSeq(h) /\ h \o <<>> = h
    BY AnySeq, Joined, SmallStacks DEF IsStack
  <2>3. Synced(m, o) = m
    BY <1>1, <2>1, SyncedIs
  <2>4. c = Native(m, n, ip) /\ r = Native(Synced(m, h), n, ip)
    BY <2>1, <2>2, <2>3
  <2>5. Alters(m, h, <<>>, c, r)
    BY <1>5, <2>4, CrossNone
  <2>6. QED
    BY <2>1, <2>5
<1>6. QED
  BY <1>3, <1>4, <1>5

IsHeld(rs, n, h, o) ==
  /\ h = SubSeq(rs, 1, Len(rs) - Min({Takes(n), Len(rs)}))
  /\ o = SubSeq(rs, Len(h) + 1, Len(rs))

LEMMA CrossedIs ==
  ASSUME NEW rs \in Seq(Narrow), NEW n, NEW h, NEW o, IsHeld(rs, n, h, o)
  PROVE  /\ h \in Seq(Narrow) /\ o \in Seq(Narrow) /\ rs = h \o o
         /\ h = <<>> \/ Len(o) = Takes(n)
<1> DEFINE t == Takes(n)
           k == Min({t, Len(rs)})
           j == Len(rs) - k
<1>1. Len(rs) \in Nat
  BY LenProperties
<1>2. t \in 0 .. 1
  BY DEF Takes
<1>3. k = IF t = 1 /\ Len(rs) = 0 THEN 0 ELSE t
  <2> HIDE DEF t
  <2>1. QED
    BY <1>1, <1>2, Least
<1>4. h = SubSeq(rs, 1, j)
  BY DEF IsHeld
<1> HIDE DEF t, k
<1>5. j \in 0 .. Len(rs) /\ Len(rs) - j = k /\ (j = 0 \/ k = t)
  BY <1>1, <1>2, <1>3
<1> HIDE DEF j
<1> DEFINE a == SubSeq(rs, 1, j)
           b == SubSeq(rs, j + 1, Len(rs))
<1>6. a \in Seq(Narrow) /\ b \in Seq(Narrow) /\ Len(a) = j /\ Len(b) = k /\ rs = a \o b
  BY <1>5, Split
<1>7. h = a
  BY <1>4
<1>8. o = b
  <2>1. Len(h) = j
    BY <1>6, <1>7
  <2>2. QED
    BY <2>1 DEF IsHeld
<1> HIDE DEF a, b
<1>9. j = 0 => a = <<>>
  BY <1>6, EmptySeq
<1>10. QED
  BY <1>5, <1>6, <1>7, <1>8, <1>9 DEF t

LEMMA ApplyNative ==
  ASSUME NEW m, IsVm(m), ~m.autoadd, NEW n \in Names, m.native[n], NEW ip
  PROVE  Apply(m, n, ip) = Native(m, n, ip)
<1>1. n \notin Contexts /\ n \notin DOMAIN Literals /\ n \notin Commands
  <2>1. DOMAIN Literals = {"1", "3", "text", "list"}
    BY DEF Literals
  <2>2. QED
    BY <2>1 DEF Names, Contexts, Commands
<1>2. Apply(m, n, ip) = Dispatch(m, n, ip)
  BY <1>1 DEF Apply
<1>3. QED
  BY <1>1, <1>2 DEF Dispatch

LEMMA AppliedSound ==
  ASSUME NEW m, IsVm(m), NEW v \in Values, NEW ip, NEW r, r = Apply(m, v, ip)
  PROVE  /\ Sound(m, r) /\ r.filed \in Seq(Values)
         /\ Ended(r) \in {"running", "failed", "exited"}
         /\ Ended(r) = "running" => r.ok /\ ~r.vm.exit
         /\ \A rest \in Seq(Values) : After(r, rest) \in Seq(Values)
<1>1. Sound(m, r) /\ r.filed \in Seq(Values)
  BY ApplySound
<1>2. \A rest \in Seq(Values) : After(r, rest) \in Seq(Values)
  <2> SUFFICES ASSUME NEW rest \in Seq(Values) PROVE After(r, rest) \in Seq(Values)
    OBVIOUS
  <2>1. r.filed \o rest \in Seq(Values) /\ <<>> \in Seq(Values)
    BY <1>1, ConcatProperties, EmptySeq
  <2>2. QED
    BY <2>1 DEF After
<1>3. QED
  BY <1>1, <1>2 DEF Ended

LEMMA FineGoesOn ==
  ASSUME NEW w, ~w.exit, NEW r, r = Fine(w)
  PROVE  Ended(r) = "running" /\ After(r, <<>>) = <<>> /\ r.vm = w
<1>1. r.ok /\ r.vm = w /\ r.filed = <<>>
  BY DEF Fine, Answer
<1>2. <<>> \o <<>> = <<>>
  OBVIOUS
<1>3. QED
  BY <1>1, <1>2 DEF Ended, After

-----------------------------------------------------------------------------
(* The invariant.                                                          *)

Typed ==
  /\ body \in Seq(Values) /\ at \in Nat \ {0} /\ todo \in Seq(Values)
  /\ regs \in Seq(Narrow) /\ IsVm(vm)
  /\ built.native \in [Names -> BOOLEAN] /\ built.gen \in [Names -> Nat]
  /\ mode \in {"entry", "code", "residual", "tier0"} /\ called \in BOOLEAN
  /\ verdict \in {"none", "ok", "failed", "exited", "reported"}

(* Nothing is held while a body that was called runs, nor out of the code. *)
HeldOnlyInCode ==
  /\ todo # <<>> => regs = <<>> /\ frame = at
  /\ mode # "code" => regs = <<>>

(* The code is at a value only out of the collecting mode; what it called  *)
(* has to be over, and the mode looked at again.                           *)
LooksAgain ==
  /\ mode = "entry" => todo = <<>>
  /\ mode = "code" /\ todo # <<>> => called \/ at > Len(body)
  /\ mode = "code" /\ verdict = "none" /\ ~called /\ at <= Len(body) => ~vm.autoadd

IInv ==
  /\ Typed /\ SeenBy(built, vm) /\ (verdict = "none" => ~vm.exit)
  /\ HeldOnlyInCode /\ LooksAgain

LEMMA SeenIs ==
  ASSUME IInv
  PROVE  /\ IsVm(Seen) /\ Alike(vm, Seen) /\ SeenBy(built, Seen)
         /\ regs \in Seq(Int) /\ Synced(Seen, <<>>) = Seen /\ Synced(vm, <<>>) = vm
         /\ IsVm(vm) /\ (regs = <<>> => Seen = vm)
<1>1. regs \in Seq(Int) /\ IsVm(vm)
  BY NarrowInts DEF IInv, Typed
<1>2. IsVm(Seen) /\ Alike(vm, Seen)
  BY <1>1, SyncedIs DEF Seen
<1>3. Synced(vm, <<>>) = vm
  BY <1>1, SyncedIs
<1>4. Synced(Seen, <<>>) = Seen
  BY <1>1, <1>2, SyncedIs
<1>5. SeenBy(built, Seen)
  BY <1>2 DEF SeenBy, Alike, IInv
<1>6. QED
  BY <1>1, <1>2, <1>3, <1>4, <1>5 DEF Seen

(* A step of tier 0 that applies a value of the body, r being what came of *)
(* it.                                                                     *)
Advances(r) ==
  /\ Seen' = r.vm /\ todo' = After(r, <<>>) /\ at' = at + 1 /\ body' = body
  /\ verdict' = IF Ended(r) = "running" THEN "none" ELSE Ended(r)

LEMMA AdvancesIs ==
  ASSUME verdict = "none", todo = <<>>, at \in Nat, body \in Seq(Values), at <= Len(body),
         Advances(Apply(Seen, Here, at + 1))
  PROVE  Reference!Next
<1> DEFINE r == Apply(Seen, Here, at + 1)
<1>1. Reference!Now = Here
  BY DEF Reference!Now, Here
<1>2. Reference!Result = r
  BY <1>1, SameApply DEF Reference!Result
<1>3. Outcome = "running"
  <2>1. ~(at > Len(body))
    BY LenProperties
  <2>2. QED
    BY <2>1 DEF Outcome
<1>4. Seen' = r.vm /\ todo' = After(r, <<>>) /\ at' = at + 1 /\ body' = body
      /\ verdict' = IF Ended(r) = "running" THEN "none" ELSE Ended(r)
  BY DEF Advances
<1>5. Ended(r) \in {"running", "failed", "exited"}
  BY DEF Ended
<1> HIDE DEF r
<1>6. Outcome' = IF Ended(r) = "running" /\ todo' = <<>> /\ at' > Len(body) THEN "done" ELSE Ended(r)
  BY <1>4, <1>5 DEF Outcome
<1>7. QED
  BY <1>2, <1>3, <1>4, <1>6, SameApply DEF Reference!Next

(* Nothing the program could tell.                                         *)
Stutters == UNCHANGED <<body, Seen, todo, at, Outcome>>

LEMMA EnterIs ==
  ASSUME IInv, Enter
  PROVE  IInv' /\ Stutters
<1>1. mode' \in {"code", "tier0"} /\ (mode' = "code" => ~vm.autoadd) /\ regs = <<>>
  BY DEF Enter, IInv, HeldOnlyInCode
<1>2. UNCHANGED <<body, built, vm, regs, at, todo, frame, called, verdict>>
  BY DEF Enter, code
<1>3. Typed' /\ SeenBy(built, vm)' /\ (verdict = "none" => ~vm.exit)'
  BY <1>1, <1>2 DEF IInv, Typed, SeenBy
<1>4. HeldOnlyInCode'
  BY <1>1, <1>2 DEF IInv, HeldOnlyInCode
<1>5. LooksAgain'
  BY <1>1, <1>2 DEF Enter, IInv, LooksAgain
<1>6. Stutters
  BY <1>2 DEF Stutters, Seen, Outcome
<1>7. QED
  BY <1>3, <1>4, <1>5, <1>6 DEF IInv

(* A value of the body that is no call of a body, with nothing left over.  *)
LEMMA PromoteIs ==
  ASSUME IInv, Promote
  PROVE  IInv' /\ Reference!Next
<1> DEFINE k == Literals[Here].n
           x == Literals[Here]
<1>1. /\ mode = "code" /\ verdict = "none" /\ todo = <<>> /\ ~called /\ at <= Len(body)
      /\ Here \in {"1", "3"} /\ regs' = Append(regs, k) /\ at' = at + 1
      /\ UNCHANGED <<body, built, vm, todo, frame, mode, called, verdict>>
  BY DEF Promote, At, IsLiteral, code
<1>2. ~vm.autoadd /\ ~vm.exit /\ at \in Nat /\ body \in Seq(Values)
  BY <1>1 DEF IInv, LooksAgain, Typed
<1>3. x = Number(1) \/ x = Number(3)
  BY <1>1 DEF Literals
<1>4. k \in Narrow /\ k \in Int /\ Number(k) = x
  <2>1. \A n \in {1, 3} : Number(n).n = Wrap(n) /\ Wrap(n) \in Narrow /\ Number(Wrap(n)) = Number(n)
    BY Wraps DEF Number, Of
  <2>2. \A n \in Narrow : n \in Int
    BY DEF Narrow
  <2>3. QED
    BY <1>3, <2>1, <2>2
<1>5. regs \in Seq(Narrow) /\ regs \in Seq(Int) /\ IsVm(vm) /\ IsVm(Seen) /\ Alike(vm, Seen)
  BY SeenIs DEF IInv, Typed
<1> HIDE DEF k
<1>6. regs' = regs \o <<k>> /\ regs' \in Seq(Narrow) /\ <<k>> \in Seq(Int)
  BY <1>1, <1>4, <1>5, AppendIsConcat
<1>7. Seen' = Push(Seen, x)
  <2>1. Seen' = Synced(vm, regs \o <<k>>)
    BY <1>1, <1>6 DEF Seen
  <2>2. Synced(Synced(vm, regs), <<k>>) = Synced(vm, regs \o <<k>>)
    <3> DEFINE s == <<k>>
    <3>1. s \in Seq(Int)
      BY <1>6
    <3> HIDE DEF s
    <3>2. Synced(Synced(vm, regs), s) = Synced(vm, regs \o s)
      BY <1>5, <3>1, SyncedTwice
    <3>3. QED
      BY <3>2 DEF s
  <2>3. Synced(Seen, <<k>>) = PushAll(Seen, <<x>>)
    BY <1>4, NumbersOf DEF Synced
  <2>4. IsItem(x)
    BY <1>3, ItemsMade
  <2>5. Push(Seen, x) = PushAll(Seen, <<x>>)
    <3> DEFINE y == x
    <3> HIDE DEF y
    <3>1. IsItem(y) => Push(Seen, y) = PushAll(Seen, <<y>>)
      BY <1>5, PushIs
    <3>2. QED
      BY <2>4, <3>1 DEF y
  <2>6. QED
    BY <2>1, <2>2, <2>3, <2>5 DEF Seen
<1>8. Apply(Seen, Here, at + 1) = Fine(Seen')
  <2>1. Here \in DOMAIN Literals /\ Here \notin Contexts
    BY <1>1 DEF Literals, Contexts
  <2>2. ~Seen.autoadd
    BY <1>2, <1>5 DEF Alike
  <2>3. QED
    BY <1>7, <2>1, <2>2 DEF Apply
<1>9. ~(Seen'.exit)
  <2>1. IsItem(x)
    BY <1>3, ItemsMade
  <2>2. Alike(Seen, Push(Seen, x))
    <3> DEFINE y == x
    <3> HIDE DEF y
    <3>1. IsItem(y) => Alike(Seen, Push(Seen, y))
      BY <1>5, PushIs
    <3>2. QED
      BY <2>1, <3>1 DEF y
  <2>3. QED
    BY <1>2, <1>5, <1>7, <2>2 DEF Alike
<1>10. Advances(Apply(Seen, Here, at + 1))
  <2> DEFINE r == Apply(Seen, Here, at + 1)
  <2>1. Ended(r) = "running" /\ After(r, <<>>) = <<>> /\ r.vm = Seen'
    BY <1>8, <1>9, FineGoesOn
  <2> HIDE DEF r
  <2>2. Advances(r)
    BY <1>1, <2>1 DEF Advances
  <2>3. QED
    BY <2>2 DEF r
<1>11. Reference!Next
  BY <1>1, <1>2, <1>10, AdvancesIs
<1>12. IInv'
  <2>1. Typed'
    BY <1>1, <1>6 DEF IInv, Typed
  <2>2. SeenBy(built, vm)' /\ (verdict = "none" => ~vm.exit)' /\ HeldOnlyInCode' /\ LooksAgain'
    BY <1>1, <1>2 DEF IInv, HeldOnlyInCode, LooksAgain
  <2>3. QED
    BY <2>1, <2>2 DEF IInv
<1>13. QED
  BY <1>11, <1>12

(* What the compiler saw of a name still holds.                            *)
LEMMA StillNative ==
  ASSUME IInv, NEW n \in Names, Sure(n), Fresh(n)
  PROVE  vm.native[n] /\ Seen.native[n]
<1>1. built.native[n] = vm.native[n] /\ built.native[n]
  BY DEF IInv, SeenBy, Sure, Fresh
<1>2. Alike(vm, Seen)
  BY SeenIs
<1>3. QED
  BY <1>1, <1>2 DEF Alike

LEMMA InlineIs ==
  ASSUME IInv, At, Inlined(Here), GuardsHold(Here),
         Inlines(vm, Seen, Here, at + 1, vm', regs'), at' = at + 1,
         UNCHANGED <<code, todo, frame, mode, called, verdict>>
  PROVE  IInv' /\ Reference!Next
<1>1. /\ mode = "code" /\ verdict = "none" /\ todo = <<>> /\ ~called /\ at <= Len(body)
      /\ at' = at + 1 /\ ~vm.autoadd /\ Sure(Here) /\ Fresh(Here) /\ Here \in Names
      /\ UNCHANGED <<body, built, todo, frame, mode, called, verdict>>
  <2>1. Here \in Names
    BY FragmentsAre DEF Inlined, Names
  <2>2. QED
    BY <2>1 DEF At, Inlined, GuardsHold, code
<1>2. ~vm.exit /\ at \in Nat /\ body \in Seq(Values)
  BY <1>1 DEF IInv, Typed
<1>3. IsVm(vm') /\ Alike(vm, vm') /\ regs' \in Seq(Narrow) /\ Native(Seen, Here, at + 1) = Fine(Seen')
  BY DEF Inlines, Seen
<1>4. IsVm(Seen) /\ Alike(vm, Seen) /\ IsVm(vm)
  BY SeenIs
<1>5. Seen.native[Here]
  BY <1>1, StillNative
<1>6. Apply(Seen, Here, at + 1) = Fine(Seen')
  <2>1. ~Seen.autoadd
    BY <1>1, <1>4 DEF Alike
  <2>2. Apply(Seen, Here, at + 1) = Native(Seen, Here, at + 1)
    BY <1>1, <1>4, <1>5, <2>1, ApplyNative
  <2>3. QED
    BY <1>3, <2>2
<1>7. regs' \in Seq(Int)
  BY <1>3, NarrowInts
<1>8. Alike(vm', Seen')
  BY <1>3, <1>7, SyncedIs DEF Seen
<1>9. ~(Seen'.exit)
  BY <1>2, <1>3, <1>8 DEF Alike
<1>10. Advances(Apply(Seen, Here, at + 1))
  <2> DEFINE r == Apply(Seen, Here, at + 1)
  <2>1. Ended(r) = "running" /\ After(r, <<>>) = <<>> /\ r.vm = Seen'
    BY <1>6, <1>9, FineGoesOn
  <2> HIDE DEF r
  <2>2. Advances(r)
    BY <1>1, <2>1 DEF Advances
  <2>3. QED
    BY <2>2 DEF r
<1>11. Reference!Next
  BY <1>1, <1>2, <1>10, AdvancesIs
<1>12. IInv'
  <2>1. Typed'
    BY <1>1, <1>3 DEF IInv, Typed
  <2>2. SeenBy(built, vm)'
    BY <1>1, <1>3 DEF IInv, SeenBy, Alike
  <2>3. (verdict = "none" => ~vm.exit)'
    BY <1>2, <1>3 DEF Alike
  <2>4. HeldOnlyInCode' /\ LooksAgain'
    BY <1>1, <1>3 DEF IInv, HeldOnlyInCode, LooksAgain, Alike
  <2>5. QED
    BY <2>1, <2>2, <2>3, <2>4 DEF IInv
<1>13. QED
  BY <1>11, <1>12

LEMMA InlineHeldIs ==
  ASSUME IInv, InlineHeld
  PROVE  IInv' /\ Reference!Next
<1> DEFINE e == Len(regs) - Fragments[Here].needs
           ran == Ran(Fragments[Here], Synced(vm, SubSeq(regs, 1, e)),
                      SubSeq(regs, e + 1, Len(regs)))
<1>1. /\ At /\ Inlined(Here) /\ TakesRegisters(Fragments[Here])
      /\ Len(regs) >= Fragments[Here].needs /\ GuardsHold(Here)
      /\ vm' = ran.vm /\ regs' = ran.regs /\ at' = at + 1
      /\ UNCHANGED <<code, todo, frame, mode, called, verdict>>
  BY DEF InlineHeld, FromRegisters
<1>2. Here \in DOMAIN Fragments /\ IsVm(vm) /\ regs \in Seq(Narrow)
  BY <1>1 DEF Inlined, IInv, Typed
<1>3. Inlines(vm, Synced(vm, regs), Here, at + 1, ran.vm, ran.regs)
  BY <1>1, <1>2, InlinesHeld
<1> HIDE DEF ran
<1>4. Inlines(vm, Seen, Here, at + 1, vm', regs')
  BY <1>1, <1>3 DEF Seen
<1>5. QED
  BY <1>1, <1>4, InlineIs

LEMMA InlineStackIs ==
  ASSUME IInv, InlineStack
  PROVE  IInv' /\ Reference!Next
<1> DEFINE ran == Ran(Fragments[Here], Synced(vm, regs), <<>>)
<1>1. /\ At /\ Inlined(Here) /\ Admits(Synced(vm, regs), Fragments[Here]) /\ GuardsHold(Here)
      /\ vm' = ran.vm /\ regs' = ran.regs /\ at' = at + 1
      /\ UNCHANGED <<code, todo, frame, mode, called, verdict>>
  BY DEF InlineStack
<1>2. Here \in DOMAIN Fragments /\ IsVm(vm) /\ regs \in Seq(Narrow)
  BY <1>1 DEF Inlined, IInv, Typed
<1>3. Inlines(vm, Synced(vm, regs), Here, at + 1, ran.vm, ran.regs)
  BY <1>1, <1>2, InlinesStack
<1> HIDE DEF ran
<1>4. Inlines(vm, Seen, Here, at + 1, vm', regs')
  BY <1>1, <1>3 DEF Seen
<1>5. QED
  BY <1>1, <1>4, InlineIs

(* The rest is left to the interpreter.                                    *)
LEMMA ResidualIs ==
  ASSUME IInv, mode = "code", todo = <<>>, ToResidual, UNCHANGED <<code, at, todo, frame, verdict>>,
         called' \in BOOLEAN
  PROVE  IInv' /\ Stutters
<1>1. /\ vm' = Seen /\ regs' = <<>> /\ mode' = "residual"
      /\ UNCHANGED <<body, built, at, todo, frame, verdict>>
  BY DEF ToResidual, code, Seen
<1>2. /\ IsVm(Seen) /\ Alike(vm, Seen) /\ SeenBy(built, Seen) /\ Synced(Seen, <<>>) = Seen
  BY SeenIs
<1>3. Seen' = Seen
  <2>1. Seen' = Synced(vm', regs')
    BY DEF Seen
  <2>2. Seen' = Synced(Seen, <<>>)
    BY <1>1, <2>1
  <2>3. QED
    BY <1>2, <2>2
<1>4. Stutters
  BY <1>1, <1>3 DEF Stutters, Outcome
<1>5. Typed'
  <2>1. <<>> \in Seq(Narrow)
    BY EmptySeq
  <2>2. QED
    BY <1>1, <1>2, <2>1 DEF IInv, Typed
<1>6. SeenBy(built, vm)'
  BY <1>1, <1>2 DEF SeenBy
<1>7. (verdict = "none" => ~vm.exit)'
  BY <1>1, <1>2 DEF IInv, Alike
<1>8. HeldOnlyInCode' /\ LooksAgain'
  BY <1>1 DEF IInv, HeldOnlyInCode, LooksAgain
<1>9. QED
  BY <1>4, <1>5, <1>6, <1>7, <1>8 DEF IInv

LEMMA RefusedIs ==
  ASSUME IInv, Refused
  PROVE  IInv' /\ Stutters
BY ResidualIs DEF Refused, At, IInv, Typed

LEMMA CrossStaleIs ==
  ASSUME IInv, CrossStale
  PROVE  IInv' /\ Stutters
BY ResidualIs DEF CrossStale, Crossing, At, IInv, Typed

LEMMA BackIs ==
  ASSUME IInv, Back
  PROVE  IInv' /\ Stutters
<1>1. /\ mode = "code" /\ verdict = "none" /\ todo = <<>> /\ called' = FALSE
      /\ UNCHANGED <<code, at, todo, frame, verdict>>
  BY DEF Back
<1>2. CASE vm.autoadd
  BY <1>1, <1>2, ResidualIs DEF Back
<1>3. CASE ~vm.autoadd
  <2>1. UNCHANGED <<body, built, vm, regs, mode, at, todo, frame, verdict>>
    BY <1>1, <1>3 DEF Back, code
  <2>2. Stutters
    BY <2>1 DEF Stutters, Seen, Outcome
  <2>3. Typed' /\ SeenBy(built, vm)' /\ (verdict = "none" => ~vm.exit)'
    BY <1>1, <2>1 DEF IInv, Typed
  <2>4. HeldOnlyInCode' /\ LooksAgain'
    BY <1>1, <1>3, <2>1 DEF IInv, HeldOnlyInCode, LooksAgain
  <2>5. QED
    BY <2>2, <2>3, <2>4 DEF IInv
<1>4. QED
  BY <1>2, <1>3

LEMMA ReturnIs ==
  ASSUME IInv, Return
  PROVE  IInv' /\ Stutters
<1>1. /\ verdict = "none" /\ todo = <<>> /\ at > Len(body) /\ verdict' = "ok"
      /\ vm' = Seen /\ regs' = <<>> /\ UNCHANGED <<body, built, at, todo, frame, mode, called>>
  BY DEF Return, Seen, code
<1>2. IsVm(Seen) /\ SeenBy(built, Seen) /\ Synced(Seen, <<>>) = Seen
  BY SeenIs
<1>3. Seen' = Seen
  <2>1. Seen' = Synced(vm', regs')
    BY DEF Seen
  <2>2. Seen' = Synced(Seen, <<>>)
    BY <1>1, <2>1
  <2>3. QED
    BY <1>2, <2>2
<1>4. Stutters
  BY <1>1, <1>3 DEF Stutters, Outcome
<1>5. Typed'
  <2>1. <<>> \in Seq(Narrow)
    BY EmptySeq
  <2>2. QED
    BY <1>1, <1>2, <2>1 DEF IInv, Typed
<1>6. SeenBy(built, vm)'
  BY <1>1, <1>2 DEF SeenBy
<1>7. (verdict = "none" => ~vm.exit)' /\ HeldOnlyInCode' /\ LooksAgain'
  BY <1>1 DEF IInv, HeldOnlyInCode, LooksAgain
<1>8. QED
  BY <1>4, <1>5, <1>6, <1>7 DEF IInv

(* A call with everything pushed, by the code or after it.                 *)
LEMMA AppliedIs ==
  ASSUME IInv, verdict = "none", todo = <<>>, at <= Len(body),
         Applied(Seen), regs' = <<>>, UNCHANGED <<code, mode>>, called' \in BOOLEAN,
         mode # "entry", mode = "code" => called' \/ at = Len(body)
  PROVE  IInv' /\ Reference!Next
<1> DEFINE r == Apply(Seen, Here, at + 1)
<1>1. /\ vm' = r.vm /\ verdict' = (IF Ended(r) = "running" THEN "none" ELSE Ended(r))
      /\ todo' = After(r, <<>>) /\ frame' = at + 1 /\ at' = at + 1
      /\ UNCHANGED <<body, built, mode>>
  BY DEF Applied, Answered, code
<1>2. at \in Nat \ {0} /\ body \in Seq(Values) /\ Len(body) \in Nat /\ Here \in Values
  <2>1. at \in Nat \ {0} /\ body \in Seq(Values) /\ Len(body) \in Nat
    BY LenProperties DEF IInv, Typed
  <2>2. QED
    BY <2>1, ElementOfSeq DEF Here
<1>3. IsVm(Seen) /\ Alike(vm, Seen) /\ SeenBy(built, Seen) /\ <<>> \in Seq(Values)
  BY SeenIs, EmptySeq
<1>4. /\ Sound(Seen, r) /\ r.filed \in Seq(Values)
      /\ Ended(r) \in {"running", "failed", "exited"}
      /\ Ended(r) = "running" => r.ok /\ ~r.vm.exit
      /\ After(r, <<>>) \in Seq(Values)
  BY <1>2, <1>3, AppliedSound
<1>5. IsVm(r.vm) /\ Grew(Seen, r.vm)
  BY <1>4 DEF Sound
<1>6. SeenBy(built, r.vm)
  BY <1>3, <1>5, SeenStill DEF IInv, Typed
<1>7. <<>> \in Seq(Int) /\ <<>> \in Seq(Narrow)
  BY EmptySeq
<1>8. Synced(r.vm, <<>>) = r.vm
  BY <1>5, <1>7, SyncedIs
<1>9. Seen' = r.vm
  <2>1. Seen' = Synced(vm', regs')
    BY DEF Seen
  <2> HIDE DEF r
  <2>2. Seen' = Synced(r.vm, <<>>)
    BY <1>1, <2>1
  <2>3. QED
    BY <1>8, <2>2
<1>10. Reference!Next
  <2>1. Advances(r)
    <3> HIDE DEF r
    <3>1. QED
      BY <1>1, <1>9 DEF Advances
  <2>2. QED
    BY <1>2, <2>1, AdvancesIs
<1> HIDE DEF r
<1>11. Typed'
  BY <1>1, <1>2, <1>4, <1>5, <1>7 DEF IInv, Typed
<1>12. SeenBy(built, vm)'
  BY <1>1, <1>6 DEF SeenBy
<1>13. (verdict = "none" => ~vm.exit)'
  BY <1>1, <1>4
<1>14. HeldOnlyInCode' /\ LooksAgain'
  BY <1>1, <1>2 DEF HeldOnlyInCode, LooksAgain
<1>15. QED
  BY <1>10, <1>11, <1>12, <1>13, <1>14 DEF IInv

LEMMA CallIs ==
  ASSUME IInv, Call
  PROVE  IInv' /\ Reference!Next
BY AppliedIs DEF Call, At, Seen, TailHere

LEMMA ValueIs ==
  ASSUME IInv, Value
  PROVE  IInv' /\ Reference!Next
<1>1. /\ mode \in {"residual", "tier0"} /\ verdict = "none" /\ todo = <<>> /\ at <= Len(body)
      /\ Applied(vm) /\ UNCHANGED <<code, regs, mode, called>>
  BY DEF Value
<1>2. regs = <<>>
  BY <1>1 DEF IInv, HeldOnlyInCode
<1>3. Seen = vm
  BY <1>2, SeenIs
<1>4. Applied(Seen)
  BY <1>1, <1>3 DEF Applied
<1>5. called' \in BOOLEAN
  BY <1>1 DEF IInv, Typed
<1>6. QED
  BY <1>1, <1>2, <1>4, <1>5, AppliedIs

LEMMA CalleeIs ==
  ASSUME IInv, Callee
  PROVE  IInv' /\ Reference!Next
<1> DEFINE r == Apply(vm, Head(todo), frame)
<1>1. /\ verdict = "none" /\ todo # <<>>
      /\ vm' = r.vm /\ verdict' = (IF Ended(r) = "running" THEN "none" ELSE Ended(r))
      /\ todo' = After(r, Tail(todo)) /\ UNCHANGED <<body, built, regs, at, frame, mode, called>>
  BY DEF Callee, Answered, code
<1>2. regs = <<>> /\ frame = at /\ Seen = vm
  BY <1>1, SeenIs DEF IInv, HeldOnlyInCode
<1>3. Head(todo) \in Values /\ Tail(todo) \in Seq(Values)
  BY <1>1, HeadTailProperties DEF IInv, Typed
<1>4. /\ Sound(vm, r) /\ r.filed \in Seq(Values)
      /\ Ended(r) \in {"running", "failed", "exited"}
      /\ Ended(r) = "running" => r.ok /\ ~r.vm.exit
      /\ After(r, Tail(todo)) \in Seq(Values)
  BY <1>3, SeenIs, AppliedSound
<1>5. IsVm(r.vm) /\ Grew(vm, r.vm)
  BY <1>4 DEF Sound
<1>6. SeenBy(built, r.vm)
  BY <1>5, SeenIs, SeenStill DEF IInv, Typed
<1>7. <<>> \in Seq(Int)
  BY EmptySeq
<1>8. Synced(r.vm, <<>>) = r.vm
  BY <1>5, <1>7, SyncedIs
<1>9. Seen' = r.vm
  <2>1. Seen' = Synced(vm', regs')
    BY DEF Seen
  <2> HIDE DEF r
  <2>2. Seen' = Synced(r.vm, <<>>)
    BY <1>1, <1>2, <2>1
  <2>3. QED
    BY <1>8, <2>2
<1>10. Reference!Result = r
  <2>1. Reference!Now = Head(todo)
    BY <1>1 DEF Reference!Now
  <2>2. QED
    BY <1>1, <1>2, <2>1, SameApply DEF Reference!Result
<1> HIDE DEF r
<1>11. Outcome = "running"
  BY <1>1 DEF Outcome
<1>12. Outcome' = IF Ended(r) = "running" /\ todo' = <<>> /\ at' > Len(body) THEN "done" ELSE Ended(r)
  BY <1>1, <1>4 DEF Outcome
<1>13. Reference!Next
  BY <1>1, <1>9, <1>10, <1>11, <1>12, SameApply DEF Reference!Next
<1>14. Typed'
  BY <1>1, <1>4, <1>5 DEF IInv, Typed
<1>15. SeenBy(built, vm)'
  BY <1>1, <1>6 DEF SeenBy
<1>16. (verdict = "none" => ~vm.exit)'
  BY <1>1, <1>4
<1>17. HeldOnlyInCode'
  BY <1>1, <1>2 DEF IInv, HeldOnlyInCode
<1>18. LooksAgain'
  <2>1. at \in Nat /\ Len(body) \in Nat
    BY LenProperties DEF IInv, Typed
  <2>2. mode # "entry" /\ (mode = "code" => called \/ at > Len(body))
    BY <1>1 DEF IInv, LooksAgain
  <2>3. QED
    BY <1>1, <2>1, <2>2 DEF LooksAgain
<1>19. QED
  BY <1>13, <1>14, <1>15, <1>16, <1>17, <1>18 DEF IInv

LEMMA ResultIs ==
  ASSUME todo = <<>>
  PROVE  Reference!Result = Apply(Seen, Here, at + 1)
<1>1. Reference!Now = Here
  BY DEF Reference!Now, Here
<1>2. QED
  BY <1>1, SameApply DEF Reference!Result

LEMMA CrossIs ==
  ASSUME IInv, Cross
  PROVE  IInv' /\ (Reference!Next \/ Reported \/ Disordered)
<1> DEFINE o == Operands
           h == Held
           c == Apply(Synced(vm, o), Here, at + 1)
           r == Apply(Seen, Here, at + 1)
<1>1. /\ mode = "code" /\ verdict = "none" /\ todo = <<>> /\ ~called /\ at <= Len(body)
      /\ Here \in Crossable /\ Sure(Here) /\ Fresh(Here)
      /\ todo' = After(c, <<>>) /\ frame' = at + 1 /\ at' = at + 1 /\ called' = TRUE
      /\ UNCHANGED <<body, built, mode>>
  BY DEF Cross, Crossing, At, Crosses, code
<1>2. Here \in MayCross /\ Here \in Names /\ Here \in (Names \ {"f"}) \cup Commands
  BY <1>1, JitAssumption DEF MayCross, Names
<1>3. /\ ~vm.exit /\ ~vm.autoadd /\ at \in Nat \ {0} /\ body \in Seq(Values)
      /\ regs \in Seq(Narrow)
  BY <1>1 DEF IInv, LooksAgain, Typed
<1>4. IsVm(vm) /\ IsVm(Seen) /\ Alike(vm, Seen)
  BY SeenIs
<1>5. h \in Seq(Narrow) /\ o \in Seq(Narrow) /\ regs = h \o o /\ (h = <<>> \/ Len(o) = Takes(Here))
  <2>1. IsHeld(regs, Here, Held, Operands)
    BY DEF IsHeld, Held, Operands
  <2>2. QED
    BY <1>3, <2>1, CrossedIs
<1> HIDE DEF h, o
<1>6. h \in Seq(Int) /\ o \in Seq(Int) /\ <<>> \in Seq(Int) /\ <<>> \in Seq(Narrow) /\ <<>> \in Seq(Values)
  BY <1>5, NarrowInts, EmptySeq
<1> DEFINE s == Synced(vm, o)
<1>7. IsVm(s) /\ Alike(vm, s)
  BY <1>4, <1>6, SyncedIs
<1>8. vm.native[Here] /\ Seen.native[Here]
  BY <1>1, <1>2, StillNative
<1>9. c = Native(s, Here, at + 1)
  <2>1. ~s.autoadd /\ s.native[Here]
    BY <1>3, <1>7, <1>8 DEF Alike
  <2>2. QED
    BY <1>2, <1>7, <2>1, ApplyNative
<1>10. r = Native(Synced(vm, h \o o), Here, at + 1)
  <2>1. ~Seen.autoadd
    BY <1>3, <1>4 DEF Alike
  <2>2. r = Native(Seen, Here, at + 1)
    BY <1>2, <1>4, <1>8, <2>1, ApplyNative
  <2>3. QED
    BY <1>5, <2>2 DEF Seen
<1> HIDE DEF r, c
<1>11. Alters(vm, h, o, c, r)
  BY <1>2, <1>3, <1>4, <1>5, <1>9, <1>10, CrossedHeld
<1>12. Sound(s, c) /\ c.filed = <<>>
  BY <1>2, <1>7, <1>9, NativeSound
<1>13. /\ IsVm(c.vm) /\ c = [vm |-> c.vm, filed |-> c.filed, ok |-> c.ok] /\ Grew(s, c.vm)
       /\ c.ok \in BOOLEAN
  BY <1>12 DEF Sound
<1> HIDE DEF s
<1>14. todo' = <<>> /\ After(c, <<>>) = <<>>
  <2>1. <<>> \o <<>> = <<>>
    OBVIOUS
  <2>2. QED
    BY <1>1, <1>12, <2>1 DEF After
<1>15. SeenBy(built, s)
  BY <1>7 DEF SeenBy, Alike, IInv
<1>16. SeenBy(built, c.vm)
  BY <1>7, <1>13, <1>15, SeenStill DEF IInv, Typed
<1> DEFINE k == Synced(c.vm, h)
<1>17. IsVm(k) /\ Alike(c.vm, k) /\ Synced(k, <<>>) = k
  <2>1. IsVm(k) /\ Alike(c.vm, k)
    BY <1>6, <1>13, SyncedIs
  <2> HIDE DEF k
  <2>2. QED
    BY <1>6, <2>1, SyncedIs
<1>18. SeenBy(built, k)
  BY <1>16, <1>17 DEF SeenBy, Alike
<1>19. /\ Ended(c) # "running" =>
            vm' = k /\ regs' = <<>> /\ verdict' = Ended(c)
       /\ Ended(c) = "running" /\ c.vm.epoch = vm.epoch =>
            vm' = c.vm /\ regs' = h /\ verdict' = "none"
       /\ Ended(c) = "running" /\ c.vm.epoch # vm.epoch =>
            vm' = c.vm /\ regs' = <<>> /\ verdict' = "reported"
  BY DEF Cross, Answered, c, h, o
<1>20. Ended(c) \in {"running", "failed", "exited"} /\ (Ended(c) = "running" => c.ok /\ ~c.vm.exit)
  BY DEF Ended
<1>21. IInv'
  <2>1. IsVm(vm') /\ SeenBy(built, vm') /\ regs' \in Seq(Narrow)
    BY <1>5, <1>6, <1>13, <1>16, <1>17, <1>18, <1>19
  <2>2. verdict' \in {"none", "ok", "failed", "exited", "reported"}
    BY <1>19, <1>20
  <2>8. /\ at' \in Nat \ {0} /\ todo' \in Seq(Values) /\ mode' = "code" /\ called' \in BOOLEAN
        /\ body' \in Seq(Values) /\ built' = built
    <3>1. at' \in Nat \ {0}
      BY <1>1, <1>3
    <3>2. todo' \in Seq(Values)
      BY <1>6, <1>14
    <3>3. mode' = "code" /\ called' \in BOOLEAN /\ body' \in Seq(Values) /\ built' = built
      BY <1>1, <1>3
    <3>4. QED
      BY <3>1, <3>2, <3>3
  <2>9. built.native \in [Names -> BOOLEAN] /\ built.gen \in [Names -> Nat]
    BY DEF IInv, Typed
  <2>3. Typed'
    BY <2>1, <2>2, <2>8, <2>9 DEF Typed
  <2>4. SeenBy(built, vm)'
    BY <1>1, <2>1 DEF SeenBy
  <2>5. (verdict = "none" => ~vm.exit)'
    BY <1>19, <1>20
  <2>6. HeldOnlyInCode' /\ LooksAgain'
    BY <1>1, <1>14 DEF HeldOnlyInCode, LooksAgain
  <2>7. QED
    BY <2>3, <2>4, <2>5, <2>6 DEF IInv
<1>22. CASE Ended(c) = "running" /\ c.vm.epoch # vm.epoch
  <2>1. Reported
    BY <1>19, <1>22 DEF Reported
  <2>2. QED
    BY <1>21, <2>1
<1>23. CASE r = [c EXCEPT !.vm = k] /\ ~(Ended(c) = "running" /\ c.vm.epoch # vm.epoch)
  <2>1. r = [vm |-> k, filed |-> <<>>, ok |-> c.ok]
    <3> HIDE DEF k
    <3>1. QED
      BY <1>12, <1>13, <1>23
  <2>2. Ended(r) = Ended(c) /\ After(r, <<>>) = <<>>
    <3>1. r.ok = c.ok /\ r.vm.exit = c.vm.exit /\ r.filed = <<>>
      BY <1>17, <2>1 DEF Alike
    <3>2. <<>> \o <<>> = <<>>
      OBVIOUS
    <3>3. QED
      BY <3>1, <3>2 DEF Ended, After
  <2>3. Seen' = k
    <3>1. Seen' = Synced(vm', regs')
      BY DEF Seen
    <3>2. CASE Ended(c) # "running"
      BY <1>17, <1>19, <3>1, <3>2
    <3>3. CASE Ended(c) = "running"
      BY <1>19, <1>23, <3>1, <3>3
    <3>4. QED
      BY <3>2, <3>3
  <2>4. verdict' = IF Ended(r) = "running" THEN "none" ELSE Ended(r)
    BY <1>19, <1>23, <2>2
  <2>5. Advances(r)
    BY <1>1, <1>14, <2>1, <2>2, <2>3, <2>4 DEF Advances
  <2>6. Reference!Next
    BY <1>1, <1>3, <2>5, AdvancesIs DEF r
  <2>7. QED
    BY <1>21, <2>6
<1>24. CASE /\ Ended(c) = "failed" /\ Ended(r) = "failed"
            /\ c.vm = Synced(vm, o) /\ r.vm = Synced(vm, h \o o) /\ h # <<>>
  <2>1. Reference!Result = r
    BY <1>1, ResultIs DEF r
  <2>2. verdict' = "failed" /\ vm' = Synced(Synced(vm, o), h)
    BY <1>19, <1>24
  <2>3. Misplaced(r.vm, vm', Numbers(h))
    BY <1>4, <1>6, <1>24, <2>2, OutOfPlace
  <2>4. Disordered
    BY <1>24, <2>1, <2>2, <2>3, SameApply, ZenonT(30) DEF Disordered, Misplaced, h
  <2>5. QED
    BY <1>21, <2>4
<1>25. QED
  BY <1>11, <1>22, <1>23, <1>24 DEF Alters

LEMMA InitIs ==
  ASSUME Init
  PROVE  IInv /\ Reference!Init
<1>1. PICK m \in Machines : vm = m.vm /\ built = m.built
  BY DEF Init
<1>2. /\ IsVm(vm) /\ ~vm.exit /\ SeenBy(built, vm)
      /\ built.native \in [Names -> BOOLEAN] /\ built.gen \in [Names -> Nat]
  BY <1>1, JitAssumption
<1>3. /\ body \in Seq(Values) /\ regs = <<>> /\ at = 1 /\ todo = <<>>
      /\ mode = "entry" /\ called = FALSE /\ verdict = "none"
  BY JitAssumption DEF Init
<1>4. <<>> \in Seq(Values) /\ <<>> \in Seq(Narrow)
  BY EmptySeq
<1>5. IInv
  <2>1. Typed
    <3>1. todo \in Seq(Values) /\ regs \in Seq(Narrow) /\ at \in Nat \ {0}
      BY <1>3, <1>4
    <3>2. /\ mode \in {"entry", "code", "residual", "tier0"} /\ called \in BOOLEAN
          /\ verdict \in {"none", "ok", "failed", "exited", "reported"}
      BY <1>3
    <3>3. QED
      BY <1>2, <1>3, <3>1, <3>2 DEF Typed
  <2>2. HeldOnlyInCode /\ LooksAgain
    BY <1>3 DEF HeldOnlyInCode, LooksAgain
  <2>3. QED
    BY <1>2, <2>1, <2>2 DEF IInv
<1>6. 1 > Len(body) <=> body = <<>>
  BY <1>3, LenProperties, EmptySeq
<1>7. Outcome = IF body = <<>> THEN "done" ELSE "running"
  BY <1>3, <1>6 DEF Outcome
<1>8. QED
  BY <1>3, <1>5, <1>7 DEF Reference!Init

Does == Reference!Next \/ Reported \/ Disordered

LEMMA StepIs ==
  ASSUME IInv, [Next]_vars
  PROVE  IInv' /\ [Does]_<<body, Seen, todo, at, Outcome>>
<1>1. CASE Enter
  BY <1>1, EnterIs DEF Stutters
<1>2. CASE Promote
  BY <1>2, PromoteIs DEF Does
<1>3. CASE InlineHeld
  BY <1>3, InlineHeldIs DEF Does
<1>4. CASE InlineStack
  BY <1>4, InlineStackIs DEF Does
<1>5. CASE Refused
  BY <1>5, RefusedIs DEF Stutters
<1>6. CASE Call
  BY <1>6, CallIs DEF Does
<1>7. CASE Cross
  BY <1>7, CrossIs DEF Does
<1>8. CASE CrossStale
  BY <1>8, CrossStaleIs DEF Stutters
<1>9. CASE Callee
  BY <1>9, CalleeIs DEF Does
<1>10. CASE Back
  BY <1>10, BackIs DEF Stutters
<1>11. CASE Value
  BY <1>11, ValueIs DEF Does
<1>12. CASE Return
  BY <1>12, ReturnIs DEF Stutters
<1>13. CASE UNCHANGED vars
  <2>1. UNCHANGED <<body, built, vm, regs, at, todo, frame, mode, called, verdict>>
    BY <1>13 DEF vars, code
  <2>2. IInv'
    BY <2>1 DEF IInv, Typed, HeldOnlyInCode, LooksAgain
  <2>3. UNCHANGED <<body, Seen, todo, at, Outcome>>
    BY <2>1 DEF Seen, Outcome
  <2>4. QED
    BY <2>2, <2>3
<1>14. QED
  BY <1>1, <1>2, <1>3, <1>4, <1>5, <1>6, <1>7, <1>8, <1>9, <1>10, <1>11, <1>12, <1>13 DEF Next

(* The compiled body of any values, run on any interpreter it was compiled *)
(* against or one that changed since, takes tier 0's steps or none at all, *)
(* but for the two that AsTier0 names (emit_into and what it emits).       *)
THEOREM CompiledAsTier0 == Spec => AsTier0
<1>1. Init => IInv /\ Reference!Init
  BY InitIs
<1>2. IInv /\ [Next]_vars => IInv' /\ [Does]_<<body, Seen, todo, at, Outcome>>
  BY StepIs
<1>3. Does <=> Reference!Next \/ Reported \/ Disordered
  BY DEF Does
<1>4. QED
  BY <1>1, <1>2, <1>3, PTL DEF Spec, AsTier0

=============================================================================
