-------------------------- MODULE TierCacheProofs --------------------------
(***************************************************************************)
(* Proofs about TierCache, for any number of addresses and bodies and any  *)
(* caps: an address never answers for another body (NoFalseHit), the code  *)
(* that runs was made of the body that runs (RunsOwnCode), no body has two *)
(* answers (OneAnswer), code is emitted only while none is executed        *)
(* (EmitsWhenIdle) and none is emitted or entered for a program under the  *)
(* debugger (OffMeansOff).                                                 *)
(*                                                                         *)
(* An entry is wrong only if its address is given to a new body, which     *)
(* Make does when nothing Held it; so every step that files an entry files *)
(* it for the body alive there, and a body running, queued or waiting is   *)
(* InUse and stays alive.  A body is demoted only when its turn to be      *)
(* compiled comes, which is when nothing is queued: so nothing queued was  *)
(* demoted, and nothing waiting was declined.                              *)
(***************************************************************************)
EXTENDS TierCache, TLAPS, SequenceTheorems

Files == [at : Addresses, body : Nat]

(* An entry of m is for an address, and for the body there if there is one.*)
Right(m) == \A e \in m : e.at \in Addresses /\ heap[e.at] \in {0, e.body}

Alive(q) == \A i \in DOMAIN q : heap[q[i]] # 0

(* None of the sequence is named by the set of entries.                    *)
Apart(q, m) == \A i \in DOMAIN q : q[i] \notin Named(m)

Typed ==
  /\ heap \in [Addresses -> Nat] /\ made \in Nat
  /\ cache \subseteq Files /\ running \in Seq(Files)
  /\ pending \in Seq(Addresses) /\ waiting \in Seq(Addresses)

Rights == Right(counter) /\ Right(cache) /\ Right(demoted) /\ Right(declined)

Owned ==
  \A i \in DOMAIN running :
    heap[running[i].at] = running[i].body /\ heap[running[i].at] # 0

Queues ==
  /\ Alive(pending) /\ Alive(waiting)
  /\ waiting # <<>> => running = <<>> /\ ~off
  /\ pending # <<>> => running # <<>>

Answers ==
  /\ Named(cache) \cap Named(demoted) = {} /\ Named(cache) \cap Named(declined) = {}
  /\ Apart(pending, demoted) /\ Apart(pending, declined) /\ Apart(waiting, declined)

IInv == Typed /\ Rights /\ Owned /\ Queues /\ Answers

-----------------------------------------------------------------------------
(* What filing, demoting and counting do to the maps, as far as is needed. *)

LEMMA NamedParts ==
  ASSUME NEW m, NEW n, n \subseteq m
  PROVE  Named(n) \subseteq Named(m)
  BY DEF Named

LEMMA RoomIsPart ==
  ASSUME NEW m, NEW a, NEW r \in RoomIn(m, a)
  PROVE  r \subseteq m
  BY DEF RoomIn, LiveOf

LEMMA CounterIsPart ==
  ASSUME NEW a, NEW r \in CounterFor(a)
  PROVE  r \subseteq counter
<1>1. Swept(counter, a) \subseteq counter
  BY DEF Swept, LiveOf
<1>2. QED
  BY <1>1 DEF CounterFor

LEMMA CountedRight ==
  ASSUME NEW a \in Addresses, Typed, Right(counter), NEW r \in CounterFor(a),
         counter' = Counted(r, a), heap' = heap
  PROVE  Right(counter)'
<1>1. r \subseteq counter
  BY CounterIsPart
<1> DEFINE k == [at |-> a, body |-> heap[a], seen |-> OneMore(SeenOf(r, a))]
<1>2. k.at = a /\ k.body = heap[a]
  OBVIOUS
<1>3. counter' \subseteq counter \cup {k}
  BY <1>1 DEF Counted, At
<1> HIDE DEF k
<1>4. QED
  BY <1>2, <1>3 DEF Right

(* Whatever compiling a does, it names at most a where it did not before,  *)
(* in the cache or in the demoted set and not in both.                     *)
LEMMA CompileKeeps ==
  ASSUME NEW a \in Addresses, Typed, Rights, heap[a] # 0, Compile(a), heap' = heap,
         Named(cache) \cap Named(demoted) = {}, a \notin Named(demoted)
  PROVE  /\ cache' \subseteq Files
         /\ Right(counter)' /\ Right(cache)' /\ Right(demoted)'
         /\ Named(cache') \cap Named(demoted') = {}
         /\ Named(cache') \subseteq Named(cache) \cup {a}
<1> DEFINE k == Entry(a)
<1>1. k \in Files /\ k.at = a /\ k.body = heap[a]
  BY DEF Entry, Files, Typed
<1> HIDE DEF k
<1>2. CASE UNCHANGED tiering
  BY <1>2 DEF tiering, Typed, Rights, Right
<1>3. CASE Demote(a)
  <2>1. cache' = cache \ At(cache, a) /\ counter' = counter \ At(counter, a)
    BY <1>3 DEF Demote
  <2>2. PICK m \in RoomIn(demoted, a) : demoted' = (m \ At(m, a)) \cup {k}
    BY <1>3 DEF Demote, k
  <2>3. demoted' \subseteq demoted \cup {k}
    BY <2>2, RoomIsPart
  <2>4. Named(demoted') \subseteq Named(demoted) \cup {a}
    BY <2>3, <1>1 DEF Named
  <2>5. Named(cache') \subseteq Named(cache) /\ a \notin Named(cache')
    BY <2>1 DEF Named, At
  <2>6. QED
    BY <1>1, <2>1, <2>3, <2>4, <2>5 DEF Typed, Rights, Right
<1>4. CASE Insert(a)
  <2>1. CASE UNCHANGED tiering
    BY <2>1, <1>2
  <2>2. CASE cache' = (cache \ At(cache, a)) \cup {k} /\ UNCHANGED <<counter, demoted>>
    <3>1. cache' \subseteq cache \cup {k}
      BY <2>2
    <3>2. Named(cache') \subseteq Named(cache) \cup {a}
      BY <3>1, <1>1 DEF Named
    <3>3. QED
      BY <1>1, <2>2, <3>1, <3>2 DEF Typed, Rights, Right
  <2>3. QED
    BY <1>4, <2>1, <2>2 DEF Insert, k
<1>5. QED
  BY <1>2, <1>3, <1>4 DEF Compile

(* The queue with one more: alive, and apart from what a is apart from.    *)
LEMMA DeferredKeeps ==
  ASSUME NEW a \in Addresses, Typed, Queues, heap[a] # 0, NEW m, a \notin Named(m),
         Apart(pending, m)
  PROVE  Deferred(a) \in Seq(Addresses) /\ Alive(Deferred(a)) /\ Apart(Deferred(a), m)
<1>1. CASE Deferred(a) = pending
  BY <1>1 DEF Typed, Queues
<1>2. CASE Deferred(a) = Append(pending, a)
  <2> DEFINE q == Append(pending, a)
  <2>1. pending \in Seq(Addresses) /\ Len(pending) \in Nat /\ DOMAIN pending = 1 .. Len(pending)
    BY LenProperties DEF Typed
  <2>2. q \in Seq(Addresses) /\ Len(q) = Len(pending) + 1
        /\ (\A i \in 1 .. Len(pending) : q[i] = pending[i]) /\ q[Len(pending) + 1] = a
    BY <2>1, AppendProperties
  <2>3. DOMAIN q = 1 .. Len(q)
    BY <2>2, LenProperties
  <2> HIDE DEF q
  <2>4. \A i \in DOMAIN q : q[i] = a \/ \E j \in DOMAIN pending : q[i] = pending[j]
    BY <2>1, <2>2, <2>3
  <2>5. Alive(q) /\ Apart(q, m)
    BY <2>4 DEF Alive, Apart, Queues
  <2>6. QED
    BY <1>2, <2>2, <2>5 DEF q
<1>3. QED
  BY <1>1, <1>2 DEF Deferred

-----------------------------------------------------------------------------
(* No step breaks the invariant.                                           *)
THEOREM TierInductive ==
  /\ Init => IInv
  /\ IInv /\ [Next]_vars => IInv'
<1>1. Init => IInv
  <2> SUFFICES ASSUME Init PROVE IInv
    OBVIOUS
  <2>1. Typed
    BY EmptySeq DEF Init, Typed
  <2>2. DOMAIN running = {} /\ DOMAIN pending = {} /\ DOMAIN waiting = {}
    BY EmptySeq DEF Init
  <2>3. QED
    BY <2>1, <2>2 DEF Init, IInv, Rights, Right, Owned, Queues, Alive, Answers, Apart, Named
<1>2. ASSUME IInv, [Next]_vars PROVE IInv'
  <2>0. Typed /\ Rights /\ Owned /\ Queues /\ Answers
    BY <1>2 DEF IInv
  <2>01. DOMAIN running = 1 .. Len(running) /\ Len(running) \in Nat
         /\ DOMAIN pending = 1 .. Len(pending) /\ DOMAIN waiting = 1 .. Len(waiting)
    BY <2>0, LenProperties DEF Typed
  <2>02. /\ \A i \in DOMAIN running : running[i].at \in Addresses
         /\ \A i \in DOMAIN pending : pending[i] \in Addresses
         /\ \A i \in DOMAIN waiting : waiting[i] \in Addresses
    BY <2>0, <2>01, ElementOfSeq DEF Typed, Files
  <2>1. ASSUME NEW a \in Addresses, Make(a) PROVE IInv'
    <3>1. heap' = [heap EXCEPT ![a] = made + 1] /\ made' = made + 1 /\ heap[a] = 0 /\ ~Held(a)
          /\ UNCHANGED <<tiering, declined, running, pending, waiting, off>>
      BY <2>1 DEF Make
    <3>2. Typed'
      BY <2>0, <3>1 DEF Typed, tiering
    <3>3. Rights'
      <4>1. ASSUME NEW m, Right(m), a \notin Named(m)
            PROVE  \A e \in m : e.at \in Addresses /\ heap'[e.at] \in {0, e.body}
        BY <4>1, <3>1, <2>0 DEF Right, Named, Typed
      <4>2. a \notin Named(counter) /\ a \notin Named(cache) /\ a \notin Named(demoted)
            /\ a \notin Named(declined)
        BY <3>1 DEF Held
      <4>3. QED
        BY <2>0, <3>1, <4>1, <4>2 DEF Rights, Right, tiering
    <3>4. Owned'
      BY <2>0, <2>02, <3>1 DEF Owned, Typed
    <3>5. Queues'
      <4>1. \A b \in Addresses : heap[b] # 0 => heap'[b] # 0
        BY <2>0, <3>1 DEF Typed
      <4>2. QED
        BY <2>0, <2>02, <3>1, <4>1 DEF Queues, Alive
    <3>6. Answers'
      BY <2>0, <3>1 DEF Answers, Apart, tiering, Named
    <3>7. QED
      BY <3>2, <3>3, <3>4, <3>5, <3>6 DEF IInv
  <2>2. ASSUME NEW a \in Addresses, Release(a) PROVE IInv'
    <3>1. heap' = [heap EXCEPT ![a] = 0] /\ ~InUse(a)
          /\ UNCHANGED <<made, tiering, declined, running, pending, waiting, off>>
      BY <2>2 DEF Release
    <3>2. Typed'
      BY <2>0, <3>1 DEF Typed, tiering
    <3>3. Rights'
      <4>1. ASSUME NEW m, Right(m)
            PROVE  \A e \in m : e.at \in Addresses /\ heap'[e.at] \in {0, e.body}
        BY <4>1, <3>1, <2>0 DEF Right, Typed
      <4>2. QED
        BY <2>0, <3>1, <4>1 DEF Rights, Right, tiering
    <3>4. Owned'
      BY <2>0, <2>02, <3>1 DEF Owned, Typed, InUse
    <3>5. Queues'
      BY <2>0, <2>02, <3>1 DEF Queues, Alive, Typed, InUse
    <3>6. Answers'
      BY <2>0, <3>1 DEF Answers, Apart, tiering, Named
    <3>7. QED
      BY <3>2, <3>3, <3>4, <3>5, <3>6 DEF IInv
  <2>3. ASSUME NEW a \in Addresses, EnterDemoted(a) PROVE IInv'
    <3> DEFINE k == Entry(a)
    <3>1. declined' = {e \in declined : SlotOf[e.at] # SlotOf[a]} \cup {k} /\ a \in Named(demoted)
          /\ waiting = <<>> /\ UNCHANGED <<heap, made, tiering, running, pending, waiting, off>>
      BY <2>3 DEF EnterDemoted, Offered
    <3>2. k.at = a /\ k.body = heap[a]
      BY DEF Entry
    <3> HIDE DEF k
    <3>3. declined' \subseteq declined \cup {k} /\ Named(declined') \subseteq Named(declined) \cup {a}
      BY <3>1, <3>2 DEF Named
    <3>4. Typed' /\ Owned' /\ Queues'
      BY <2>0, <3>1 DEF Typed, Owned, Queues, Alive, tiering
    <3>5. Rights'
      BY <2>0, <3>1, <3>2, <3>3 DEF Rights, Right, tiering
    <3>6. Answers'
      <4>1. DOMAIN waiting = {}
        BY <3>1, EmptySeq
      <4>2. a \notin Named(cache) /\ \A i \in DOMAIN pending : pending[i] # a
        BY <2>0, <3>1 DEF Answers, Apart
      <4>3. QED
        BY <2>0, <3>1, <3>3, <4>1, <4>2 DEF Answers, Apart, tiering
    <3>7. QED
      BY <3>4, <3>5, <3>6 DEF IInv
  <2>4. ASSUME NEW a \in Addresses, EnterCompiled(a) PROVE IInv'
    <3>1. waiting = <<>> /\ heap[a] # 0
          /\ UNCHANGED <<heap, made, tiering, declined, pending, waiting, off>>
      BY <2>4 DEF EnterCompiled, Offered
    <3>2. PICK e \in Compiled(a) : running' = Append(running, e)
      BY <2>4 DEF EnterCompiled
    <3>3. e \in Files /\ e.at = a /\ heap[a] = e.body
      BY <2>0, <3>1, <3>2 DEF Compiled, At, Typed, Rights, Right
    <3>35. running \in Seq(Files)
      BY <2>0 DEF Typed
    <3>4. running' \in Seq(Files) /\ running' # <<>> /\ Len(running') = Len(running) + 1
          /\ (\A i \in 1 .. Len(running) : running'[i] = running[i])
          /\ running'[Len(running) + 1] = e
      <4>1. e \in Files
        BY <3>3
      <4>2. QED
        BY <3>35, <3>2, <4>1, AppendProperties
    <3>5. DOMAIN running' = 1 .. Len(running) + 1
      BY <3>4, LenProperties
    <3>6. Owned'
      BY <2>0, <2>01, <3>1, <3>3, <3>4, <3>5 DEF Owned
    <3>7. Typed' /\ Rights' /\ Queues' /\ Answers'
      BY <2>0, <3>1, <3>4 DEF Typed, Rights, Right, Queues, Alive, Answers, Apart, tiering
    <3>8. QED
      BY <3>6, <3>7 DEF IInv
  <2>5. ASSUME NEW a \in Addresses, EnterCounted(a) PROVE IInv'
    <3>1. PICK r \in CounterFor(a) : counter' = Counted(r, a)
      BY <2>5 DEF EnterCounted
    <3>2. cache' = Swept(cache, a) /\ demoted' = Swept(demoted, a)
          /\ UNCHANGED <<heap, made, declined, running, pending, waiting, off>>
      BY <2>5 DEF EnterCounted
    <3>3. cache' \subseteq cache /\ demoted' \subseteq demoted
      BY <3>2 DEF Swept, LiveOf
    <3>4. Right(counter)'
      BY <2>0, <3>1, <3>2, CountedRight DEF Rights
    <3>5. Typed' /\ Rights' /\ Owned' /\ Queues'
      BY <2>0, <3>2, <3>3, <3>4 DEF Typed, Rights, Right, Owned, Queues, Alive
    <3>6. Named(cache') \subseteq Named(cache) /\ Named(demoted') \subseteq Named(demoted)
      BY <3>3, NamedParts
    <3>7. Answers'
      BY <2>0, <3>2, <3>6 DEF Answers, Apart
    <3>8. QED
      BY <3>5, <3>7 DEF IInv
  <2>6. ASSUME NEW a \in Addresses, EarnsCode(a) PROVE
          /\ cache' \subseteq cache /\ (heap' = heap => Right(counter)')
          /\ demoted' \subseteq demoted
          /\ heap[a] # 0 /\ waiting = <<>> /\ ~off
          /\ a \notin Named(demoted) /\ a \notin Named(declined)
    <3>1. PICK r \in CounterFor(a) : counter' = Counted(r, a)
      BY <2>6 DEF EarnsCode
    <3>2. cache' \subseteq cache /\ demoted' \subseteq demoted
      BY <2>6 DEF EarnsCode, Swept, LiveOf
    <3>3. heap' = heap => Right(counter)'
      BY <2>0, <3>1, CountedRight DEF Rights
    <3>4. QED
      BY <2>6, <3>2, <3>3 DEF EarnsCode, Unknown, Offered
  <2>7. ASSUME NEW a \in Addresses, EnterDeferred(a) PROVE IInv'
    <3>1. running # <<>> /\ EarnsCode(a) /\ pending' = Deferred(a)
          /\ UNCHANGED <<heap, made, declined, running, waiting, off>>
      BY <2>7 DEF EnterDeferred
    <3>2. /\ cache' \subseteq cache /\ demoted' \subseteq demoted /\ Right(counter)'
          /\ heap[a] # 0 /\ a \notin Named(demoted) /\ a \notin Named(declined)
      BY <2>6, <3>1
    <3>3. /\ pending' \in Seq(Addresses) /\ Alive(pending')
          /\ Apart(pending', demoted) /\ Apart(pending', declined)
      BY <2>0, <3>1, <3>2, DeferredKeeps DEF Answers
    <3>4. Named(cache') \subseteq Named(cache) /\ Named(demoted') \subseteq Named(demoted)
      BY <3>2, NamedParts
    <3>5. Typed' /\ Rights' /\ Owned' /\ Queues'
      BY <2>0, <3>1, <3>2, <3>3 DEF Typed, Rights, Right, Owned, Queues, Alive
    <3>6. Answers'
      BY <2>0, <3>1, <3>3, <3>4 DEF Answers, Apart
    <3>7. QED
      BY <3>5, <3>6 DEF IInv
  <2>8. ASSUME NEW a \in Addresses, EnterHot(a) PROVE IInv'
    <3>1. running = <<>> /\ EarnsCode(a) /\ waiting' = <<a>>
          /\ UNCHANGED <<heap, made, declined, running, pending, off>>
      BY <2>8 DEF EnterHot
    <3>2. /\ cache' \subseteq cache /\ demoted' \subseteq demoted /\ Right(counter)'
          /\ heap[a] # 0 /\ ~off /\ a \notin Named(demoted) /\ a \notin Named(declined)
      BY <2>6, <3>1
    <3>3. <<a>> \in Seq(Addresses) /\ \A i \in DOMAIN <<a>> : <<a>>[i] = a
      OBVIOUS
    <3>4. Named(cache') \subseteq Named(cache) /\ Named(demoted') \subseteq Named(demoted)
      BY <3>2, NamedParts
    <3>5. Typed' /\ Rights' /\ Owned'
      BY <2>0, <3>1, <3>2, <3>3 DEF Typed, Rights, Right, Owned
    <3>6. Queues'
      BY <2>0, <3>1, <3>2, <3>3 DEF Queues, Alive
    <3>7. Answers'
      BY <2>0, <3>1, <3>2, <3>3, <3>4 DEF Answers, Apart
    <3>8. QED
      BY <3>5, <3>6, <3>7 DEF IInv
  <2>9. CASE CompileNext
    <3> DEFINE a == Head(waiting)
    <3>1. waiting # <<>> /\ waiting' = Tail(waiting)
          /\ UNCHANGED <<heap, made, declined, running, pending, off>>
      BY <2>9 DEF CompileNext
    <3>2. /\ a \in Addresses /\ Tail(waiting) \in Seq(Addresses)
          /\ Len(Tail(waiting)) = Len(waiting) - 1
          /\ \A i \in 1 .. Len(Tail(waiting)) : Tail(waiting)[i] = waiting[i + 1]
      BY <2>0, <3>1, HeadTailProperties DEF Typed
    <3>3. Len(waiting) \in Nat \ {0} /\ a = waiting[1]
      BY <2>0, <3>1, EmptySeq DEF Typed
    <3>4. DOMAIN Tail(waiting) = 1 .. Len(Tail(waiting))
      BY <3>2, LenProperties
    <3>5. \A i \in DOMAIN Tail(waiting) : \E j \in DOMAIN waiting : Tail(waiting)[i] = waiting[j]
      BY <2>01, <3>2, <3>3, <3>4
    <3>6. heap[a] # 0 /\ a \notin Named(declined)
      BY <2>0, <2>01, <3>3 DEF Queues, Alive, Answers, Apart
    <3>7. pending = <<>> /\ DOMAIN pending = {}
      BY <2>0, <2>01, <3>1, EmptySeq DEF Queues
    <3>8. \/ UNCHANGED tiering
          \/ Compile(a) /\ a \notin Named(demoted)
      BY <2>9 DEF CompileNext
    <3> HIDE DEF a
    <3>9. /\ cache' \subseteq Files
          /\ Right(counter)' /\ Right(cache)' /\ Right(demoted)'
          /\ Named(cache') \cap Named(demoted') = {}
          /\ Named(cache') \subseteq Named(cache) \cup {a}
      <4>1. CASE UNCHANGED tiering
        BY <2>0, <3>1, <4>1 DEF tiering, Typed, Rights, Right, Answers
      <4>2. CASE Compile(a) /\ a \notin Named(demoted)
        BY <2>0, <3>1, <3>2, <3>6, <4>2, CompileKeeps DEF Answers
      <4>3. QED
        BY <3>8, <4>1, <4>2
    <3>10. Typed' /\ Rights' /\ Owned'
      BY <2>0, <3>1, <3>2, <3>9 DEF Typed, Rights, Right, Owned
    <3>11. Queues'
      BY <2>0, <3>1, <3>5, <3>7 DEF Queues, Alive
    <3>12. Answers'
      BY <2>0, <3>1, <3>5, <3>6, <3>7, <3>9 DEF Answers, Apart
    <3>13. QED
      BY <3>10, <3>11, <3>12 DEF IInv
  <2>10. CASE Return
    <3>1. running # <<>> /\ waiting = <<>> /\ running' = SubSeq(running, 1, Len(running) - 1)
          /\ UNCHANGED <<heap, made, tiering, declined, off>>
      BY <2>10 DEF Return
    <3>2. Len(running) \in Nat \ {0}
      BY <2>0, <3>1, EmptySeq DEF Typed
    <3>3. \A i \in 1 .. Len(running) - 1 : running[i] \in Files
      BY <2>0, <3>2, ElementOfSeq DEF Typed
    <3>4. /\ running' \in Seq(Files)
          /\ Len(running') = IF 1 <= Len(running) - 1 THEN Len(running) - 1 ELSE 0
          /\ \A i \in 1 .. Len(running) - 1 : running'[i] = running[i]
      BY <3>1, <3>2, <3>3, SubSeqProperties
    <3>5. DOMAIN running' = 1 .. Len(running')
      BY <3>4, LenProperties
    <3>6. Owned'
      BY <2>0, <2>01, <3>1, <3>2, <3>4, <3>5 DEF Owned
    <3>7. \/ running' = <<>> /\ (waiting' = <<>> \/ (waiting' = pending /\ ~off)) /\ pending' = <<>>
          \/ running' # <<>> /\ UNCHANGED <<pending, waiting>>
      BY <2>10 DEF Return
    <3>8. <<>> \in Seq(Addresses) /\ DOMAIN <<>> = {}
      BY EmptySeq
    <3>9. CASE running' = <<>> /\ (waiting' = <<>> \/ (waiting' = pending /\ ~off)) /\ pending' = <<>>
      <4>1. Typed'
        BY <2>0, <3>1, <3>4, <3>8, <3>9 DEF Typed, tiering
      <4>2. Alive(pending)' /\ Alive(waiting)'
        BY <2>0, <3>1, <3>8, <3>9 DEF Queues, Alive
      <4>3. Queues'
        BY <3>1, <3>9, <4>2 DEF Queues
      <4>4. Apart(pending, demoted)' /\ Apart(pending, declined)' /\ Apart(waiting, declined)'
        BY <2>0, <3>1, <3>8, <3>9 DEF Answers, Apart
      <4>5. Rights' /\ Answers'
        BY <2>0, <3>1, <4>4 DEF Rights, Right, Answers, tiering, Named
      <4>6. QED
        BY <3>6, <4>1, <4>3, <4>5 DEF IInv
    <3>10. CASE running' # <<>> /\ UNCHANGED <<pending, waiting>>
      <4>1. Typed' /\ Queues'
        BY <2>0, <3>1, <3>4, <3>10 DEF Typed, Queues, Alive, tiering
      <4>2. Rights' /\ Answers'
        BY <2>0, <3>1, <3>10 DEF Rights, Right, Answers, Apart, tiering, Named
      <4>3. QED
        BY <3>6, <4>1, <4>2 DEF IInv
    <3>11. QED
      BY <3>7, <3>9, <3>10
  <2>11. CASE Arm
    BY <2>0, <2>11 DEF Arm, IInv, Typed, Rights, Right, Owned, Queues, Alive, Answers, Apart,
       Named, tiering
  <2>12. CASE UNCHANGED vars
    BY <2>0, <2>12 DEF vars, IInv, Typed, Rights, Right, Owned, Queues, Alive, Answers, Apart,
       Named, tiering
  <2>13. QED
    BY <1>2, <2>1, <2>2, <2>3, <2>4, <2>5, <2>7, <2>8, <2>9, <2>10, <2>11, <2>12 DEF Next
<1>3. QED
  BY <1>1, <1>2

(* An entry that names an address never answers for another body there.    *)
THEOREM NeverAFalseHit == Spec => []NoFalseHit
<1>1. IInv => NoFalseHit
  BY DEF IInv, Rights, Right, NoFalseHit
<1>2. QED
  BY <1>1, TierInductive, PTL DEF Spec

(* The code that runs was made of the body that runs.                      *)
THEOREM AlwaysRunsOwnCode == Spec => []RunsOwnCode
<1>1. IInv => RunsOwnCode
  BY DEF IInv, Owned, RunsOwnCode
<1>2. QED
  BY <1>1, TierInductive, PTL DEF Spec

(* A body declined or demoted has no code.                                 *)
THEOREM AlwaysOneAnswer == Spec => []OneAnswer
<1>1. IInv => OneAnswer
  BY DEF IInv, Answers, OneAnswer
<1>2. QED
  BY <1>1, TierInductive, PTL DEF Spec

(* Nothing is left queued once compiled code has returned.                 *)
THEOREM QueueAlwaysWaits == Spec => []QueueWaits
<1>1. IInv => QueueWaits
  BY DEF IInv, Queues, QueueWaits
<1>2. QED
  BY <1>1, TierInductive, PTL DEF Spec

(* Code is emitted only while no compiled code is being executed.          *)
THEOREM OnlyEmitsWhenIdle == Spec => EmitsWhenIdle
<1>1. ASSUME IInv, [Next]_vars, emitted' # emitted PROVE running = <<>> /\ running' = <<>>
  <2>1. CompileNext
    BY <1>1 DEF Next, vars, tiering, Make, Release, EnterDemoted, EnterCompiled, EnterCounted,
       EnterDeferred, EnterHot, EarnsCode, Return, Arm
  <2>2. QED
    BY <1>1, <2>1 DEF CompileNext, IInv, Queues
<1>2. IInv /\ [Next]_vars => [emitted' # emitted => running = <<>> /\ running' = <<>>]_vars
  BY <1>1
<1>3. QED
  BY <1>2, TierInductive, PTL DEF Spec, EmitsWhenIdle

(* Once off, no step emits code, enters compiled code or has a body wait.  *)
THEOREM OnceOffStaysOff == Spec => OffMeansOff
<1> DEFINE P == off => /\ emitted' = emitted
                       /\ Len(running') <= Len(running)
                       /\ waiting' = <<>>
<1>1. ASSUME IInv, Next, off PROVE emitted' = emitted /\ Len(running') <= Len(running) /\ waiting' = <<>>
  <2>0. waiting = <<>> /\ running \in Seq(Files) /\ Len(running) \in Nat
    BY <1>1, LenProperties DEF IInv, Queues, Typed
  <2>1. ASSUME NEW a \in Addresses, Make(a) \/ Release(a) \/ EnterDemoted(a) PROVE UNCHANGED <<emitted, running, waiting>>
    BY <2>1 DEF Make, Release, EnterDemoted, tiering
  <2>2. ASSUME NEW a \in Addresses PROVE ~EnterCompiled(a) /\ ~EnterCounted(a) /\ ~EnterDeferred(a) /\ ~EnterHot(a)
    BY <1>1 DEF EnterCompiled, EnterCounted, EnterDeferred, EnterHot, EarnsCode, Unknown, Offered
  <2>3. ~CompileNext
    BY <2>0 DEF CompileNext
  <2>4. ASSUME Return PROVE emitted' = emitted /\ Len(running') <= Len(running) /\ waiting' = <<>>
    <3>1. emitted' = emitted /\ waiting' = <<>>
      BY <1>1, <2>4 DEF Return, tiering
    <3>2. running # <<>> /\ running' = SubSeq(running, 1, Len(running) - 1)
      BY <2>4 DEF Return
    <3>3. Len(running) - 1 \in Nat
      BY <2>0, <3>2, EmptySeq
    <3>35. \A i \in 1 .. Len(running) - 1 : running[i] \in Files
      BY <2>0, <3>3, ElementOfSeq
    <3>4. Len(running') = IF 1 <= Len(running) - 1 THEN Len(running) - 1 ELSE 0
      BY <2>0, <3>2, <3>3, <3>35, SubSeqProperties
    <3>5. QED
      BY <2>0, <3>1, <3>4
  <2>5. ASSUME Arm PROVE UNCHANGED <<emitted, running, waiting>>
    BY <2>5 DEF Arm, tiering
  <2>6. QED
    BY <1>1, <2>0, <2>1, <2>2, <2>3, <2>4, <2>5 DEF Next
<1>2. IInv /\ [Next]_vars => [P]_vars
  BY <1>1 DEF vars
<1>3. QED
  BY <1>2, TierInductive, PTL DEF Spec, OffMeansOff, P

(* Code is emitted and entered only when it may be.                        *)
THEOREM AlwaysEmitsWhenAllowed == Spec => EmitsWhenAllowed
BY OnlyEmitsWhenIdle, OnceOffStaysOff DEF EmitsWhenAllowed
=============================================================================
