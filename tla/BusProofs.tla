----------------------------- MODULE BusProofs ------------------------------
(***************************************************************************)
(* Proofs about Bus, for any number of VMs, channels, values and messages: *)
(* each channel is a queue whose messages can be read (Delivered), a name  *)
(* that was sent to or asked after has a channel (Rendezvous), data a VM   *)
(* was told of is lost to another VM alone (OnlyRobbed), and a VM that has *)
(* the lock never waits for a message (FindsWhatItLookedFor).              *)
(***************************************************************************)
EXTENDS Bus, TLAPS, SequenceTheorems

(* What may be in a channel: the bytes of a value that was writable.       *)
Message ==
  {m \in [no : Nat, bytes : {Written(x) : x \in {y \in Values : Writable(y)}}, json : BOOLEAN] :
     m.json = m.bytes.text}

Holding == {"locked", "taking", "reading"}

WordRight(v) ==
  /\ pc[v] \in {"idle", "waiting"} \cup Holding
  /\ pc[v] # "idle" => word[v].name \in Names
  /\ pc[v] \in {"taking", "reading"} => word[v].op = "recv"
  /\ word[v].op = "send" => word[v].message \in Message
  /\ pc[v] = "reading" => taken[v] \in Message

TypeInv ==
  /\ DOMAIN pipes \subseteq Names /\ \A n \in DOMAIN pipes : pipes[n] \in Seq(Message)
  /\ sent \in [Names -> Seq(Message)] /\ got \in [Names -> Seq(Message)]
  /\ DOMAIN pc = Vms /\ DOMAIN word = Vms /\ DOMAIN taken = Vms /\ DOMAIN answer = Vms
  /\ hope \in [Vms -> SUBSET Names]
  /\ count \in Nat
  /\ \A v \in Vms : WordRight(v)

(* One VM has the map, and it is the one that is past the lock.            *)
LockRight ==
  /\ lock \subseteq Vms
  /\ \A v \in Vms : v \in lock <=> pc[v] \in Holding
  /\ \A u, v \in lock : u = v

(* recv looked, and what it found is there until it takes it.              *)
FindsWhatItLookedFor ==
  \A v \in Vms : pc[v] = "taking" => Channel(word[v].name) # <<>>

KnownAreThere == known \subseteq DOMAIN pipes

(* A VM hopes for what is there, and asks for nothing else.                *)
HopeRight ==
  \A v \in Vms :
    /\ \A n \in hope[v] : Channel(n) # <<>>
    /\ (pc[v] # "idle" /\ word[v].op = "recv") => hope[v] \subseteq {word[v].name}

IInv == TypeInv /\ LockRight /\ FindsWhatItLookedFor /\ KnownAreThere /\ HopeRight /\ Delivered

-----------------------------------------------------------------------------
(* Channels.                                                               *)

LEMMA WithChannel ==
  ASSUME NEW n, NEW q, pipes' = With(n, q)
  PROVE  /\ DOMAIN pipes' = DOMAIN pipes \cup {n}
         /\ \A m : Channel(m)' = IF m = n THEN q ELSE Channel(m)
         /\ \A m \in DOMAIN pipes' : pipes'[m] = IF m = n THEN q ELSE pipes[m]
  BY DEF With, Channel

LEMMA ChannelType ==
  ASSUME TypeInv, NEW n
  PROVE  Channel(n) \in Seq(Message) /\ (n \in DOMAIN pipes => Channel(n) = pipes[n])
  BY EmptySeq DEF TypeInv, Channel

LEMMA QueueTaken ==
  ASSUME NEW S, NEW g \in Seq(S), NEW q \in Seq(S), q # <<>>
  PROVE  g \o q = Append(g, Head(q)) \o Tail(q)
<1>1. Head(q) \in S /\ Tail(q) \in Seq(S) /\ Len(q) \in Nat \ {0} /\ Len(Tail(q)) = Len(q) - 1
  BY EmptySeq, HeadTailProperties
<1>2. /\ Append(g, Head(q)) \in Seq(S) /\ Len(Append(g, Head(q))) = Len(g) + 1
      /\ \A i \in 1 .. Len(g) : Append(g, Head(q))[i] = g[i]
      /\ Append(g, Head(q))[Len(g) + 1] = q[1]
  BY <1>1
<1> DEFINE l == g \o q
           r == Append(g, Head(q)) \o Tail(q)
<1>3. /\ l \in Seq(S) /\ Len(l) = Len(g) + Len(q) /\ Len(g) \in Nat
      /\ \A i \in 1 .. Len(g) + Len(q) : l[i] = IF i <= Len(g) THEN g[i] ELSE q[i - Len(g)]
  BY ConcatProperties, LenProperties
<1>4. /\ r \in Seq(S) /\ Len(r) = Len(g) + 1 + (Len(q) - 1)
      /\ \A i \in 1 .. Len(r) : r[i] =
           IF i <= Len(g) + 1 THEN Append(g, Head(q))[i] ELSE Tail(q)[i - (Len(g) + 1)]
  BY <1>1, <1>2, ConcatProperties
<1> HIDE DEF l, r
<1>5. \A i \in 1 .. Len(q) - 1 : Tail(q)[i] = q[i + 1]
  BY <1>1, HeadTailProperties
<1>6. ASSUME NEW i \in 1 .. Len(l) PROVE l[i] = r[i]
  <2>1. CASE i <= Len(g)
    BY <1>1, <1>2, <1>3, <1>4, <2>1
  <2>2. CASE i = Len(g) + 1
    <3>1. i - Len(g) = 1 /\ ~(i <= Len(g)) /\ i <= Len(g) + 1
      BY <1>3, <2>2
    <3>2. l[i] = q[1]
      BY <1>3, <3>1
    <3>3. r[i] = Append(g, Head(q))[i]
      BY <1>1, <1>3, <1>4, <3>1
    <3>4. QED
      BY <1>2, <2>2, <3>2, <3>3
  <2>3. CASE i > Len(g) + 1
    <3>1. i - (Len(g) + 1) \in 1 .. Len(q) - 1
      BY <1>1, <1>3, <2>3
    <3>2. Tail(q)[i - (Len(g) + 1)] = q[i - (Len(g) + 1) + 1]
      BY <1>5, <3>1
    <3>3. i - (Len(g) + 1) + 1 = i - Len(g)
      BY <1>3
    <3>4. QED
      BY <1>1, <1>3, <1>4, <2>3, <3>2, <3>3
  <2>4. QED
    BY <1>3, <2>1, <2>2, <2>3
<1>7. QED
  BY <1>1, <1>3, <1>4, <1>6, SeqEqual DEF l, r

(* What was writable level by level is read back.                          *)
LEMMA WrittenIsRead ==
  ASSUME NEW m \in Message, ~Readable(m.bytes)
  PROVE  m.json
  BY BusAssumption, WireAssumption DEF Message, Readable, Written, Writable, ValueType

-----------------------------------------------------------------------------
(* The steps.                                                              *)

LEMMA InitHolds == Init => IInv
<1> SUFFICES ASSUME Init PROVE IInv
  OBVIOUS
<1>1. \A n \in Names : Channel(n) = <<>>
  BY DEF Init, Channel
<1>2. TypeInv
  <2>1. \A v \in Vms : pc[v] = "idle" /\ word[v].op = "none"
    BY DEF Init, Idle
  <2>2. \A v \in Vms : WordRight(v)
    BY <2>1 DEF WordRight
  <2>3. <<>> \in Seq(Message)
    BY EmptySeq
  <2>4. QED
    BY <2>2, <2>3 DEF Init, TypeInv
<1>3. LockRight /\ FindsWhatItLookedFor /\ KnownAreThere /\ HopeRight
  BY DEF Init, LockRight, Holding, FindsWhatItLookedFor, KnownAreThere, HopeRight
<1>4. Delivered
  BY <1>1, ConcatEmptySeq, EmptySeq DEF Init, Delivered, InOrder, LevelsRead
<1>5. QED
  BY <1>2, <1>3, <1>4 DEF IInv

(* A step of one VM that leaves the map, the histories and the lock alone. *)
LEMMA StartsHolds ==
  ASSUME IInv, NEW v \in Vms, NEW w, Starts(v, w), w.name \in Names,
         w.op = "send" => w.message \in Message,
         count' \in Nat, NEW h \in SUBSET hope[v], hope' = [hope EXCEPT ![v] = h],
         w.op = "recv" => h \subseteq {w.name}
  PROVE  IInv'
<1> USE DEF IInv
<1>1. \A u \in Vms : u # v => /\ pc'[u] = pc[u] /\ word'[u] = word[u]
                             /\ hope'[u] = hope[u] /\ taken'[u] = taken[u]
  BY DEF Starts
<1>2. /\ pc'[v] = "waiting" /\ word'[v] = w /\ hope'[v] = h /\ pc[v] = "idle"
      /\ UNCHANGED <<pipes, lock, taken, answer, sent, got, known>>
  BY DEF Starts, TypeInv
<1>3. \A n : Channel(n)' = Channel(n)
  BY <1>2 DEF Channel
<1>4. TypeInv'
  <2>1. \A u \in Vms : WordRight(u)'
    <3>1. WordRight(v)'
      BY <1>2 DEF WordRight
    <3>2. ASSUME NEW u \in Vms, u # v PROVE WordRight(u)'
      BY <1>1, <3>2 DEF TypeInv, WordRight
    <3>3. QED
      BY <3>1, <3>2
  <2>2. DOMAIN pc' = Vms /\ DOMAIN word' = Vms /\ hope' \in [Vms -> SUBSET Names]
    BY DEF TypeInv, Starts
  <2>3. QED
    BY <1>2, <2>1, <2>2 DEF TypeInv
<1>5. LockRight'
  BY <1>1, <1>2 DEF LockRight, Holding
<1>6. FindsWhatItLookedFor' /\ KnownAreThere'
  BY <1>1, <1>2, <1>3 DEF FindsWhatItLookedFor, KnownAreThere
<1>7. HopeRight'
  BY <1>1, <1>2, <1>3 DEF HopeRight
<1>8. Delivered'
  BY <1>2, <1>3 DEF Delivered, InOrder, LevelsRead
<1>9. QED
  BY <1>4, <1>5, <1>6, <1>7, <1>8

LEMMA AsksHold ==
  ASSUME IInv, NEW v \in Vms, Send(v) \/ SendRefused(v) \/ Recv(v) \/ Ask(v)
  PROVE  IInv'
<1>1. CASE Send(v)
  <2>1. PICK n \in Names, x \in Values :
          /\ Writable(x)
          /\ Starts(v, [op |-> "send", name |-> n,
                        message |-> [no |-> count + 1, bytes |-> Written(x), json |-> x.json]])
    BY <1>1 DEF Send
  <2>2. count + 1 \in Nat /\ count' \in Nat /\ hope' = [hope EXCEPT ![v] = {}]
    BY <1>1 DEF Send, IInv, TypeInv
  <2>3. [no |-> count + 1, bytes |-> Written(x), json |-> x.json] \in Message
    <3> DEFINE k == count + 1
    <3>1. k \in Nat /\ x \in {y \in Values : Writable(y)}
      BY <2>1, <2>2
    <3> HIDE DEF k
    <3>2. Written(x).text = x.json /\ x.json \in BOOLEAN
      BY BusAssumption DEF Written, ValueType
    <3>3. Written(x) \in {Written(z) : z \in {y \in Values : Writable(y)}}
      BY <3>1
    <3>4. [no |-> k, bytes |-> Written(x), json |-> x.json] \in Message
      BY <3>1, <3>2, <3>3 DEF Message
    <3>5. QED
      BY <3>4 DEF k
  <2>4. QED
    BY <2>1, <2>2, <2>3, StartsHolds
<1>2. CASE SendRefused(v)
  <2>1. /\ answer' = [answer EXCEPT ![v] = "refused"] /\ hope' = [hope EXCEPT ![v] = {}]
        /\ pc[v] = "idle"
        /\ UNCHANGED <<pipes, lock, pc, word, taken, count, sent, got, known>>
    BY <1>2 DEF SendRefused
  <2>2. \A n : Channel(n)' = Channel(n)
    BY <2>1 DEF Channel
  <2>3. TypeInv'
    <3>1. \A u \in Vms : WordRight(u)'
      BY <2>1 DEF IInv, TypeInv, WordRight
    <3>2. DOMAIN answer' = Vms /\ hope' \in [Vms -> SUBSET Names]
      BY <2>1 DEF IInv, TypeInv
    <3>3. QED
      BY <2>1, <3>1, <3>2 DEF IInv, TypeInv
  <2>4. LockRight' /\ FindsWhatItLookedFor' /\ KnownAreThere'
    BY <2>1, <2>2 DEF IInv, LockRight, FindsWhatItLookedFor, KnownAreThere
  <2>5. HopeRight'
    BY <2>1, <2>2 DEF IInv, TypeInv, HopeRight
  <2>6. Delivered'
    BY <2>1, <2>2 DEF IInv, TypeInv, Delivered, InOrder, LevelsRead
  <2>7. QED
    BY <2>3, <2>4, <2>5, <2>6 DEF IInv
<1>3. CASE Recv(v)
  <2>1. PICK n \in Names :
          Starts(v, [op |-> "recv", name |-> n]) /\ hope' = [hope EXCEPT ![v] = hope[v] \cap {n}]
    BY <1>3 DEF Recv
  <2>2. count' \in Nat
    BY <1>3 DEF Recv, IInv, TypeInv
  <2> DEFINE w == [op |-> "recv", name |-> n]
             h == hope[v] \cap {n}
  <2>3. /\ Starts(v, w) /\ w.name \in Names /\ w.op # "send"
        /\ h \in SUBSET hope[v] /\ hope' = [hope EXCEPT ![v] = h] /\ h \subseteq {w.name}
    BY <2>1
  <2> HIDE DEF w, h
  <2>4. QED
    BY <2>2, <2>3, StartsHolds
<1>4. CASE Ask(v)
  <2>1. PICK n \in Names : Starts(v, [op |-> "ask", name |-> n])
    BY <1>4 DEF Ask
  <2>2. count' \in Nat /\ hope' = [hope EXCEPT ![v] = {}]
    BY <1>4 DEF Ask, IInv, TypeInv
  <2>3. QED
    BY <2>1, <2>2, StartsHolds
<1>5. QED
  BY <1>1, <1>2, <1>3, <1>4

LEMMA LockHolds ==
  ASSUME IInv, NEW v \in Vms, Lock(v)
  PROVE  IInv'
<1> USE DEF IInv
<1>1. /\ pc[v] = "waiting" /\ pc'[v] = "locked" /\ lock = {} /\ lock' = {v}
      /\ UNCHANGED <<pipes, word, taken, answer, count, sent, got, known, hope>>
      /\ \A u \in Vms : u # v => pc'[u] = pc[u]
  BY DEF Lock, TypeInv
<1>2. \A n : Channel(n)' = Channel(n)
  BY <1>1 DEF Channel
<1>3. TypeInv'
  <2>1. \A u \in Vms : WordRight(u)'
    <3>1. WordRight(v)'
      BY <1>1 DEF TypeInv, WordRight, Holding
    <3>2. ASSUME NEW u \in Vms, u # v PROVE WordRight(u)'
      BY <1>1, <3>2 DEF TypeInv, WordRight
    <3>3. QED
      BY <3>1, <3>2
  <2>2. DOMAIN pc' = Vms
    BY DEF TypeInv, Lock
  <2>3. QED
    BY <1>1, <2>1, <2>2 DEF TypeInv
<1>4. LockRight'
  BY <1>1 DEF LockRight, Holding
<1>5. FindsWhatItLookedFor' /\ KnownAreThere' /\ HopeRight'
  BY <1>1, <1>2 DEF FindsWhatItLookedFor, KnownAreThere, HopeRight
<1>6. Delivered'
  BY <1>1, <1>2 DEF Delivered, InOrder, LevelsRead
<1>7. QED
  BY <1>3, <1>4, <1>5, <1>6

(* What Ends makes of the VM whose word it is, and of the others.          *)
LEMMA EndsIs ==
  ASSUME IInv, NEW v \in Vms, pc[v] \in Holding, NEW what, Ends(v, what)
  PROVE  /\ pc'[v] = "idle" /\ word'[v] = Idle /\ answer'[v] = what /\ lock' = {}
         /\ \A u \in Vms : u # v => /\ pc'[u] = pc[u] /\ word'[u] = word[u]
                                   /\ answer'[u] = answer[u]
         /\ DOMAIN pc' = Vms /\ DOMAIN word' = Vms /\ DOMAIN answer' = Vms
         /\ LockRight'
<1>1. /\ pc'[v] = "idle" /\ word'[v] = Idle /\ answer'[v] = what
      /\ \A u \in Vms : u # v => /\ pc'[u] = pc[u] /\ word'[u] = word[u]
                                /\ answer'[u] = answer[u]
      /\ DOMAIN pc' = Vms /\ DOMAIN word' = Vms /\ DOMAIN answer' = Vms
  BY DEF Ends, IInv, TypeInv
<1>2. lock' = {}
  BY DEF Ends, IInv, LockRight
<1>3. LockRight'
  BY <1>1, <1>2 DEF IInv, LockRight, Holding
<1>4. QED
  BY <1>1, <1>2, <1>3

(* A word that ends, having done to its channel what keeps a queue.        *)
LEMMA EndingHolds ==
  ASSUME IInv, NEW v \in Vms, pc[v] \in Holding, NEW what, Ends(v, what), what # "lost",
         DOMAIN pipes' \subseteq Names, \A n \in DOMAIN pipes' : pipes'[n] \in Seq(Message),
         sent' \in [Names -> Seq(Message)], InOrder', UNCHANGED <<got, count>>,
         \A u \in Vms : u # v => taken'[u] = taken[u],
         DOMAIN taken' = Vms,
         \A n : Channel(n) # <<>> => Channel(n)' # <<>>,
         KnownAreThere',
         NEW h \in SUBSET Names, hope' = [hope EXCEPT ![v] = h],
         \A n \in h : Channel(n)' # <<>>
  PROVE  IInv'
<1>1. /\ pc'[v] = "idle" /\ word'[v] = Idle /\ answer'[v] = what
      /\ \A u \in Vms : u # v => /\ pc'[u] = pc[u] /\ word'[u] = word[u]
                                /\ answer'[u] = answer[u]
      /\ DOMAIN pc' = Vms /\ DOMAIN word' = Vms /\ DOMAIN answer' = Vms
      /\ LockRight'
  BY EndsIs
<1>2. \A u \in Vms : u # v => hope'[u] = hope[u]
  BY DEF IInv, TypeInv
<1>3. hope'[v] = h /\ hope' \in [Vms -> SUBSET Names]
  BY DEF IInv, TypeInv
<1>4. \A u \in Vms : WordRight(u)'
  <2>1. WordRight(v)'
    BY <1>1 DEF WordRight, Idle
  <2>2. ASSUME NEW u \in Vms, u # v PROVE WordRight(u)'
    BY <1>1, <2>2 DEF IInv, TypeInv, WordRight
  <2>3. QED
    BY <2>1, <2>2
<1>5. TypeInv'
  BY <1>1, <1>3, <1>4 DEF IInv, TypeInv
<1>6. FindsWhatItLookedFor'
  BY <1>1 DEF IInv, FindsWhatItLookedFor
<1>7. HopeRight'
  BY <1>1, <1>2, <1>3 DEF IInv, HopeRight
<1>8. LevelsRead'
  BY <1>1 DEF IInv, Delivered, LevelsRead
<1>9. QED
  BY <1>1, <1>5, <1>6, <1>7, <1>8 DEF IInv, Delivered

LEMMA PushHolds ==
  ASSUME IInv, NEW v \in Vms, Push(v)
  PROVE  IInv'
<1> DEFINE n == word[v].name
           m == word[v].message
           q == Append(Channel(n), m)
<1>1. /\ pc[v] = "locked" /\ n \in Names /\ m \in Message
  BY DEF Push, Locked, IInv, TypeInv, WordRight, Holding
<1>2. /\ pipes' = With(n, q) /\ sent' = [sent EXCEPT ![n] = Append(sent[n], m)]
      /\ known' = known \cup {n} /\ Ends(v, "sent") /\ UNCHANGED <<taken, count, got, hope>>
  BY DEF Push
<1>3. /\ Channel(n) \in Seq(Message) /\ sent[n] \in Seq(Message) /\ got[n] \in Seq(Message)
  BY <1>1, ChannelType DEF IInv, TypeInv
<1>4. q \in Seq(Message) /\ q # <<>> /\ Append(sent[n], m) \in Seq(Message)
  BY <1>1, <1>3
<1>5. /\ DOMAIN pipes' = DOMAIN pipes \cup {n}
      /\ \A k : Channel(k)' = IF k = n THEN q ELSE Channel(k)
      /\ \A k \in DOMAIN pipes' : pipes'[k] = IF k = n THEN q ELSE pipes[k]
  BY <1>2, WithChannel
<1>6. sent[n] = got[n] \o Channel(n)
  BY <1>1 DEF IInv, Delivered, InOrder
<1> HIDE DEF n, m
<1>7. Append(sent[n], m) = got[n] \o q
  <2>1. \A g, c \in Seq(Message), x \in Message : Append(g \o c, x) = g \o Append(c, x)
    OBVIOUS
  <2>2. QED
    BY <1>1, <1>3, <1>6, <2>1 DEF q
<1> HIDE DEF q
<1>8. InOrder'
  BY <1>1, <1>2, <1>5, <1>7 DEF IInv, TypeInv, Delivered, InOrder
<1>9. /\ DOMAIN pipes' \subseteq Names /\ \A k \in DOMAIN pipes' : pipes'[k] \in Seq(Message)
      /\ sent' \in [Names -> Seq(Message)] /\ KnownAreThere'
  BY <1>1, <1>2, <1>4, <1>5 DEF IInv, TypeInv, KnownAreThere
<1>10. /\ hope' = [hope EXCEPT ![v] = hope[v]] /\ hope[v] \in SUBSET Names
       /\ DOMAIN taken' = Vms /\ \A u \in Vms : taken'[u] = taken[u]
       /\ \A k \in hope[v] : Channel(k) # <<>>
  BY <1>2 DEF IInv, TypeInv, HopeRight
<1>11. \A k : Channel(k) # <<>> => Channel(k)' # <<>>
  BY <1>4, <1>5
<1>12. pc[v] \in Holding
  BY <1>1 DEF Holding
<1>13. QED
  BY <1>2, <1>8, <1>9, <1>10, <1>11, <1>12, EndingHolds, ZenonT(30)

LEMMA EmptyHandedHolds ==
  ASSUME IInv, NEW v \in Vms, PullAbsent(v) \/ PullEmpty(v)
  PROVE  IInv'
<1>1. PICK what : Ends(v, what) /\ what # "lost"
  BY DEF PullAbsent, PullEmpty
<1>2. /\ pc[v] \in Holding /\ hope' = [hope EXCEPT ![v] = {}]
      /\ UNCHANGED <<pipes, taken, count, sent, got, known>>
  BY DEF PullAbsent, PullEmpty, Locked, Holding
<1>3. \A n : Channel(n)' = Channel(n)
  BY <1>2 DEF Channel
<1>4. /\ InOrder' /\ KnownAreThere' /\ DOMAIN taken' = Vms
      /\ DOMAIN pipes' \subseteq Names /\ \A n \in DOMAIN pipes' : pipes'[n] \in Seq(Message)
      /\ sent' \in [Names -> Seq(Message)]
  BY <1>2, <1>3 DEF IInv, TypeInv, Delivered, InOrder, KnownAreThere
<1> DEFINE h == {}
<1>5. h \in SUBSET Names /\ \A n \in h : Channel(n)' # <<>>
  OBVIOUS
<1>6. hope' = [hope EXCEPT ![v] = h]
  BY <1>2
<1> HIDE DEF h
<1>7. QED
  BY <1>1, <1>2, <1>3, <1>4, <1>5, <1>6, EndingHolds

LEMMA PullSomeHolds ==
  ASSUME IInv, NEW v \in Vms, PullSome(v)
  PROVE  IInv'
<1> USE DEF IInv
<1>1. /\ pc[v] = "locked" /\ word[v].op = "recv" /\ Channel(word[v].name) # <<>>
      /\ pc'[v] = "taking" /\ DOMAIN pc' = Vms
      /\ UNCHANGED <<pipes, lock, word, taken, answer, count, sent, got, known, hope>>
      /\ \A u \in Vms : u # v => pc'[u] = pc[u]
  BY DEF PullSome, Locked, TypeInv
<1>2. \A n : Channel(n)' = Channel(n)
  BY <1>1 DEF Channel
<1>3. \A u \in Vms : WordRight(u)'
  <2>1. WordRight(v)'
    BY <1>1 DEF TypeInv, WordRight, Holding
  <2>2. ASSUME NEW u \in Vms, u # v PROVE WordRight(u)'
    BY <1>1, <2>2 DEF TypeInv, WordRight
  <2>3. QED
    BY <2>1, <2>2
<1>4. TypeInv'
  BY <1>1, <1>3 DEF TypeInv
<1>5. LockRight'
  BY <1>1 DEF LockRight, Holding
<1>6. FindsWhatItLookedFor' /\ KnownAreThere' /\ HopeRight'
  BY <1>1, <1>2 DEF FindsWhatItLookedFor, KnownAreThere, HopeRight
<1>7. Delivered'
  BY <1>1, <1>2 DEF Delivered, InOrder, LevelsRead
<1>8. QED
  BY <1>4, <1>5, <1>6, <1>7

LEMMA TakeHolds ==
  ASSUME IInv, NEW v \in Vms, Take(v)
  PROVE  IInv'
<1> USE DEF IInv
<1> DEFINE n == word[v].name
           q == Tail(pipes[n])
           m == Head(pipes[n])
<1>1. /\ pc[v] = "taking" /\ word[v].op = "recv" /\ n \in Names /\ Channel(n) # <<>>
      /\ n \in DOMAIN pipes
  BY DEF Take, TypeInv, WordRight, Holding, Channel
<1>2. /\ pipes' = With(n, q) /\ got' = [got EXCEPT ![n] = Append(got[n], m)]
      /\ taken' = [taken EXCEPT ![v] = m] /\ hope' = Robbed(v, n)
      /\ UNCHANGED <<lock, word, answer, count, sent, known>>
      /\ pc'[v] = "reading" /\ DOMAIN pc' = Vms /\ \A u \in Vms : u # v => pc'[u] = pc[u]
  BY DEF Take, TypeInv
<1>3. /\ Channel(n) = pipes[n] /\ Channel(n) \in Seq(Message) /\ got[n] \in Seq(Message)
  BY <1>1, ChannelType DEF TypeInv
<1>4. m \in Message /\ q \in Seq(Message) /\ Append(got[n], m) \in Seq(Message)
  BY <1>1, <1>3, HeadTailProperties
<1>5. /\ DOMAIN pipes' = DOMAIN pipes \cup {n}
      /\ \A k : Channel(k)' = IF k = n THEN q ELSE Channel(k)
      /\ \A k \in DOMAIN pipes' : pipes'[k] = IF k = n THEN q ELSE pipes[k]
  BY <1>2, WithChannel
<1>6. sent[n] = Append(got[n], m) \o q
  <2>1. sent[n] = got[n] \o Channel(n)
    BY <1>1 DEF Delivered, InOrder
  <2>2. got[n] \o pipes[n] = Append(got[n], Head(pipes[n])) \o Tail(pipes[n])
    BY <1>1, <1>3, QueueTaken
  <2>3. QED
    BY <1>3, <2>1, <2>2
<1>7. /\ taken'[v] = m /\ DOMAIN taken' = Vms /\ \A u \in Vms : u # v => taken'[u] = taken[u]
  BY <1>2 DEF TypeInv
<1>8. /\ hope' \in [Vms -> SUBSET Names] /\ hope'[v] = {}
      /\ \A u \in Vms : u # v => hope'[u] = hope[u] \ {n}
  BY <1>2 DEF Robbed, TypeInv
<1> HIDE DEF n, m, q
<1>9. \A u \in Vms : WordRight(u)'
  <2>1. WordRight(v)'
    BY <1>1, <1>2, <1>4, <1>7 DEF WordRight, Holding, n
  <2>2. ASSUME NEW u \in Vms, u # v PROVE WordRight(u)'
    BY <1>2, <1>7, <2>2 DEF TypeInv, WordRight
  <2>3. QED
    BY <2>1, <2>2
<1>10. TypeInv'
  BY <1>1, <1>2, <1>4, <1>5, <1>7, <1>8, <1>9 DEF TypeInv
<1>11. LockRight'
  BY <1>1, <1>2 DEF LockRight, Holding
<1>12. FindsWhatItLookedFor'
  <2>1. \A u \in Vms : u # v => pc[u] \notin Holding
    BY <1>1 DEF LockRight, Holding
  <2>2. \A u \in Vms : pc'[u] # "taking"
    BY <1>2, <2>1 DEF Holding
  <2>3. QED
    BY <2>2 DEF FindsWhatItLookedFor
<1>13. KnownAreThere'
  BY <1>2, <1>5 DEF KnownAreThere
<1>14. HopeRight'
  <2>1. ASSUME NEW u \in Vms, NEW k \in hope'[u] PROVE Channel(k)' # <<>>
    BY <1>5, <1>8, <2>1 DEF HopeRight
  <2>2. ASSUME NEW u \in Vms, pc'[u] # "idle", word'[u].op = "recv"
        PROVE  hope'[u] \subseteq {word'[u].name}
    BY <1>2, <1>8, <2>2 DEF HopeRight
  <2>3. QED
    BY <2>1, <2>2 DEF HopeRight
<1>15. Delivered'
  BY <1>1, <1>2, <1>5, <1>6 DEF TypeInv, Delivered, InOrder, LevelsRead
<1>16. QED
  BY <1>10, <1>11, <1>12, <1>13, <1>14, <1>15

LEMMA ReadHolds ==
  ASSUME IInv, NEW v \in Vms, Read(v)
  PROVE  IInv'
<1>1. pc[v] = "reading" /\ taken[v] \in Message
  BY DEF Read, IInv, TypeInv, WordRight
<1>2. Readable(taken[v].bytes) \/ taken[v].json
  BY <1>1, WrittenIsRead
<1> DEFINE what == IF Readable(taken[v].bytes) THEN "value"
                   ELSE IF taken[v].json THEN "text lost" ELSE "lost"
<1>3. Ends(v, what) /\ what # "lost"
  BY <1>2 DEF Read
<1> HIDE DEF what
<1>4. /\ UNCHANGED <<pipes, count, sent, got, known, hope>>
      /\ DOMAIN taken' = Vms /\ \A u \in Vms : u # v => taken'[u] = taken[u]
  BY DEF Read, IInv, TypeInv
<1>5. \A n : Channel(n)' = Channel(n)
  BY <1>4 DEF Channel
<1>6. /\ InOrder' /\ KnownAreThere'
      /\ DOMAIN pipes' \subseteq Names /\ \A n \in DOMAIN pipes' : pipes'[n] \in Seq(Message)
      /\ sent' \in [Names -> Seq(Message)]
  BY <1>4, <1>5 DEF IInv, TypeInv, Delivered, InOrder, KnownAreThere
<1>7. /\ hope' = [hope EXCEPT ![v] = hope[v]] /\ hope[v] \in SUBSET Names
      /\ \A n \in hope[v] : Channel(n)' # <<>>
  BY <1>4, <1>5 DEF IInv, TypeInv, HopeRight
<1>8. pc[v] \in Holding
  BY <1>1 DEF Holding
<1>9. QED
  BY <1>3, <1>4, <1>5, <1>6, <1>7, <1>8, EndingHolds

LEMMA EnsureHolds ==
  ASSUME IInv, NEW v \in Vms, Ensure(v)
  PROVE  IInv'
<1> DEFINE n == word[v].name
           h == IF Channel(n) = <<>> THEN {} ELSE {n}
<1>1. pc[v] = "locked" /\ pc[v] \in Holding /\ n \in Names
  BY DEF Ensure, Locked, IInv, TypeInv, WordRight, Holding
<1>2. /\ pipes' = With(n, Channel(n)) /\ known' = known \cup {n}
      /\ hope' = [hope EXCEPT ![v] = h] /\ UNCHANGED <<taken, count, sent, got>>
  BY DEF Ensure
<1>3. PICK what : Ends(v, what) /\ what # "lost"
  BY DEF Ensure
<1>4. /\ DOMAIN pipes' = DOMAIN pipes \cup {n}
      /\ \A k : Channel(k)' = Channel(k)
      /\ \A k \in DOMAIN pipes' : pipes'[k] = IF k = n THEN Channel(n) ELSE pipes[k]
  <2> DEFINE q == Channel(n)
  <2>1. pipes' = With(n, q)
    BY <1>2
  <2> HIDE DEF q
  <2>2. /\ DOMAIN pipes' = DOMAIN pipes \cup {n}
        /\ \A k : Channel(k)' = IF k = n THEN q ELSE Channel(k)
        /\ \A k \in DOMAIN pipes' : pipes'[k] = IF k = n THEN q ELSE pipes[k]
    BY <2>1, WithChannel
  <2>3. QED
    BY <2>2 DEF q
<1>5. Channel(n) \in Seq(Message)
  BY ChannelType DEF IInv
<1>6. h \in SUBSET Names /\ \A k \in h : Channel(k)' # <<>>
  BY <1>1, <1>4
<1> HIDE DEF n, h
<1>7. /\ InOrder' /\ KnownAreThere' /\ DOMAIN taken' = Vms
      /\ DOMAIN pipes' \subseteq Names /\ \A k \in DOMAIN pipes' : pipes'[k] \in Seq(Message)
      /\ sent' \in [Names -> Seq(Message)] /\ \A u \in Vms : taken'[u] = taken[u]
  BY <1>1, <1>2, <1>4, <1>5 DEF IInv, TypeInv, Delivered, InOrder, KnownAreThere
<1>8. QED
  BY <1>1, <1>2, <1>3, <1>4, <1>6, <1>7, EndingHolds

-----------------------------------------------------------------------------
(* The results.                                                            *)

LEMMA StepHolds ==
  ASSUME IInv, [Next]_vars
  PROVE  IInv'
<1>1. CASE UNCHANGED vars
  <2>1. UNCHANGED <<pipes, lock, pc, word, taken, answer, count, sent, got, known, hope>>
    BY <1>1 DEF vars, calls
  <2>2. \A n : Channel(n)' = Channel(n)
    BY <2>1 DEF Channel
  <2>3. TypeInv' /\ LockRight'
    BY <2>1 DEF IInv, TypeInv, WordRight, LockRight
  <2>4. FindsWhatItLookedFor' /\ KnownAreThere' /\ HopeRight' /\ Delivered'
    BY <2>1, <2>2 DEF IInv, FindsWhatItLookedFor, KnownAreThere, HopeRight, Delivered,
                      InOrder, LevelsRead
  <2>5. QED
    BY <2>3, <2>4 DEF IInv
<1>2. CASE Next
  <2>1. PICK v \in Vms :
          Send(v) \/ SendRefused(v) \/ Recv(v) \/ Ask(v) \/ Lock(v) \/ Inside(v)
    BY <1>2 DEF Next
  <2>2. CASE Inside(v)
    BY <2>2, PushHolds, EmptyHandedHolds, PullSomeHolds, TakeHolds, ReadHolds, EnsureHolds
    DEF Inside
  <2>3. QED
    BY <2>1, <2>2, AsksHold, LockHolds
<1>3. QED
  BY <1>1, <1>2

(* What the results rest on: the lock is held by one VM, what recv found   *)
(* is there, the names known have channels, and hopes are well-founded.    *)
THEOREM BusInductive == Spec => []IInv
  BY InitHolds, StepHolds, PTL DEF Spec

(* Each channel is a queue: what was sent to a name is what was taken from *)
(* it and then what waits, in order and once each, and what was written    *)
(* level by level can be read (pipes, push and pull under one lock).       *)
THEOREM AlwaysDelivered == Spec => []Delivered
<1>1. IInv => Delivered
  BY DEF IInv
<1>2. QED
  BY <1>1, BusInductive, PTL

(* A VM never waits for a message with the map locked: what pull found     *)
(* before it waits is still there when it takes.                           *)
THEOREM NeverWaitsLocked == Spec => []FindsWhatItLookedFor
<1>1. IInv => FindsWhatItLookedFor
  BY DEF IInv
<1>2. QED
  BY <1>1, BusInductive, PTL

(* The VM that ends a word with the map locked, and no other, is at its    *)
(* word's action.                                                          *)
LEMMA WhoEnds ==
  ASSUME IInv, Next, NEW v \in Vms, pc[v] = "locked", pc'[v] = "idle"
  PROVE  Push(v) \/ PullAbsent(v) \/ PullEmpty(v) \/ Ensure(v)
<1>1. PICK u \in Vms :
        Send(u) \/ SendRefused(u) \/ Recv(u) \/ Ask(u) \/ Lock(u) \/ Inside(u)
  BY DEF Next
<1>2. CASE u = v
  BY <1>1, <1>2 DEF IInv, TypeInv, Send, SendRefused, Recv, Ask, Starts, Lock, Inside, PullSome,
                    Take, Read
<1>3. CASE u # v
  BY <1>1, <1>3 DEF IInv, TypeInv, Send, SendRefused, Recv, Ask, Starts, Lock, Inside, Push,
                    PullAbsent, PullEmpty, PullSome, Take, Read, Ensure, Ends
<1>4. QED
  BY <1>2, <1>3

(* After a send to a name, or bus.data of it, no recv is told that there   *)
(* is no such channel: nothing removes one.                                *)
THEOREM AlwaysRendezvous == Spec => Rendezvous
<1>1. IInv /\ [Next]_vars =>
        [\A v \in Vms : (pc[v] = "locked" /\ answer'[v] = "absent" /\ pc'[v] = "idle")
                          => word[v].name \notin known]_vars
  <2> SUFFICES ASSUME IInv, Next, NEW v \in Vms, pc[v] = "locked", answer'[v] = "absent",
                      pc'[v] = "idle"
               PROVE  word[v].name \notin known
    OBVIOUS
  <2>1. Push(v) \/ PullAbsent(v) \/ PullEmpty(v) \/ Ensure(v)
    BY WhoEnds
  <2>2. CASE PullAbsent(v)
    BY <2>2 DEF PullAbsent, IInv, KnownAreThere
  <2>3. CASE Push(v) \/ PullEmpty(v) \/ Ensure(v)
    BY <2>3 DEF Push, PullEmpty, Ensure, Ends, IInv, TypeInv
  <2>4. QED
    BY <2>1, <2>2, <2>3
<1>2. QED
  BY <1>1, BusInductive, PTL DEF Spec, Rendezvous

(* A VM that was told of data and asks for it next gets NODATA only if     *)
(* another has taken it.                                                   *)
THEOREM AlwaysOnlyRobbed == Spec => OnlyRobbed
<1>1. IInv /\ [Next]_vars =>
        [\A v \in Vms : (pc[v] = "locked" /\ answer'[v] = "nodata" /\ pc'[v] = "idle")
                          => hope[v] = {}]_vars
  <2> SUFFICES ASSUME IInv, Next, NEW v \in Vms, pc[v] = "locked", answer'[v] = "nodata",
                      pc'[v] = "idle"
               PROVE  hope[v] = {}
    OBVIOUS
  <2>1. Push(v) \/ PullAbsent(v) \/ PullEmpty(v) \/ Ensure(v)
    BY WhoEnds
  <2>2. CASE PullEmpty(v)
    <3>1. Channel(word[v].name) = <<>> /\ word[v].op = "recv"
      BY <2>2 DEF PullEmpty, Locked, Channel
    <3>2. hope[v] \subseteq {word[v].name} /\ \A n \in hope[v] : Channel(n) # <<>>
      BY <3>1 DEF IInv, HopeRight
    <3>3. QED
      BY <3>1, <3>2
  <2>3. CASE Push(v) \/ PullAbsent(v) \/ Ensure(v)
    BY <2>3 DEF Push, PullAbsent, Ensure, Ends, IInv, TypeInv
  <2>4. QED
    BY <2>1, <2>2, <2>3
<1>2. QED
  BY <1>1, BusInductive, PTL DEF Spec, OnlyRobbed
=============================================================================
