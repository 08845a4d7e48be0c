-------------------------------- MODULE Bus ---------------------------------
(***************************************************************************)
(* The local bus between the VMs of a process: one map of named channels   *)
(* under one lock, and the words send, recv and bus.data                   *)
(* (crates/bund2-stdlib/src/bus.rs).                                       *)
(*                                                                         *)
(* A word has its operands when it starts here.  The bytes of a value are  *)
(* made before the lock is taken and read under it, and taking a message   *)
(* from a channel that has none would wait, with the lock held.            *)
(***************************************************************************)
EXTENDS Wire, Sequences, FiniteSets

CONSTANTS
  Vms,        \* the VMs, each on a thread of its own
  Names,      \* the channels' names
  Values,     \* the values that are sent
  MaxSends    \* bound: messages sent in a run

ASSUME BusAssumption == Values \subseteq ValueType /\ MaxSends \in Nat

VARIABLES
  pipes,    \* the channels there are, each the messages in it
  lock,     \* {}, or the VM that holds the map
  pc,       \* where each VM is in its word
  word,     \* the word it runs: [op, name, bytes]
  taken,    \* the bytes it took and has not read
  answer,   \* how its last word answered
  count,    \* messages made
  sent,     \* history: what was sent to each name, in order
  got,      \* history: what was taken from each, in order
  known,    \* history: the names that were sent to, or asked after
  hope      \* history: {}, or a name the VM was told has data, its next word to come

calls == <<pc, word, taken, answer, hope>>
vars == <<pipes, lock, calls, count, sent, got, known>>

Nothing == [no |-> 0]
Idle == [op |-> "none"]

Channel(n) == IF n \in DOMAIN pipes THEN pipes[n] ELSE <<>>

(* The map with the channel n, made if there is none, holding q.           *)
With(n, q) == [m \in DOMAIN pipes \cup {n} |-> IF m = n THEN q ELSE pipes[m]]

(* in and out are there before any program runs.                           *)
Init ==
  /\ pipes = [n \in {"in", "out"} \cap Names |-> <<>>] /\ known = {"in", "out"} \cap Names
  /\ lock = {}
  /\ pc = [v \in Vms |-> "idle"] /\ word = [v \in Vms |-> Idle]
  /\ taken = [v \in Vms |-> Nothing] /\ answer = [v \in Vms |-> "none"]
  /\ count = 0 /\ sent = [n \in Names |-> <<>>] /\ got = [n \in Names |-> <<>>]
  /\ hope = [v \in Vms |-> {}]

-----------------------------------------------------------------------------
(* A VM starts a word.                                                     *)

Starts(v, w) ==
  /\ pc[v] = "idle"
  /\ pc' = [pc EXCEPT ![v] = "waiting"] /\ word' = [word EXCEPT ![v] = w]
  /\ UNCHANGED <<pipes, lock, taken, answer, sent, got, known>>

Send(v) ==
  /\ count < MaxSends
  /\ \E n \in Names, x \in Values :
       /\ Writable(x)
       /\ Starts(v, [op |-> "send", name |-> n, message |-> [no |-> count + 1, bytes |-> Written(x), json |-> x.json]])
  /\ count' = count + 1
  /\ hope' = [hope EXCEPT ![v] = {}]

(* The value has no bytes: the word fails before the lock is asked for.    *)
SendRefused(v) ==
  /\ pc[v] = "idle" /\ \E x \in Values : ~Writable(x)
  /\ answer' = [answer EXCEPT ![v] = "refused"] /\ hope' = [hope EXCEPT ![v] = {}]
  /\ UNCHANGED <<pipes, lock, pc, word, taken, count, sent, got, known>>

Recv(v) ==
  /\ \E n \in Names :
       /\ Starts(v, [op |-> "recv", name |-> n])
       /\ hope' = [hope EXCEPT ![v] = hope[v] \cap {n}]
  /\ UNCHANGED count

(* bus.data, or bus.data.current after the current stack's name.           *)
Ask(v) ==
  /\ \E n \in Names : Starts(v, [op |-> "ask", name |-> n])
  /\ hope' = [hope EXCEPT ![v] = {}]
  /\ UNCHANGED count

-----------------------------------------------------------------------------
(* The map, under its lock.                                                *)

(* Mutated: the lock is shared. *)
Lock_Shared(v) ==
  /\ pc[v] = "waiting"
  /\ lock' = lock \cup {v} /\ pc' = [pc EXCEPT ![v] = "locked"]
  /\ UNCHANGED <<pipes, word, taken, answer, count, sent, got, known, hope>>

Lock(v) ==
  /\ pc[v] = "waiting" /\ lock = {}
  /\ lock' = lock \cup {v} /\ pc' = [pc EXCEPT ![v] = "locked"]
  /\ UNCHANGED <<pipes, word, taken, answer, count, sent, got, known, hope>>

Locked(v, op) == pc[v] = "locked" /\ word[v].op = op

(* The word answers, and the lock is given back.                           *)
Ends(v, what) ==
  /\ lock' = lock \ {v} /\ pc' = [pc EXCEPT ![v] = "idle"]
  /\ word' = [word EXCEPT ![v] = Idle]
  /\ answer' = [answer EXCEPT ![v] = what]

(* Mutated: the message overtakes those that wait. *)
Push_Front(v) ==
  /\ Locked(v, "send")
  /\ LET n == word[v].name IN
       /\ pipes' = With(n, <<word[v].message>> \o Channel(n))
       /\ sent' = [sent EXCEPT ![n] = Append(@, word[v].message)]
       /\ known' = known \cup {n}
  /\ Ends(v, "sent")
  /\ UNCHANGED <<taken, count, got, hope>>

Push(v) ==
  /\ Locked(v, "send")
  /\ LET n == word[v].name IN
       /\ pipes' = With(n, Append(Channel(n), word[v].message))
       /\ sent' = [sent EXCEPT ![n] = Append(@, word[v].message)]
       /\ known' = known \cup {n}
  /\ Ends(v, "sent")
  /\ UNCHANGED <<taken, count, got, hope>>

(* There is no such channel: an error.                                     *)
PullAbsent(v) ==
  /\ Locked(v, "recv") /\ word[v].name \notin DOMAIN pipes
  /\ Ends(v, "absent")
  /\ hope' = [hope EXCEPT ![v] = {}]
  /\ UNCHANGED <<pipes, taken, count, sent, got, known>>

(* It is empty: NODATA.                                                    *)
PullEmpty(v) ==
  /\ Locked(v, "recv") /\ word[v].name \in DOMAIN pipes /\ pipes[word[v].name] = <<>>
  /\ Ends(v, "nodata")
  /\ hope' = [hope EXCEPT ![v] = {}]
  /\ UNCHANGED <<pipes, taken, count, sent, got, known>>

PullSome(v) ==
  /\ Locked(v, "recv") /\ Channel(word[v].name) # <<>>
  /\ pc' = [pc EXCEPT ![v] = "taking"]
  /\ UNCHANGED <<pipes, lock, word, taken, answer, count, sent, got, known, hope>>

(* Whoever was told of data here and has not taken it can hope no more.    *)
Robbed(v, n) == [u \in Vms |-> IF u = v THEN {} ELSE hope[u] \ {n}]

(* Mutated: a channel goes with its last message. *)
Take_Removes(v) ==
  /\ pc[v] = "taking" /\ Channel(word[v].name) # <<>>
  /\ LET n == word[v].name IN
       /\ taken' = [taken EXCEPT ![v] = Head(pipes[n])]
       /\ pipes' = IF Len(pipes[n]) = 1 THEN [m \in DOMAIN pipes \ {n} |-> pipes[m]]
                   ELSE With(n, Tail(pipes[n]))
       /\ got' = [got EXCEPT ![n] = Append(@, Head(pipes[n]))]
       /\ hope' = Robbed(v, n)
  /\ pc' = [pc EXCEPT ![v] = "reading"]
  /\ UNCHANGED <<lock, word, answer, count, sent, known>>

(* The oldest message.  With none there, recv waits.                       *)
Take(v) ==
  /\ pc[v] = "taking" /\ Channel(word[v].name) # <<>>
  /\ LET n == word[v].name IN
       /\ taken' = [taken EXCEPT ![v] = Head(pipes[n])]
       /\ pipes' = With(n, Tail(pipes[n]))
       /\ got' = [got EXCEPT ![n] = Append(@, Head(pipes[n]))]
       /\ hope' = Robbed(v, n)
  /\ pc' = [pc EXCEPT ![v] = "reading"]
  /\ UNCHANGED <<lock, word, answer, count, sent, known>>

Read(v) ==
  /\ pc[v] = "reading"
  /\ Ends(v, IF Readable(taken[v].bytes) THEN "value"
             ELSE IF taken[v].json THEN "text lost" ELSE "lost")
  /\ taken' = [taken EXCEPT ![v] = Nothing]
  /\ UNCHANGED <<pipes, count, sent, got, known, hope>>

(* Mutated: a channel that was there is said to have data. *)
Ensure_There(v) ==
  /\ Locked(v, "ask")
  /\ LET n == word[v].name
         has == n \in DOMAIN pipes
     IN
       /\ pipes' = With(n, Channel(n))
       /\ known' = known \cup {n}
       /\ Ends(v, IF has THEN "yes" ELSE "no")
       /\ hope' = [hope EXCEPT ![v] = IF has THEN {n} ELSE {}]
  /\ UNCHANGED <<taken, count, sent, got>>

Ensure(v) ==
  /\ Locked(v, "ask")
  /\ LET n == word[v].name IN
       /\ pipes' = With(n, Channel(n))
       /\ known' = known \cup {n}
       /\ Ends(v, IF Channel(n) = <<>> THEN "no" ELSE "yes")
       /\ hope' = [hope EXCEPT ![v] = IF Channel(n) = <<>> THEN {} ELSE {n}]
  /\ UNCHANGED <<taken, count, sent, got>>

(* A VM goes on with the map locked.                                       *)
Inside(v) ==
  Push(v) \/ PullAbsent(v) \/ PullEmpty(v) \/ PullSome(v) \/ Take(v) \/ Read(v) \/ Ensure(v)

Next ==
  \E v \in Vms : Send(v) \/ SendRefused(v) \/ Recv(v) \/ Ask(v) \/ Lock(v) \/ Inside(v)

(* A VM that has the lock is scheduled; one that waits for it is owed      *)
(* nothing: the mutex is not fair.                                         *)
Spec == Init /\ [][Next]_vars /\ \A v \in Vms : WF_vars(Inside(v))

-----------------------------------------------------------------------------
(* Each channel is a queue, whoever sends and whoever takes: what was sent *)
(* is what was taken and then what waits, in order, each message once; and *)
(* what was written level by level is read back by whoever took it: the    *)
(* bound on writing is the bound on reading, and no JSON is left inside.   *)
(* (The text of a JSON value may be lost: it nests past what the parser    *)
(* reads, and counts as one level where it is written.)                    *)
InOrder == \A n \in Names : sent[n] = got[n] \o Channel(n)
LevelsRead == \A v \in Vms : answer[v] # "lost"
Delivered == InOrder /\ LevelsRead

(* Whoever has the map locked gives it back: recv looks for a message      *)
(* before it waits for one, so that it never waits with the lock (pull).   *)
LockGivenBack == \A v \in Vms : v \in lock ~> v \notin lock

(* bus.data "creates the channel it reports on", which "makes a cross-VM   *)
(* rendezvous expressible": after it, or a send, no recv is told there is  *)
(* no such channel.                                                        *)
Rendezvous ==
  [][\A v \in Vms : (pc[v] = "locked" /\ answer'[v] = "absent" /\ pc'[v] = "idle")
                      => word[v].name \notin known]_vars

(* bus.data's answer is advisory only for what the others do: a VM told    *)
(* there is data, whose next word asks for it, and which gets NODATA, has  *)
(* lost it to another VM in between.                                       *)
OnlyRobbed ==
  [][\A v \in Vms : (pc[v] = "locked" /\ answer'[v] = "nodata" /\ pc'[v] = "idle")
                      => hope[v] = {}]_vars
=============================================================================
