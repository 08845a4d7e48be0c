----------------------------- MODULE TierCache -----------------------------
(***************************************************************************)
(* When a body is compiled and when its code is run: the promotion counter,*)
(* the compiled cache and the demoted set (Tiering in crates/bund2-jit/src/*)
(* cache.rs), the tier that drives them and queues what it may not compile *)
(* yet (JitTier in crates/bund2-runtime/src/tier.rs), and the interpreter's*)
(* table of bodies it no longer offers (crates/bund2-interp/src/           *)
(* declined.rs, push_frame_once in lib.rs).                                *)
(*                                                                         *)
(* Bodies are known by the address of their payload.  An allocator hands   *)
(* an address out again once no strong and no weak reference is left, so   *)
(* every entry that names an address holds a weak one.  heap says which    *)
(* body is alive at an address, 0 for none; an entry also carries, as a    *)
(* history, the body it was made for.                                      *)
(***************************************************************************)
EXTENDS Integers, Sequences, FiniteSets

CONSTANTS
  Addresses,    \* where a payload may be allocated
  Threshold,    \* entries after which a body has earned compilation
  Functions,    \* how many functions may be emitted over the tier's life
  CounterCap,   \* how many bodies the counter, and the demoted set, hold
  Pending,      \* how many bodies may wait to be compiled, 64
  SlotOf,       \* the slot of the declined table an address falls in
  MaxBodies,    \* bound: bodies made in a run
  MaxRunning    \* bound: compiled bodies nested in each other

ASSUME TierAssumption ==
  /\ Threshold \in Nat /\ Functions \in Nat /\ Pending \in Nat
  /\ CounterCap \in Nat \ {0}
  /\ DOMAIN SlotOf = Addresses

VARIABLES
  heap,      \* the body alive at each address, 0 for none
  made,      \* how many bodies were made
  counter,   \* entries [at, body, seen]
  cache,     \* entries [at, body]; the body is the one the code was made of
  demoted,   \* entries [at, body]
  declined,  \* entries [at, body], at most one to a slot
  emitted,   \* functions emitted, ever
  running,   \* the compiled bodies running, each in the one before
  pending,   \* the addresses queued while compiled code ran
  waiting,   \* those being compiled now that it has returned
  off        \* a word has armed the debugger

tiering == <<counter, cache, demoted, emitted>>
vars == <<heap, made, counter, cache, demoted, declined, emitted, running, pending,
          waiting, off>>

Named(m) == {e.at : e \in m}
At(m, a) == {e \in m : e.at = a}
Dead(e) == heap[e.at] = 0
LiveOf(m) == {e \in m : ~Dead(e)}
Entry(a) == [at |-> a, body |-> heap[a]]

(* Mutated: the demoted set names an address and does not hold it. *)
Held_NotDemoted(a) == a \in Named(counter) \cup Named(cache) \cup Named(declined)

(* A weak reference to the payload at a is outstanding.                    *)
Held(a) == a \in Named(counter) \cup Named(cache) \cup Named(demoted) \cup Named(declined)

(* A strong one is, besides the program's own.                             *)
InUse(a) ==
  \/ \E i \in DOMAIN running : running[i].at = a
  \/ \E i \in DOMAIN pending : pending[i] = a
  \/ \E i \in DOMAIN waiting : waiting[i] = a

HasRoom == emitted < Functions

Init ==
  /\ heap = [a \in Addresses |-> 0] /\ made = 0
  /\ counter = {} /\ cache = {} /\ demoted = {} /\ declined = {} /\ emitted = 0
  /\ running = <<>> /\ pending = <<>> /\ waiting = <<>>
  /\ off = FALSE

-----------------------------------------------------------------------------
(* The program makes bodies and lets them go.                              *)

Make(a) ==
  /\ waiting = <<>> /\ made < MaxBodies
  /\ heap[a] = 0 /\ ~Held(a)
  /\ made' = made + 1
  /\ heap' = [heap EXCEPT ![a] = made']
  /\ UNCHANGED <<tiering, declined, running, pending, waiting, off>>

Release(a) ==
  /\ waiting = <<>>
  /\ heap[a] # 0 /\ ~InUse(a)
  /\ heap' = [heap EXCEPT ![a] = 0]
  /\ UNCHANGED <<made, tiering, declined, running, pending, waiting, off>>

-----------------------------------------------------------------------------
(* Filing code, and demoting.                                              *)

Insert(a) ==
  IF a \in Named(demoted) \/ ~HasRoom THEN UNCHANGED tiering
  ELSE /\ cache' = (cache \ At(cache, a)) \cup {Entry(a)}
       /\ emitted' = emitted + 1
       /\ UNCHANGED <<counter, demoted>>

(* At the cap the dead go first, then any one.                             *)
RoomIn(m, a) ==
  IF Cardinality(m) < CounterCap \/ a \in Named(m) THEN {m}
  ELSE LET live == LiveOf(m)
       IN IF Cardinality(live) < CounterCap THEN {live} ELSE {live \ {e} : e \in live}

Demote(a) ==
  /\ cache' = cache \ At(cache, a)
  /\ counter' = counter \ At(counter, a)
  /\ \E m \in RoomIn(demoted, a) : demoted' = (m \ At(m, a)) \cup {Entry(a)}
  /\ UNCHANGED emitted

(* Compiling a: it is empty, or it would gain nothing, or the lowering     *)
(* fails, or its code is filed.                                            *)
Compile(a) ==
  \/ UNCHANGED tiering
  \/ Demote(a)
  \/ HasRoom /\ Insert(a)

-----------------------------------------------------------------------------
(* A body is about to run.                                                 *)

Offered(a) == waiting = <<>> /\ heap[a] # 0 /\ ~off /\ a \notin Named(declined)

Compiled(a) == {e \in At(cache, a) : ~Dead(e)}

(* Told that a is declined for good, the interpreter takes its slot for it.*)
EnterDemoted(a) ==
  /\ Offered(a) /\ a \in Named(demoted)
  /\ declined' = {e \in declined : SlotOf[e.at] # SlotOf[a]} \cup {Entry(a)}
  /\ UNCHANGED <<heap, made, tiering, running, pending, waiting, off>>

EnterCompiled(a) ==
  /\ Offered(a) /\ a \notin Named(demoted) /\ Compiled(a) # {}
  /\ Len(running) < MaxRunning
  /\ \E e \in Compiled(a) : running' = Append(running, e)
  /\ UNCHANGED <<heap, made, tiering, declined, pending, waiting, off>>

(* What the counter may be with room for a: at the cap every map is swept, *)
(* and then the coldest count goes.                                        *)
Full(a) == Cardinality(counter) >= CounterCap /\ a \notin Named(counter)
Swept(m, a) == IF Full(a) THEN LiveOf(m) ELSE m
Coldest(m) == {e \in m : \A f \in m : e.seen <= f.seen}

CounterFor(a) ==
  LET m == Swept(counter, a)
  IN IF Full(a) /\ Cardinality(m) >= CounterCap THEN {m \ {e} : e \in Coldest(m)} ELSE {m}

SeenOf(m, a) == IF a \in Named(m) THEN (CHOOSE e \in At(m, a) : TRUE).seen ELSE 0

(* A count is kept up to Threshold + 1: beyond it only that it is.         *)
OneMore(n) == IF n > Threshold THEN n ELSE n + 1

Counted(m, a) == (m \ At(m, a)) \cup {[at |-> a, body |-> heap[a], seen |-> OneMore(SeenOf(m, a))]}

Unknown(a) == Offered(a) /\ a \notin Named(demoted) /\ Compiled(a) = {}

(* Below the threshold, or past the function cap.                          *)
EnterCounted(a) ==
  /\ Unknown(a)
  /\ \E m \in CounterFor(a) :
       /\ OneMore(SeenOf(m, a)) < Threshold \/ ~HasRoom
       /\ counter' = Counted(m, a)
  /\ cache' = Swept(cache, a) /\ demoted' = Swept(demoted, a)
  /\ UNCHANGED <<heap, made, declined, emitted, running, pending, waiting, off>>

(* The threshold is reached: counted, and to be compiled.                  *)
EarnsCode(a) ==
  /\ Unknown(a) /\ HasRoom
  /\ \E m \in CounterFor(a) :
       /\ OneMore(SeenOf(m, a)) >= Threshold
       /\ counter' = Counted(m, a)
  /\ cache' = Swept(cache, a) /\ demoted' = Swept(demoted, a)

Deferred(a) ==
  IF Len(pending) < Pending /\ (\A i \in DOMAIN pending : pending[i] # a)
  THEN Append(pending, a) ELSE pending

(* While compiled code runs, the body waits; this entry is interpreted.    *)
EnterDeferred(a) ==
  /\ running # <<>> /\ EarnsCode(a)
  /\ pending' = Deferred(a)
  /\ UNCHANGED <<heap, made, declined, emitted, running, waiting, off>>

(* Nothing runs: the entry is counted, and the body is the one waiting.    *)
EnterHot(a) ==
  /\ running = <<>> /\ EarnsCode(a)
  /\ waiting' = <<a>>
  /\ UNCHANGED <<heap, made, declined, emitted, running, pending, off>>

(* The next waiting body.  It may have been compiled, demoted or capped    *)
(* since it was queued.                                                    *)
CompileNext ==
  /\ waiting # <<>>
  /\ LET a == Head(waiting) IN
       IF Compiled(a) = {} /\ a \notin Named(demoted) THEN Compile(a) ELSE UNCHANGED tiering
  /\ waiting' = Tail(waiting)
  /\ UNCHANGED <<heap, made, declined, running, pending, off>>

(* Mutated: the queue is compiled as each body returns. *)
Return_Nested ==
  /\ running # <<>> /\ waiting = <<>>
  /\ running' = SubSeq(running, 1, Len(running) - 1)
  /\ waiting' = IF off THEN <<>> ELSE pending
  /\ pending' = <<>>
  /\ UNCHANGED <<heap, made, tiering, declined, off>>

(* The innermost compiled body returns or fails; as the outermost does,    *)
(* the queue is taken, and dropped if the tier is no longer offered bodies.*)
Return ==
  /\ running # <<>> /\ waiting = <<>>
  /\ running' = SubSeq(running, 1, Len(running) - 1)
  /\ IF running' = <<>>
     THEN waiting' = (IF off THEN <<>> ELSE pending) /\ pending' = <<>>
     ELSE UNCHANGED <<pending, waiting>>
  /\ UNCHANGED <<heap, made, tiering, declined, off>>

(* A word that arms or moves the debugger, in compiled code or not.        *)
Arm ==
  /\ waiting = <<>> /\ ~off
  /\ off' = TRUE
  /\ UNCHANGED <<heap, made, tiering, declined, running, pending, waiting>>

Next ==
  \/ \E a \in Addresses :
       \/ Make(a) \/ Release(a)
       \/ EnterDemoted(a) \/ EnterCompiled(a) \/ EnterCounted(a)
       \/ EnterDeferred(a) \/ EnterHot(a)
  \/ CompileNext \/ Return \/ Arm

Spec == Init /\ [][Next]_vars

-----------------------------------------------------------------------------

(* Nothing recorded for one body answers for another that lives at its     *)
(* address: not a count, not code, not a demotion, not a refusal.          *)
NoFalseHit ==
  \A e \in counter \cup cache \cup demoted \cup declined : heap[e.at] \in {0, e.body}

(* The code that is running was made of the body that is running.          *)
RunsOwnCode == \A i \in DOMAIN running : heap[running[i].at] = running[i].body

(* No body has two answers: one declined or demoted for good has no code,  *)
(* though the demoted set forgets and the body may earn compilation again. *)
OneAnswer == Named(cache) \cap (Named(demoted) \cup Named(declined)) = {}

(* What is queued waits for compiled code to return, and then no longer.   *)
QueueWaits == pending # <<>> => running # <<>> /\ waiting = <<>>

(* Code is emitted only while none is being executed, and the cap on what  *)
(* is ever emitted is not got round by demoting or by dying.               *)
EmitsWhenIdle == [][emitted' # emitted => running = <<>> /\ running' = <<>>]_vars

(* debugging(): "from the first such word, no body is compiled or run      *)
(* compiled": no code is emitted, none is entered.                         *)
OffMeansOff ==
  [][off => /\ emitted' = emitted
            /\ Len(running') <= Len(running)
            /\ waiting' = <<>>]_vars

(* Both, however deep compiled bodies nest, whatever they have queued and  *)
(* wherever among them the debugger is armed (compile_pending, debugging). *)
EmitsWhenAllowed == EmitsWhenIdle /\ OffMeansOff
=============================================================================
