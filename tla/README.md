# Bund2, specified in TLA+

Bund2 is a Rust implementation of the Bund language: a concatenative language
whose programs work on many named stacks, with an interpreter (tier 0), a
compiler of hot bodies (tier 1), and a host that runs many VMs in one process.
This directory holds TLA+ specifications of its core, the TLC configurations
that model-check them on small instances, and TLAPS proofs for every value of
their constants. Paths below are relative to the repository; `bus.rs` and other
bare names are those of the component under discussion.

To check a configuration: `tlc -config Bus.cfg MCBus`. To check the proofs of a
module: `tlapm StacksProofs.tla`. `PROJECT.json` is the machine-readable index:
which run checks which property, the lines every definition models, and for
each property a plausible bug that breaks it (the definitions commented
"Mutated", which no specification uses).

## 1. The system

| Component | Where | State | Operations | Talks to |
|---|---|---|---|---|
| Stacks | `bund2-interp/src/stacks.rs`, `bund2-stdlib/src/stack.rs` | the map of stacks, the current one held out of it, the ring of names, the epoch and its cell, workbench | create, select, turn, drop; some thirty stack words | compiled code reads the epoch cell |
| Word table | `bund2-api/src/lib.rs` (Registry), `bund2-interp/src/lib.rs` | names, bindings by kind, aliases, generations, the binding epoch, kept answers | register, unregister, resolve, inline a site | the interpreter dispatches by it, compiled code compares generations |
| Frame loop | `bund2-interp/src/lib.rs` | frames, the tail request and its mirror cell, the exit, the shadow frame of compiled code | push a body, run to a floor, call back, hand back, unwind | offers bodies to the tier, polls the OOM flag |
| Tiering | `bund2-jit/src/cache.rs`, `bund2-runtime/src/tier.rs`, `bund2-interp/src/declined.rs` | counter, cache, demoted set, queue, declined table | observe, compile, enter, demote, evict | the frame loop above it, the code generator below |
| Code generator | `bund2-jit/src/lower.rs`, `bund2-ir/src/fragment.rs`, `bund2-stdlib/src/fragments.rs` | the plan of a body; while its code runs, the numbers held in registers | lower a body; promote, inline, cross, call, fall back | reads the word table, guards by generations, the epoch and the mode |
| VM host | `bund2-async/src/host.rs` | live count, per VM a shared answer slot, flag and waker | spawn, poll, join, drop | threads, the embedder's executor |
| OOM guard | `bund2-api/src/memguard.rs`, `bund2-host/src/memwatch.rs` | one flag and three figures per process; the watch's baseline, last sample and count | sample, trip, take, drop | every VM's frame loop |
| Local bus | `bund2-stdlib/src/bus.rs` | one map of named channels, under one lock | send, recv, bus.data | every VM of the process |
| Wire format | `bund2-value/src/wire.rs` | none | to_binary, from_binary | the bus, worlds |
| Values | `bund2-value/src/lib.rs` | the interner of stack names, the identity counter, memoised symbols | clone, dup, compare, display | everything |
| Parser, effects | `bund2-syntax`, `bund2-ir` | none across parses | parse, check effects | the interpreter, the code generator |
| Knowledge bases | `bund2-stdlib/src/kb/` | for one query the arena, goal list, choicepoints, trail, tables, waiting constraints, replies; scratch-stack names per depth of bridges | call a goal, backtrack, unify, table, propagate, label, bridge, ask, saturate | the frame loop and the stacks, through bridges; the OOM flag |
| Worlds | `bund2-stdlib/src/world.rs` | a database file, one holder at a time | save and load stacks, lambdas, aliases, scripts, models; bootstrap | word table, stacks, wire |
| Conditionals, OOP, control | `conditional.rs`, `control.rs`, `oop.rs` | tables of makers and classes | choose a branch, resolve a method | frame loop |
| Data words | the rest of `bund2-stdlib` | none | functions of their operands | stacks |
| Debugger, profiler | `bund2-interp/src/debug.rs`, `profile.rs` | breakpoints, mode, counts | stop, step, watch | frame loop; turns the tier off |
| Command line, bundles | `bund2-cli` | a bundle's region | start-up, printing | runtime |

What is hard here, and why it is worth a model:

* **One list for nested calls.** Every call in progress keeps its frames on one
  list, runs down to the floor it found and must leave what is below alone,
  however it ends: a failure deep inside, a body refused before it has a frame, a
  compiled body that hands another back, an exit. A body to be run next waits in
  one variable that several of these paths set, take and forget.
* **Stale state behind a cheap guard.** Compiled code keeps stack values in
  registers over a call and compares one epoch; inlined fragments compare one
  generation; kept resolutions compare one binding epoch; the tier knows a body
  by its address. Each guard must notice everything that could have changed.
* **Two places for one thing.** The current stack is held out of the map; a
  body is counted, compiled, demoted or declined; the count of live VMs is
  apart from the threads.
* **Threads.** A future's waker against the thread that finishes; one flag
  for many VMs with figures beside it; a map of channels under one lock with a
  wait inside.
* **Search that takes everything back.** A choicepoint restores goals, bindings,
  constraints and scopes, and must not restore answers, replies and collected
  copies; tables that read each other are complete only together.
* **Durability.** A save is one transaction over four tables, a load three; a
  script that a load runs may load again; the process may die between any two.
* **Limits.** Saturating generations and epochs, caps on functions ever
  emitted, on the counter, on the VMs, on nesting depth, and a window of
  samples that must not be missed by one.

Correctness, component by component: a call finds its frames and its stack as
it left them, and a body that was asked for runs once or never; the ring is the stacks and words that
visit a stack return; a kept answer is the fresh one and a guarded fragment
means what the call means; a compiled body does what the interpreter would; no table answers for a body that is dead; a VM's
holder is told once, truly, and its slot returns; a trip stops one body with
figures no older than itself, and in time; a channel is a queue; a bridge gives its
caller's stack back and leaves none of its own; a query answers what its program
means, no more and no less, and a table is final when it is read; a world holds one
save, whole.

## 2. Modules

Each component has a module of its own; `MC<module>` defines the values of constants
that a cfg cannot write, and `<module>Proofs` its theorems (`StacksProofs` has those of
`Bridge` too, and `ProcessProofs` those of `VmHost`, `OomWatch` and `OomGuard`).

**Frame loop** (`FrameLoop`). `frames` is the list of frames, each with the
values it has left and the stack its exit action returns to; `pending` the tail
request and `requested` its mirror; `rust` the Rust calls in progress, innermost
last: the program, natives, synchronous calls (`eval_lambda`, `scoped_call`,
`apply`, and `apply_filing` for the last value of compiled code) and compiled
bodies. `answer` is what the innermost call has just been given, and a call's
`at` is where in its handler it waits for one, so a handler that calls out is one
action up to the call and one for each way of going on after it. What a value
does is chosen when it is applied: a literal, an unbound name, a context that
switches stacks, a word bound to a lambda, or a native that may switch, call
back, file a request, exit, fail, or do several of these.

**Stacks** (`StackOps`, `Stacks`, `ReferenceRing`). `StackOps` is the type
`Stacks` of `stacks.rs` as a record with one operator per method: `current` is
the stack held out of the map `others`, `order` the ring with the current name
in front, `epoch` and `cell` the counter and its mirror. `Stacks` is a program
over it, one action per word of `stack.rs` and `endcontext`; a word takes its
operands from the current stack, so `Literal` is an action too, and `Refused`
is the word that has pulled operands it cannot use. `CrossBegin` and `CrossEnd`
are the code `lower.rs` emits round a call. `ReferenceRing` is the deque of the
implementation Bund2 follows, as the comments of `stacks.rs` give it;
`BridgesTurnAsReference` says Bund2's ring, turned by one, takes only its steps.

**Bridges** (`Bridge`, over `Stacks`). The lambdas a query runs: `active` are the
bridges in progress, each with its scratch stack and the caller's, `pool` the
scratch names kept per depth, `made` a history of the stacks the program made.
Inside a bridge every word of `Stacks` may be called, on any stack, and another
query's bridge may begin.

**Words** (`WordTable`, `Words`, `Vocabularies`). `WordTable` is the `Registry`: interned
names, slots with their bindings, generations and kept answers, resolution with
the alias chain followed for 65 links, the cycle detector, and `inline_site`.
`Words` is a program that binds, unbinds, saturates and calls, with a compiler
that plans one site and keeps its guard. `Vocabularies` adds the CALL values, which
carry a memo of the symbol their name had in the interpreter that applied them, and
a second interpreter on the thread, empty, a copy of the first or anew, which they
reach: `memo` is what each value says, `other` the second's vocabulary, `fresh` the
counter that hands out keys.

**Tier** (`TierCache`). What a body goes through: counted on entry, earning
code at the threshold, compiled at once or queued while compiled code runs,
entered, demoted, evicted, declined. `heap` is the allocator, which hands an
address out again once nothing holds it; every entry carries as history the
body it was made for, so that a false hit can be told from a true one.

**VM host** (`Promise`, `VmHost`). `Promise` is what the type `Vm` promises:
work ends once, one way, and its holder is told once, which way. `VmHost` is
`Host::spawn` in its separate steps (check, count, start), the thread stage by
stage to its `Finish`, and the handle polled, moved, joined or dropped. It
implements `Promise` (`KeepsPromise`).

**Code generator** (`Natives`, `Tier0`, `Jit`). `Natives` applies one value
(`dispatch`, `apply_step`) and has the natives a code generator must tell apart:
those it may inline, those it may call with values held back, those that read
what they do not take, and those that change what the code relied on. `Tier0` is
the abstract specification: a body run value by value. `Jit` is the code that
`emit_into` lays down for the same body, the plan made of what the compiler saw:
`regs` the numbers held in registers, an inlined site with its guards
(`InlineHeld`, `InlineStack`, `Refused`), a call, a crossed call, the look at the
collecting mode after it (`Back`), the residual that takes over. The operations of
a fragment are run one by one, as the emitter runs them at compile time over
renamed registers. The refinement (`AsTier0`) maps `vm` to the interpreter with what
is held pushed: a value held back must never be missed.

**OOM guard** (`OomWatch`, `OomGuard`). `OomWatch` is the decision: `Watch`
and `Policy` fed any sequence of samples. `OomGuard` extends it with the handshake:
the thread takes a sample and, if the policy trips, stores figures one by one and
raises the flag; VMs (`Takers`) look, swap the flag and load figures one by one; the guard's
`keeper` stops and joins the thread.

**Bus** (`Wire`, `Bus`). `Wire` is what `to_binary` lets through and what
`from_binary` can read, in the four facts about a value that decide it. `Bus`
is `push`, `pull` and `ensure` under the lock: the bytes are made before the
lock is taken and read under it, and `recv` looks and then takes, two steps.

**Worlds** (`WorldData`, `WorldStore`, `World`). `WorldData` says what each family
of data (aliases, lambdas, stacks, scripts, models) makes of a VM and of a file,
what is refused when it is written, and what of a table is kept when it is read:
rows are decoded one by one, in the order of their keys, a stack's items one by one
after the stack has been made, and the first that does not decode ends the load with
what came before it in the VM (`Kept`, `Reached`, `Readable`). What does not decode
is the set `Unreadable`: JSON nested deeper than the reader's parser goes, which save
writes, and bytes an older process left, which it would not; why it is those is the
codec's business (`Wire`). `WorldStore` is the promise: each word reads or writes a world
in one step, a load that cannot read it all as far as it gets. `World` is the code's steps: a file opened by one holder, a save's
tables written one after another into one transaction, a load's families read in
transactions of their own, `bootstrap` holding its file open while its scripts run
(and may call any of these words), a VM that fails, a process that dies between any
two steps. It implements `WorldStore` (`ReadsAndWritesAtOnce`).

**Knowledge bases** (`KbTerms`, `KbDif`, `KbFd`, `KbTables`, `KbSolve`, `KbSaturate`,
`KbReference`). One query, step by step. `KbTerms` is the arena, the trail and
unification, `KbDif` the disequalities that wait on variables, `KbFd` the finite
domains with every propagator, `KbTables` the tables and the completion stack. In
`KbSolve`, `search` is everything a choicepoint takes back; one action runs one goal
(`Call*`, `Do*`), resumes one kind of choicepoint (`Back*`, `Leader*`, `Ask*`), or
stops. A unification with all it wakes is one step, as nothing can come between.
`KbSaturate` adds forward chaining, each round an activation of `KbSolve` as in the
code. `KbReference` says what the answers should be without the engine: the
sequence of solutions a depth-first reading has, and over a finite universe the
well-founded model of the program as a set of ground atoms. What a lambda is to a
query (the values it reads and what it leaves) is given with the program; how it is
run is `Bridge`.

Actions are the handlers of the code, whole. Where a handler has a step at
which another thread may come in (a spawn's check and count, a store and the
flag, the lock) it is as many actions.

## 3. Runs

| Run | Instance | Shows |
|---|---|---|
| `frame_loop` | bodies of two values, four frames, calls seven deep, two stacks, 1.5 million states | `RequestKept`, `OwnFrames`, `BackAgain`, `ExitStops` |
| `bridge` | three stacks of one value, no counts, no workbench, bridges two deep, a compiled call, 247 thousand states | the words that take neither a count, nor two operands, nor the workbench, in any order and with two nested bridges: `OneRing`, `SteadyEpoch`, `OnlyTheProgramsStacks`, `BridgesTurnAsReference`, `CallerBack` |
| `stacks_words` | three stacks of at most three values, five values and capacities in all (three while a context is open or a compiled call in flight), a count of one, workbench of one, 289 thousand states | `VisitorsReturn`, `NothingLost` |
| `words` | three names, aliases with cycles, three writes, generation to 3; two copies of a call, a second interpreter, two keys, 1.0 million states | `CalledByName`, `GuardSound`, `CycleTold` |
| `tier_cache` | four bodies at three addresses, caps of two, compiled bodies two deep | `NoFalseHit`, `EmitsWhenAllowed` |
| `jit` | bodies of up to three values of any of 22 kinds and of four of the seven that hold values, eight interpreters, 1.3 million states | `AsTier0` |
| `vm_host` | two VMs, limit one, two tasks, 51 thousand states | `Bounded`, `FreeOnceFinished`, `KeepsPromise`, and `AlwaysTold` under fairness |
| `oom_guard` | two VMs, two trips, forty units of memory, a floor of four, a window of three, 1.2 million states | `CaughtInWindow`, `InTime`, `OneStopPerTrip`, `FreshFigures`, and `DropEnds` under fairness |
| `bus` | two VMs, two channels, two messages, 1.2 million states | `Delivered`, `Rendezvous`, `OnlyRobbed`, and `LockGivenBack` under fairness |
| `world` | two VMs, two files, two calls and an edit, rows that do not decode, words three deep, 637 thousand states | `RoundTrip`, `ReadsAndWritesAtOnce`, and `WordsEnd` under fairness |
| `kb` | 549 programs, 52 thousand states | `NothingDangles`, `AnswersInOrder`, `AnswersAreTheModel`, `CompleteTables`, `AskedAsALastResort`, `Saturated`, and `QueryEnds` under fairness |
| `kb_domains` | one program | fails: `CompleteTables` (the finding below) |

Each property has a mutant, a plausible bug in one definition that makes its run
fail. The type invariants are not among them: those of the frame loop, the VM host
and the guard are proved (section 4).

### Why the bounds are enough

* *Calls seven deep* let a scoped call run beneath a compiled body beneath a
  native's own run of a body: program, native, call, compiled, filing or apply,
  native, call. *Two values in a body* make one that is the last and one that is
  not; *four frames* put a caller's frame, a shadow frame and the frame of a body
  handed back under one more. Refusals by the memory guard need no bound: any
  start of a body may be refused. Two stacks tell "back" from "where it is", and
  are symmetric.
* *Three stacks* are the fewest in whose ring left and right, and "before" and
  "after", differ; *three values* on one let `swap` take its count and exchange the two below it.
  In `stacks_words` the third stack is the bystander that `VisitorsReturn` must find
  as it was: the limit of five (`MaxLoad`) is the fewest under which it holds a value
  while `swap_in` spends its two operands and exchanges two on the visited stack.
  A capacity counts as a value does.
  A count of one turns a stack of two round; a count of two would leave it as it is.
  The string `"main"` also plays the value of no other type and the marker a fold stops
  at: which value a word moves makes no difference to it. Neither property is about
  contexts or compiled calls, which happen in `stacks_words` with at most three values
  about (`MaxBusyLoad`); `bridge` mixes them with the words of the ring. The words with
  counts, two operands or the workbench never fire in `bridge` and are left to
  `stacks_words`; the proofs of `OneRing` and `SteadyEpoch` are of all of them together.
  The epoch bound of 2 in `bridge` lets the
  counter saturate; `MaxEpoch = 0` in `stacks_words` keeps it out of the way.
* *Three names* make a cycle, a chain into a cycle and a name beside it;
  `MaxGen = 3` saturates, and the writes of a run are enough to reach it.
  `MaxLinks` has its real value, 64. Three keys (`MaxKey`) are the first
  interpreter's, one for the second, and none left when it is made again; two
  copies of one call are one that was applied and one that was not, and symmetric.
* *Bridges two deep* are one within another, each with a pool name of its own and a
  fresh one when the program has taken it; three stacks hold the main one and both
  scratch ones, or two of the program's and one.
* *Three addresses with two in one slot* of the declined table have both a
  collision and a neighbour; four bodies over three addresses reuse one. Caps of
  two fill and overflow. Two compiled bodies nest.
* *Two VMs over a limit of one* compete for a slot, and one ends while the other
  is refused, admitted or counted. The proofs cover more VMs and larger limits;
  the liveness properties concern one VM at a time. Two tasks let a future move.
* *Two trips* let one be stored while another is taken.
* The eleven samples of `oom_guard` lie at 0, just below, at and just above the floor
  and the double fall, far away, and withheld.
* *Bodies of three values* put a value beneath an operation's operands, an operation,
  and what follows it; those of *four* hold two values over a crossed call that takes
  one and run on. The interpreters start empty, with text on top, with numbers, in the
  collecting mode; with the names as the compiler saw them, one bound anew since, or
  the generations at their end. Numbers of three bits (`Half = 4`) wrap; `MaxGen = 2`
  stands for the generation at which counting stops. A lambda that is called looks
  around and binds a name again.
* *Two messages* in one channel show order; two VMs, one robbing the other;
  four levels stand for 256 and two for 128, with values at the bound, one past
  it, JSON at the top and JSON inside.
* *Two files* are the one that is open and another; one of them starts with a world
  that bootstraps the other, and the other is new or bootstraps the first, so a
  circle of scripts is among the runs; *three words deep* is one more than the files,
  which `WordsEnd` shows to be never reached. Two calls are a save and a load, or two
  saves that meet; the edit lets memory differ from the file. One refused value
  stands for all, and so does one that is written and not read; the world an older
  process left has a lambda, a stack's item and a model that do not decode, each
  behind one that does, and a stack behind it that is then never come to.
* The *programs* of `kb` are chosen for what they make meet, in five families: each
  construct with each kind of alternative left behind it (answers compared in order);
  each refusal, the cap and the guard; tables over every directed graph on three
  nodes under left recursion, right recursion and a negation, and all 216 webs of
  three mutually recursive predicates from six clause shapes; each propagator under
  labeling; saturations with and without new facts in a goal's own stratum. Integers
  run over -13..12 for i64, with 200 past any sum of bounds: enough for bounds to
  meet both ends. Three constants make a path that is not an edge and a cycle that is
  not a loop.

### Fairness

* `VmHost`: a thread whose work is over runs to its end, a task that is due
  polls, a joiner takes the answer. The work itself need never end, and `spawn`
  need never be called.
* `OomGuard`: the thread is scheduled, the keeper goes on with its drop, and VMs
  go on starting bodies. The interval between samples is *not* assumed to pass:
  `DropEnds` holds by the unpark alone.
* `Bus`: a VM with the lock goes on (`with_pipes` runs to its end); nothing is
  assumed of who gets it next.
* `World`: a word in progress takes its next step; calls need never be made.
* `Kb`: `run` and `backtrack` are loops of one thread; it steps until it has ended.

### What the failing run shows

`kb_domains`: the variant of a tabled call carries the difs that wait on its
variables and not their domains, but the leader's own call is evaluated with the
domains in force. After `[ in X 1 3 ] [ p X ]` the table of `p` is complete with the
values inside 1..3 alone, and a call `[ p Y ]` of the same activation reads it as
final. `table.rs` says two calls that differ in a constraint do not share a table.

### Observations without a run

* A crossed call may deviate from tier 0 in two ways, and `AsTier0` excepts exactly
  these. If the callee leaves its stack, compiled code reports a fault of its own and
  the values held are lost (`Reported`): the comment in `lower.rs` says so. If the
  callee fails with operands still in place, as a word does that checks its other
  operand first (`+.` on an empty workbench), the values held are pushed above those
  operands and not below (`Disordered`): the same values, in another order, although
  the test of the spill asks that both tiers agree on the stack the program is left
  with. The shipped runtime crosses no call (`bund2-runtime/src/lib.rs`); an embedder
  may through `with_crossable`.

* `drop_stack`: the probe `tests/probes/context-and-drop-stack.bund` says the
  previous stack becomes current; with three stacks or more it is the next one in
  the ring, which is why `BridgesTurnAsReference` leaves drops out.
* `inline_site` refuses an aliased name by asking whether following its aliases ends
  on another name (RFC-0005 says: no alias on the path). `follow` gives up after 65
  links, so in a cycle of 5, 13 or 65 aliases it ends where it began. `GuardSound`
  holds on the instances of `Words`, which have no such cycle (its cfg has three
  names), and its theorem says what it says of a site planned without an alias.
  `CycleTold` is about the check of a new alias alone: no property says what a name in
  such a cycle resolves to.
* A JSON value counts as one level when it is written and is written as its text,
  which the reader's parser refuses past 127 levels, though `wire.rs` says everything
  written is read back: `send` says true and the message is lost at `recv`. `Delivered`
  says it of all else.
* The same loss in a world: `save` writes JSON nested past 127 levels and says it
  succeeded; `load` then fails at it, with the rows before it loaded and everything
  after it (the rest of the stack, the stacks behind it by name) out of reach of
  `load` and `load.stacks`. `RoundTrip` says what a fresh VM has then: a part of what
  was saved, and nothing else. That all is loaded again it says of what decodes.
* `save.lambdas` asks the word table for each name's lambda, and the table answers
  through aliases and not for natives: what is stored under a name is what it means,
  not what is bound to it. `RoundTrip` states what does hold.
* A compiled body that hands another back keeps its shadow frame; if that other body
  is refused, `eval_lambda` and the top level, which do not unwind, leave it above
  their floor. It is at its end and has no exit action, so nothing of it runs.
* `culprit` of `memwatch.rs` charges to this program what other applications took
  since the guard was armed.
* `unify_waking` says nothing stays done on failure; while no variable has a domain it
  leaves the attachments of difs until the search backtracks, which it does at once.
* The figures a VM reports for a trip may be of two trips: they are loaded one by one
  after the flag is down, while the thread may store the next trip's. `FreshFigures`
  states what does hold, that none is older than the trip taken.

## 4. Proofs

All are for every value of the constants, under the assumptions the modules
name (`FrameLoopAssumption`, `NamesAreStrings`, `CountsAreIntegers`, `MaxEpochIsNat`, `WordTableAssumption`,
`WordsAssumption`, `TierAssumption`, `VmHostAssumption`, `OomGuardAssumption`,
`OomWatchAssumption`, `VocabulariesAssumption`, `BusAssumption`, `WireAssumption`,
`WorldDataAssumption`, `WorldAssumption`, `JitAssumption`), which say little more than
that bounds are naturals and that the values of a set are of its kind. `JitAssumption`
also says what the compiler may be told to cross (nothing that leaves a result or looks
at the stack), and that an interpreter's generation of a name is never behind the one the
compiler saw, and is ahead of it if the binding changed, until it stops counting.

* **`FrameLoopProofs`**: `RequestKept`, `OwnFrames`, `ExitStops`,
  `BackAgain`. The invariant says how the Rust calls may sit on one another
  (`Sits`): a native on a call that applies a value, a call on a native or on a
  compiled body, a compiled body on a call that starts one. Their floors rise, so
  what the innermost leaves alone all the others find. The shadow frame is the one
  just above the floor of the innermost compiled body that has called out, which is
  why its cursor is never written below another's floor; a compiled body that has
  not called out has nothing above its floor, which is why a body that fails may
  cut the list there. A request waits only on the way from the native that filed it
  to the loop, the call or the end of the compiled body that takes it. `BackAgain`
  needs more (`HomeInv`): while a call on another stack runs its body, the frame
  just above its floor is the one whose exit action returns, and whatever sits on
  the call has a strictly higher floor. TLC finds both invariants to hold on the
  run's instance with six calls of room.
* **`StacksProofs`**, of programs without bridges and with them: `OneRing`,
  `SteadyEpoch`, and that the epoch moves only when another stack becomes current
  (`EpochExact`). `OneRing` alone is not inductive: an operation may pass through a
  state where the current stack is not the ring's front. The invariant is that the
  multi-stack is `Good` (the ring lists each stack once, its front is the current one,
  which is not in the map, the cell is the epoch), and that whatever a word makes of it
  is a multi-stack it `Reaches`: no step back of the epoch, and a step forward if the
  current stack changed, unless saturated. Each operation has a lemma that it keeps
  both; `Reaches` is transitive, and words are compositions.

  For bridges, `OnlyTheProgramsStacks` and `CallerBack`: the invariant adds
  that the scratch names of the bridges in progress are distinct and that every other
  stack is one the program made. The last two of a bridge's steps may find the ring
  turned, the scratch stack dropped or the caller's dropped by the lambda: `ToStack`
  makes the caller's again, so its lemma is the heart of the proof.

  `VisitorsReturn`: taking the operands, and whatever a word does where it went, changes
  the current stack's items alone (`OnlyCurrent`); going to a stack `Spares` them all
  and makes at most that one, and so does coming back. So every stack but the visited
  one is what the operands left of it, and the names are those there were and the
  visited one's (`VisitIs`). `BridgesTurnAsReference`: the deque is the ring cut one place on
  (`RotateLeft`), so selecting a stack turns both by the same number of places, and a
  new stack goes in front of the one and to the back of the other. A word's whole
  effect on the ring (`TurnsAs`) is then none, one turn, one selection or one creation,
  which are the reference's steps.

  `NothingLost`: the copies of a value are counted by their places, a set of pairs of a
  stack and a position on it. An operation that leaves every stack as it was, wherever it
  is held, keeps the places (`AlikeHeld`: selecting, creating, turning the ring); one that
  gives a stack new items changes the count by what the items differ (`AltersHeld`). So a
  word's account is the sum of its operations': a drain takes away what the push of the
  reversed snapshot brings, the target being the source, another stack or a new one. The
  exchange of `swap` is a count that goes back as far as it went forth: `k` rotations
  right, two places changed, `k` rotations left are the same sequence with two places
  changed (`ThereAndBack`), whatever `k` is. The invariant (`LInv`) adds to the ring that
  each stack and the workbench hold a sequence, so that what is counted is finite; every
  word keeps it, bounded or not.
* **`WordsProofs`**: `CacheSound`, `GuardSound`, `CalledByName`, `CycleTold`. Every writer of the table
  rebinds one slot and touches it, keeps an answer, or pins a generation; the
  invariant (a kept answer of the present epoch is the fresh one, a guarded slot
  is as it was planned) is kept by each of the three. That a walk over the aliases
  visits only slots whose bindings are unchanged needs no induction here, because
  resolution is a function of the bindings alone. `CycleTold` is Floyd's argument: as
  many links as there are slots come back to one of them (the pigeonhole principle),
  the walk goes round from there, and the two walkers meet at a multiple of the
  round's length past its beginning. For `CalledByName` the vocabulary
  only grows, at its end (`Keeps`), and no two vocabularies alive have one key; so a
  memo is true of whichever has its key (`MemoInv`), and a value applied by its memo
  is a step of `Words` (`FirstGoesOn`).
* **`TierCacheProofs`**: `NoFalseHit`, `EmitsWhenAllowed` (from `EmitsWhenIdle` and
  `OffMeansOff`), and `OneAnswer`, `RunsOwnCode`, `QueueWaits`. An entry goes wrong only
  when its address gets a new body, and every entry holds its address; the
  strengthening says so of the running, queued and waiting bodies too, and that
  nothing queued was demoted and nothing waiting declined.
* **`ProcessProofs`**. Of the VM host, `TypeOK`, `Bounded`, `FreeOnceFinished`, `KeepsPromise`,
  `NoWakerLeft`, and `LiveExact`, that the count is the number of slots held,
  which the others rest on. The strengthening says for each stage of a thread what
  is built, stored, done and kept; the bound holds because one owner spawns, and
  between its check and its count threads only lower the count.

  Of the OOM guard's policy, `CaughtInWindow`, `InTime`, and that a trip
  which is not acute ends a full window (`AlwaysFullWindow`). The count is the run of
  critical samples; and when a watched sample did not trip, twice its fall was still to
  spare above the floor. Of the handshake, `GuardOK`, `OneStopPerTrip`, `FreshFigures`;
  and that the composition keeps the policy's promises (`GuardKeepsPolicy`), because
  each of its steps is one of `OomWatch`'s or a stutter (`GuardWatches`). A flag that is
  up is of the newest trip and is in nobody's hands; every trip taken is in one VM's
  hands or spent; and each figure stored is of the newest trip or of the one being
  stored, figures before flag, so what a taker loads is no older than what it took.
* **`BusProofs`**: `Delivered`, `Rendezvous`, `OnlyRobbed`, and that no VM waits for a
  message while it has the lock (`NeverWaitsLocked`). Whoever is past the lock is
  alone; so what `recv` saw under it is there when it takes (`FindsWhatItLookedFor`),
  and a channel is still the rest of what was sent when a message leaves its front. A
  name somebody sent to or asked after has a channel (`KnownAreThere`), and what a VM
  was told of is there until another takes it (`HopeRight`): a step of a VM takes from
  one channel and clears the hopes of all the others for it.
* **`WorldProofs`**: `RoundTrip` and `ReadsAndWritesAtOnce`. `WorldStore` must see a
  save as one step, at its commit, and a load as one, at its last family or at the one
  it fails in: there what its VM holds is what the whole load makes of the data it began
  with, since the families before were read in full and the ones after not at all
  (`LoadAll`). The invariant
  says for each word and each list of steps left to it (`Where`) what its draft holds,
  as a function of its VM's data and its file's tables now, or what its VM holds, as a
  function of the data it began with. That these do not change under it is `OneHolder`
  (a file that is open is open in one word of one VM) and `Below` (only a bootstrap
  that is running its scripts, which has nothing left to read or write, calls others).
  `RoundTrip` is of a file no one has since written in part (`WholeThere`): rows that
  all decode are all kept (`KeptLegible`), and otherwise what is kept of a stack is its
  bottom (`BottomsLoad`), over the main stack that a fresh VM has anyhow.
* **`JitProofs`**: `AsTier0`, that compiled code implements `Tier0`, for every body of any
  length, every interpreter, every width of the numbers and every limit of the
  generations. The invariant says that nothing is held out
  of the code, nor while a body that was called runs (`HeldOnlyInCode`), that the code
  stands at a value only out of the collecting mode and once what it called is over and
  the mode looked at again (`LooksAgain`), that what is held are numbers of the width
  (`Typed`), and that whatever was bound anew since the compiler saw it shows
  (`SeenBy`). Each action then has one lemma: that
  what the interpreter will be once the held values are pushed (`Seen`) stays as it is
  (the entry, a site refused, a stale callee, the look after a call, the return) or is
  what `Tier0` makes of one value (promotion, an inlined site, a call, a callee's body,
  the residual). An inlined site rests on its fragment: the ops run on registers and
  stack come to what the native does on the stack with the held values pushed, which is
  why the guard asks for integers, and for a binding that has not changed. A crossed
  call rests on this: a native of `MayCross` does the same to a stack whatever lies
  beneath its operands, or leaves the stack, or fails; the two exceptions are
  the deviations that `AsTier0` names. TLC finds the invariant to hold on the run's
  instance.

Facts about recursive functions (the walks over aliases, the rotations of `swap`, a push of
many values) are had without the library's induction theorems: subsets of a finite kind are
well founded under inclusion (`FS_StrictSubsetOrderingWellFounded`, `WFMin`), so a set of
naturals has a least element (`LeastNumber`), and what fails somewhere has a least place
where it fails. That the function is the one its equation defines is had the same way: there
is one up to the least number without, and it goes one further (`IteratesExist`).

Only model-checked: the liveness properties (`AlwaysTold`, `DropEnds`,
`LockGivenBack`, `WordsEnd`, `QueryEnds`), which are beyond the prover; and the
invariants of the knowledge bases (`NothingDangles`, `AnswersInOrder`,
`AnswersAreTheModel`, `CompleteTables`, `AskedAsALastResort`, `Saturated`). Their
modules are built on recursive operators over terms, which the prover cannot take, and
what they say is by induction on terms and derivations, which it cannot take either.

## 5. What is not modelled, and why

*Left out of the modelled components.* Frame loop: the debugger's stops, the
profiler, the effect audit, the kept traceback and the runners' names; natives
that call back after filing a request, of which the repository has none, so
`push_frame` is never entered with another's request waiting; and
`drain_tail_request`, which only a compiled call site of no shipped word reaches.
Stacks: none of the words; values are told
apart only as names, integers, the fold marker and others. Word table: the tables
of variables, methods, conditionals and help; of a second interpreter all but its names;
the binding epoch and the registration id do not wrap. Tier: replacing the tier,
the code's own failures (a floor that declines is an entry and a return), the
statistics. VM host: a poisoned lock, options handed through. OOM guard: parsing
the environment, reading the host's figures; a kernel level of warning is treated
as normal, as the code does. Bus: operand checks and `--noio`, which leave the bus
alone, and a poisoned lock. Bridges: the substitution of variables in a lambda.
Worlds: operand casts, the cleaning of a world's name, `alias.get`, the capacities of
stacks (a load onto a full stack drops as any push does), and which values decode,
which is given (`Unreadable`; the codec itself is in `Wire`). Knowledge bases:
proofs, call counts and warnings, the domains an answer reports, a trip of the guard
inside a propagation (one at the next inference is modelled), integers past i128
(refused as too big), and the names saturation gives to unnamed variables; the
names of its views are given with each program.

Code generator: which machine code a step is, the thunks and where they lie, the
bench's unguarded forms; of the arithmetic fragments `+`, `-` and `<` (`*` and the
other comparisons differ in the operation alone); floats, matrices, JSON and
metrics as operands.

*Left to later*, after the plan below: values' identity, the debugger, the
profiler, the fragments of a body.

*Out of scope*: the parser, the data words and the graph algorithms, which are
sequential functions with their own goldens; terminal, HTTP, host and command
line words, which are I/O; benchmarks, `xtask` and editor support.

## 6. Plan

In order of what matters most, each with the abstract specification it should
implement and the theorem worth proving:

1. An abstract nesting of calls, in which a tail replaces its caller and each call
   ends once, that `FrameLoop` implements.
2. `Process`: `VmHost`, `Bus` and `OomGuard` composed, VMs that end with messages
   waiting and trips pending.
