----------------------------- MODULE WorldStore -----------------------------
(***************************************************************************)
(* What the world words promise: each of them reads or writes its world in *)
(* one step.  A save is all there or has not happened, whatever is refused *)
(* and whenever the process dies; a load takes everything from one version *)
(* of the world, or all that comes before what cannot be read in it.       *)
(* Which word a VM is in tells the steps of one from those                 *)
(* of another: save replaces every family at once, never one by one.       *)
(***************************************************************************)
EXTENDS WorldData

CONSTANTS
  VMs, Files,
  Worlds(_)   \* the tables that earlier processes may have left in a file

VARIABLES
  memory,   \* the data of each VM
  store,    \* the tables of each world file
  asked     \* for each VM, the world words it is in, outermost first

Init ==
  /\ memory = [v \in VMs |-> NewVm]
  /\ store \in [Files -> UNION {Worlds(f) : f \in Files}]
  /\ \A f \in Files : store[f] \in Worlds(f)
  /\ asked = [v \in VMs |-> <<>>]

Within(v, words) == asked[v] # <<>> /\ asked[v][Len(asked[v])] \in words

(* A word called, returned from, or failed.                                *)
Ask(v) ==
  /\ asked' = [asked EXCEPT ![v] = asked'[v]]
  /\ UNCHANGED <<memory, store>>

(* One word of a program at work: a lambda or an alias bound, an alias     *)
(* unbound, a value pushed or pulled, a stack dropped.                     *)
OneWord(d, e) ==
  \/ \E n \in DOMAIN e.lambdas : e = [d EXCEPT !.lambdas = Bind(@, n, e.lambdas[n])]
  \/ \E n \in DOMAIN e.aliases : e = [d EXCEPT !.aliases = Bind(@, n, e.aliases[n])]
  \/ \E n \in DOMAIN d.aliases : e = [d EXCEPT !.aliases = Without(@, n)]
  \/ \E n \in DOMAIN d.stacks : e = [d EXCEPT !.stacks = Without(@, n)]
  \/ \E n \in DOMAIN e.stacks :
       LET was == ItemsOf(d, n)
           is == e.stacks[n]
       IN /\ e = [d EXCEPT !.stacks = Bind(@, n, is)]
          /\ is \in {was} \cup {Append(was, is[i]) : i \in {Len(is)} \ {0}}
                 \cup {SubSeq(was, 1, Len(was) - 1) : i \in {1} \cap DOMAIN was}

Compute(v) ==
  /\ OneWord(memory[v], memory'[v])
  /\ memory' = [memory EXCEPT ![v] = memory'[v]]
  /\ UNCHANGED <<store, asked>>

(* One family replaced, the others left alone.                             *)
SaveFamily(v, f, family) ==
  /\ Within(v, {Saver(family)}) /\ Writable(memory[v], family)
  /\ store' = [store EXCEPT ![f][family] = {Written(memory[v], family)}]
  /\ UNCHANGED <<memory, asked>>

(* The whole VM, and no script any more (F148).                            *)
Save(v, f) ==
  /\ Within(v, {"save"})
  /\ \A family \in Families : Writable(memory[v], family)
  /\ store' = [store EXCEPT ![f] =
       [family \in DOMAIN @ |->
          IF family \in Families THEN {Written(memory[v], family)}
          ELSE IF family = "scripts" THEN {NoEntry} ELSE @[family]]]
  /\ UNCHANGED <<memory, asked>>

SaveScript(v, f) ==
  /\ Within(v, {"save.script"}) /\ Has(store[f].scripts)
  /\ \E n \in DOMAIN In(store'[f].scripts) :
       store' = [store EXCEPT ![f].scripts = {Bind(In(@), n, In(store'[f].scripts)[n])}]
  /\ UNCHANGED <<memory, asked>>

SaveModel(v, f) ==
  LET rows == IF Has(store[f].models) THEN In(store[f].models) ELSE <<>>
      new == In(store'[f].models)
  IN /\ Within(v, {"save.model"})
     /\ Has(store'[f].models) /\ new # <<>> /\ new[Len(new)] \notin Refused
     /\ store' = [store EXCEPT ![f].models = {Append(rows, new[Len(new)])}]
     /\ UNCHANGED <<memory, asked>>

(* A load that cannot read all it asks for fails the words v is in, and    *)
(* keeps what it read before.                                              *)
FailUnless(v, sound) == asked' = IF sound THEN asked ELSE [asked EXCEPT ![v] = <<>>]

LoadFamily(v, f, family) ==
  /\ Within(v, {Loader(family)})
  /\ memory' = [memory EXCEPT ![v] = Taken(@, family, store[f])]
  /\ FailUnless(v, Sound(family, store[f])) /\ UNCHANGED store

Load(v, f) ==
  /\ Within(v, {"load", "bootstrap"})
  /\ memory' = [memory EXCEPT ![v] = LoadAll(@, store[f])]
  /\ FailUnless(v, \A family \in Families : Sound(family, store[f])) /\ UNCHANGED store

(* Every model the world has, in the order they were saved.                *)
LoadModels(v, f) ==
  LET rows == IF Has(store[f].models) THEN In(store[f].models) ELSE <<>>
  IN /\ Within(v, {"load.model"})
     /\ \E n \in DOMAIN memory[v].stacks :
          memory' = [memory EXCEPT ![v].stacks[n] = @ \o Readable(rows)]
     /\ FailUnless(v, rows # <<>> /\ Decodes("stacks", rows)) /\ UNCHANGED store

(* The process ends, and what it had in memory with it.                    *)
Restart ==
  /\ memory' = [v \in VMs |-> NewVm]
  /\ asked' = [v \in VMs |-> <<>>]
  /\ UNCHANGED store

Next ==
  \/ Restart
  \/ \E v \in VMs : Ask(v) \/ Compute(v)
  \/ \E v \in VMs, f \in Files :
       \/ Save(v, f) \/ SaveScript(v, f) \/ SaveModel(v, f)
       \/ Load(v, f) \/ LoadModels(v, f)
       \/ \E family \in Families : SaveFamily(v, f, family) \/ LoadFamily(v, f, family)

Spec == Init /\ [][Next]_<<memory, store, asked>>
=============================================================================
