------------------------------- MODULE World --------------------------------
(***************************************************************************)
(* The words that save a VM to a world file and load it from one           *)
(* (crates/bund2-stdlib/src/world.rs), run by the VMs of one process.      *)
(*                                                                         *)
(* A word opens its file, which redb lets one holder have at a time, and   *)
(* keeps it open until it returns.  It then takes the steps of Todo one by *)
(* one: the families of a save are written into the draft of one write     *)
(* transaction and the file changes when that commits; a load reads each   *)
(* family in a transaction of its own and works on the VM at once.         *)
(* bootstrap runs the scripts of a world while it holds the file open, and *)
(* a script may use any word, so the words of a VM nest.  A word that      *)
(* fails fails those around it.  The process may die between any two       *)
(* steps, which loses the VMs and every open transaction.                  *)
(*                                                                         *)
(* whole is a history: the data that the last save wrote to a file, as     *)
(* long as no other word has replaced a part of it.                        *)
(***************************************************************************)
EXTENDS WorldData, FiniteSets

CONSTANTS
  VMs, Files,
  Worlds(_),     \* the tables that earlier processes may have left in a file
  Bodies,        \* what a lambda may be bound to
  Values,        \* what a stack may hold
  StackNames,    \* the stacks a program makes
  Texts,         \* the sources of scripts
  Does(_),       \* what running one does: [word, file], an edit or a failure
  ScriptNames,
  MaxEdits,      \* bound: edits of VMs by programs
  MaxCalls,      \* bound: world words called by programs
  MaxFrames      \* bound: world words nested in one another

VARIABLES
  vm,       \* the data of each VM
  file,     \* the committed tables of each world file
  frames,   \* for each VM, the world words it is in, outermost first
  whole,
  edits, calls

vars == <<vm, file, frames, whole, edits, calls>>

Savers == {"save", "save.aliases", "save.lambdas", "save.stacks", "save.script", "save.model"}
Loaders == {"load", "load.aliases", "load.lambdas", "load.stacks", "bootstrap",
            "load.script", "load.model"}
Words == Savers \cup Loaders

(* A world left by another process has tables of such data as VMs have,    *)
(* and may hold bodies that this process does not read.                    *)
IsPartial(f, X, Y) == DOMAIN f \subseteq X /\ f \in [DOMAIN f -> Y]
IsWorld(w) ==
  /\ w = [aliases |-> w.aliases, lambdas |-> w.lambdas, stacks |-> w.stacks,
          scripts |-> w.scripts, models |-> w.models]
  /\ \A c \in w.aliases : IsPartial(c, Names, Names)
  /\ \A c \in w.lambdas : IsPartial(c, Names, Bodies \cup Unreadable)
  /\ \A c \in w.stacks : IsPartial(c, StackNames \cup {Main}, Seq(Values \cup Texts))
  /\ \A c \in w.scripts : IsPartial(c, ScriptNames, Texts) /\ IsFiniteSet(DOMAIN c)
  /\ \A c \in w.models : c \in Seq(Values)

ASSUME WorldAssumption ==
  /\ \A S \in {Names, StackNames \cup {Main}} : \A n, m \in S :
       Rank(n) \in Int /\ (Rank(n) = Rank(m) => n = m)
  /\ \A f \in Files : \A w \in Worlds(f) : IsWorld(w)
  /\ \A t \in Texts : IF Does(t).word = "edit" THEN Does(t).name \in Names /\ Does(t).body \in Bodies
                     ELSE Does(t).word \in Words => Does(t).file \in Files

(* Mutated: each family in a transaction of its own. *)
SaveSteps_PerFamily ==
  <<"aliases", "commit", "lambdas", "commit", "stacks", "commit", "prime", "commit">>

(* One transaction for all four steps (D167).                              *)
SaveSteps == <<"aliases", "lambdas", "stacks", "prime", "commit">>

Todo(word) ==
  CASE word = "save" -> SaveSteps
    [] word = "save.aliases" -> <<"aliases", "commit">>
    [] word = "save.lambdas" -> <<"lambdas", "commit">>
    [] word = "save.stacks" -> <<"stacks", "commit">>
    [] word = "save.script" -> <<"primed", "script", "commit">>
    [] word = "save.model" -> <<"model", "commit">>
    [] word = "load" -> <<"aliases", "lambdas", "stacks">>
    [] word = "load.aliases" -> <<"aliases">>
    [] word = "load.lambdas" -> <<"lambdas">>
    [] word = "load.stacks" -> <<"stacks">>
    [] word = "bootstrap" -> <<"aliases", "lambdas", "stacks", "scripts", "run">>
    [] word = "load.script" -> <<"fetch">>
    [] word = "load.model" -> <<"models">>

Top(v) == frames[v][Len(frames[v])]
Step(v) == Head(Top(v).todo)
At(v, steps) == frames[v] # <<>> /\ Top(v).todo # <<>> /\ Step(v) \in steps

(* Mutated: bootstrap closes its world before it runs the scripts. *)
Open_NotScripts(f) ==
  \E v \in VMs : \E i \in DOMAIN frames[v] : frames[v][i].file = f /\ frames[v][i].todo # <<"run">>

(* Is the file open, in any word of any VM?                                *)
Open(f) == \E v \in VMs : \E i \in DOMAIN frames[v] : frames[v][i].file = f

Init ==
  /\ vm = [v \in VMs |-> NewVm]
  /\ file \in [Files -> UNION {Worlds(f) : f \in Files}]
  /\ \A f \in Files : file[f] \in Worlds(f)
  /\ frames = [v \in VMs |-> <<>>]
  /\ whole = [f \in Files |-> {}]
  /\ edits = 0
  /\ calls = 0

-----------------------------------------------------------------------------
(* The way in and out of a word.                                           *)

(* fs are the frames of v before the call.  A write transaction begins     *)
(* from the tables as they are; before is a history.                       *)
OpenWorld(v, fs, word, f) ==
  /\ Len(fs) < MaxFrames
  /\ frames' = [frames EXCEPT ![v] =
       IF Open(f) THEN <<>>
       ELSE Append(fs, [word |-> word, file |-> f, todo |-> Todo(word), texts |-> <<>>,
                        draft |-> IF word \in Savers THEN file[f] ELSE NoTable,
                        before |-> IF word \in Savers THEN NewVm ELSE vm[v]])]

Fail(v) ==
  /\ frames' = [frames EXCEPT ![v] = <<>>]
  /\ UNCHANGED <<file, whole>>

Advance(v) ==
  frames' = [frames EXCEPT ![v][Len(frames[v])].todo = Tail(@)]

WithDraft(v, d) ==
  frames' = [frames EXCEPT ![v][Len(frames[v])] = [Top(v) EXCEPT !.todo = Tail(@), !.draft = d]]

Return(v) ==
  /\ frames[v] # <<>> /\ Top(v).todo = <<>>
  /\ frames' = [frames EXCEPT ![v] = SubSeq(@, 1, Len(@) - 1)]
  /\ UNCHANGED <<vm, file, whole, edits, calls>>

-----------------------------------------------------------------------------
(* The steps of a saver.                                                   *)

WriteFamily(v) ==
  /\ At(v, Families) /\ Top(v).word \in Savers
  /\ IF Writable(vm[v], Step(v))
     THEN /\ WithDraft(v, [Top(v).draft EXCEPT ![Step(v)] = {Written(vm[v], Step(v))}])
          /\ UNCHANGED <<file, whole>>
     ELSE Fail(v)
  /\ UNCHANGED <<vm, edits, calls>>

PrimeBootstrap(v) ==
  /\ At(v, {"prime"})
  /\ WithDraft(v, [Top(v).draft EXCEPT !.scripts = {NoEntry}])
  /\ UNCHANGED <<vm, file, whole, edits, calls>>

(* save.script reads first whether a save has made the table.              *)
IsPrimed(v) ==
  /\ At(v, {"primed"})
  /\ IF Has(file[Top(v).file].scripts) THEN Advance(v) /\ UNCHANGED <<file, whole>> ELSE Fail(v)
  /\ UNCHANGED <<vm, edits, calls>>

WriteScript(v) ==
  /\ At(v, {"script"})
  /\ \E n \in ScriptNames, t \in Texts :
       WithDraft(v, [Top(v).draft EXCEPT !.scripts = {Bind(In(@), n, t)}])
  /\ UNCHANGED <<vm, file, whole, edits, calls>>

WriteModel(v) ==
  LET rows == IF Has(Top(v).draft.models) THEN In(Top(v).draft.models) ELSE <<>>
  IN /\ At(v, {"model"})
     /\ \E x \in Values :
          IF x \in Refused THEN Fail(v)
          ELSE WithDraft(v, [Top(v).draft EXCEPT !.models = {Append(rows, x)}]) /\ UNCHANGED <<file, whole>>
     /\ UNCHANGED <<vm, edits, calls>>

Commit(v) ==
  LET f == Top(v).file
  IN /\ At(v, {"commit"})
     /\ file' = [file EXCEPT ![f] = Top(v).draft]
     /\ whole' = [whole EXCEPT ![f] =
          CASE Top(v).word = "save" -> IF Len(Top(v).todo) = 1 THEN {vm[v]} ELSE {}
            [] Top(v).word \in {"save.aliases", "save.lambdas", "save.stacks"} -> {}
            [] OTHER -> @]
     /\ Advance(v)
     /\ UNCHANGED <<vm, edits, calls>>

-----------------------------------------------------------------------------
(* The steps of a loader.  A table that nothing has created is an error    *)
(* (F178), and so is a row that does not decode; each leaves what was      *)
(* loaded before it, the earlier rows of the same table included.          *)

ReadFamily(v) ==
  LET world == file[Top(v).file]
  IN /\ At(v, Families) /\ Top(v).word \in Loaders
     /\ vm' = [vm EXCEPT ![v] = Taken(@, Step(v), world)]
     /\ IF Sound(Step(v), world) THEN Advance(v) /\ UNCHANGED <<file, whole>> ELSE Fail(v)
     /\ UNCHANGED <<edits, calls>>

(* The values land on the current stack, whichever that is.                *)
PushEach(v, q) ==
  \E n \in DOMAIN vm[v].stacks : vm' = [vm EXCEPT ![v].stacks[n] = @ \o q]

(* No model is an error, and one that does not decode, which leaves those  *)
(* before it on the stack.                                                 *)
ReadModels(v) ==
  LET table == file[Top(v).file].models
      rows == IF Has(table) THEN In(table) ELSE <<>>
  IN /\ At(v, {"models"})
     /\ PushEach(v, Readable(rows))
     /\ IF rows # <<>> /\ Decodes("stacks", rows) THEN Advance(v) /\ UNCHANGED <<file, whole>> ELSE Fail(v)
     /\ UNCHANGED <<edits, calls>>

(* load.script pushes the text and does not run it.                        *)
FetchScript(v) ==
  LET table == file[Top(v).file].scripts
  IN /\ At(v, {"fetch"})
     /\ \E n \in ScriptNames :
          IF Has(table) /\ n \in DOMAIN In(table)
          THEN PushEach(v, <<In(table)[n]>>) /\ Advance(v) /\ UNCHANGED <<file, whole>>
          ELSE Fail(v) /\ UNCHANGED vm
     /\ UNCHANGED <<edits, calls>>

(* In name order, which decides nothing here but the order of the scripts. *)
Listed(table) ==
  {q \in [1 .. Cardinality(DOMAIN table) -> DOMAIN table] : \A i, j \in DOMAIN q : q[i] = q[j] => i = j}

ReadScripts(v) ==
  LET table == file[Top(v).file].scripts
  IN /\ At(v, {"scripts"})
     /\ IF Has(table)
        THEN /\ \E q \in Listed(In(table)) :
                  frames' = [frames EXCEPT ![v][Len(frames[v])] =
                    [Top(v) EXCEPT !.todo = Tail(@), !.texts = [i \in DOMAIN q |-> In(table)[q[i]]]]]
             /\ UNCHANGED <<file, whole>>
        ELSE Fail(v)
     /\ UNCHANGED <<vm, edits, calls>>

-----------------------------------------------------------------------------
(* Programs.                                                               *)

(* One word of v that is not a word of a world.                            *)
Edit(v) ==
  \/ \E n \in Names, b \in Bodies : vm' = [vm EXCEPT ![v].lambdas = Bind(@, n, b)]
  \/ \E n, m \in Names : n # m /\ vm' = [vm EXCEPT ![v].aliases = Bind(@, n, m)]
  \/ \E n \in DOMAIN vm[v].aliases : vm' = [vm EXCEPT ![v].aliases = Without(@, n)]
  \/ \E n \in StackNames, x \in Values :
       vm' = [vm EXCEPT ![v].stacks = Bind(@, n, Append(ItemsOf(vm[v], n), x))]
  \/ \E n \in StackNames : vm' = [vm EXCEPT ![v].stacks = Bind(@, n, ItemsOf(vm[v], n))]
  \/ \E n \in DOMAIN vm[v].stacks :
       DOMAIN vm[v].stacks # {n} /\ vm' = [vm EXCEPT ![v].stacks = Without(@, n)]

Program(v) ==
  /\ frames[v] = <<>>
  /\ edits < MaxEdits /\ edits' = edits + 1
  /\ Edit(v)
  /\ UNCHANGED <<file, frames, whole, calls>>

Call(v) ==
  /\ frames[v] = <<>>
  /\ calls < MaxCalls /\ calls' = calls + 1
  /\ \E word \in Words, f \in Files : OpenWorld(v, <<>>, word, f)
  /\ UNCHANGED <<vm, file, whole, edits>>

(* bootstrap evaluates the next script, with its world still open.         *)
RunScript(v) ==
  LET t == Top(v)
      next == Does(Head(t.texts))
      rest == [frames[v] EXCEPT ![Len(frames[v])].texts = Tail(@)]
  IN /\ At(v, {"run"})
     /\ \/ t.texts = <<>> /\ Advance(v) /\ UNCHANGED vm
        \/ /\ t.texts # <<>> /\ next.word = "edit"
           /\ vm' = [vm EXCEPT ![v].lambdas = Bind(@, next.name, next.body)]
           /\ frames' = [frames EXCEPT ![v] = rest]
        \/ /\ t.texts # <<>> /\ next.word = "fail"
           /\ frames' = [frames EXCEPT ![v] = <<>>] /\ UNCHANGED vm
        \/ /\ t.texts # <<>> /\ next.word \in Words
           /\ OpenWorld(v, rest, next.word, next.file) /\ UNCHANGED vm
     /\ UNCHANGED <<file, whole, edits, calls>>

Crash ==
  /\ vm' = [v \in VMs |-> NewVm]
  /\ frames' = [v \in VMs |-> <<>>]
  /\ UNCHANGED <<file, whole, edits, calls>>

(* A step of the word that v is in.                                        *)
InWord(v) ==
  \/ WriteFamily(v) \/ PrimeBootstrap(v) \/ IsPrimed(v) \/ WriteScript(v) \/ WriteModel(v)
  \/ Commit(v) \/ ReadFamily(v) \/ ReadModels(v) \/ FetchScript(v) \/ ReadScripts(v)
  \/ RunScript(v) \/ Return(v)

Next == Crash \/ \E v \in VMs : Program(v) \/ Call(v) \/ InWord(v)

Spec == Init /\ [][Next]_vars /\ \A v \in VMs : WF_vars(InWord(v))

-----------------------------------------------------------------------------
(* Properties.                                                             *)

(* Each word reads or writes its world in one step, as WorldStore has it:  *)
(* a save that is refused half way, that fails, or that the process dies   *)
(* in, leaves the world as it was (world.rs: "the file is as it was",      *)
(* D167); the three transactions of a load see one version of the world,   *)
(* and one that meets a row it cannot decode keeps just the rows of that   *)
(* version that come before it.                                            *)
(* While a load has families to read, memory is what it was before.        *)
Loading(v) == At(v, Families) /\ Top(v).word \in Loaders

Store == INSTANCE WorldStore
  WITH memory <- [v \in VMs |-> IF Loading(v) THEN Top(v).before ELSE vm[v]],
       store <- file,
       asked <- [v \in VMs |-> [i \in DOMAIN frames[v] |-> frames[v][i].word]]

ReadsAndWritesAtOnce == Store!Spec

(* A VM that starts afresh and loads what save wrote has the aliases of    *)
(* the VM that saved, and, when all that was written can be read, its      *)
(* stacks, with the main one it starts with should that not be among them; *)
(* and a name whose aliases end at a lambda runs that lambda.              *)
(* When something cannot be read (world.rs: "Error converting from         *)
(* binary"; save writes JSON nested deeper than the reader goes), load     *)
(* fails with part of what was saved and nothing else: each stack it made  *)
(* holds the bottom of the saved one, and a name runs its lambda or none.  *)
(* Two cases are left out: a lambda bound to the name of a native is not   *)
(* saved (lambda_names), and in a circle of aliases the name reached       *)
(* depends on where one enters it.                                         *)
Ends(d, n) == Target(d, n) \notin Natives \cup DOMAIN d.aliases

RoundTrip ==
  \A f \in Files : \A d \in whole[f] :
    LET e == LoadAll(NewVm, file[f])
    IN /\ e.aliases = d.aliases
       /\ DOMAIN e.stacks \subseteq DOMAIN d.stacks \cup {Main}
       /\ \A n \in DOMAIN e.stacks :
            \E k \in 0 .. Len(ItemsOf(d, n)) : e.stacks[n] = SubSeq(ItemsOf(d, n), 1, k)
       /\ \A n \in Names : Ends(d, n) => LambdaOf(e, n) \subseteq LambdaOf(d, n)
       /\ (\A family \in Families : Legible(family, Written(d, family)))
            => /\ e.stacks = Over(d.stacks, NewVm.stacks)
               /\ \A n \in Names : Ends(d, n) => LambdaOf(e, n) = LambdaOf(d, n)

(* A word that is called returns, although the scripts that bootstrap runs *)
(* may bootstrap again, any world and their own: the file that is open     *)
(* refuses them, so words nest no deeper than there are worlds.            *)
WordsEnd == \A v \in VMs : frames[v] # <<>> ~> frames[v] = <<>>

=============================================================================
