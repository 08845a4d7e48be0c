---------------------------- MODULE WorldProofs -----------------------------
(***************************************************************************)
(* That the words of World do what WorldStore promises, one step each, and *)
(* that what a save wrote loads as what was saved.                         *)
(*                                                                         *)
(* A file that is open has one holder, so that while a word is at work     *)
(* neither its file nor its VM changes under it, and at each of the steps  *)
(* left to it one can say what its draft holds or what it has loaded.      *)
(***************************************************************************)
EXTENDS World, TLAPS, FiniteSetTheorems, WellFoundedInduction

-----------------------------------------------------------------------------
(* The inductive invariant.                                                *)

Held == Values \cup Texts
Partial(X, Y) == UNION {[Z -> Y] : Z \in SUBSET X}
Aliases == Partial(Names, Names)
Lambdas == Partial(Names, Bodies)
OnStacks == StackNames \cup {Main}
Stacks == Partial(OnStacks, Seq(Held))
LambdaRows == Partial(Names, Bodies \cup Unreadable)
Scripts == {c \in Partial(ScriptNames, Texts) : IsFiniteSet(DOMAIN c)}
VmData == [aliases : Aliases, lambdas : Lambdas, stacks : Stacks]
Tables == [aliases : SUBSET Aliases, lambdas : SUBSET LambdaRows, stacks : SUBSET Stacks,
           scripts : SUBSET Scripts, models : SUBSET Seq(Values)]

(* What may be left to do of a word.                                       *)
ToCommit == <<"commit">>
Save2 == <<"prime", "commit">>
Save3 == <<"stacks", "prime", "commit">>
Save4 == <<"lambdas", "stacks", "prime", "commit">>
JustAliases == <<"aliases", "commit">>
JustLambdas == <<"lambdas", "commit">>
JustStacks == <<"stacks", "commit">>
Script2 == <<"script", "commit">>
Script3 == <<"primed", "script", "commit">>
JustModel == <<"model", "commit">>
Load1 == <<"stacks">>
Load2 == <<"lambdas", "stacks">>
Load3 == <<"aliases", "lambdas", "stacks">>
LoadAliases == <<"aliases">>
LoadLambdas == <<"lambdas">>
ToRun == <<"run">>
Boot2 == <<"scripts", "run">>
Boot3 == <<"stacks", "scripts", "run">>
Boot4 == <<"lambdas", "stacks", "scripts", "run">>
Boot5 == <<"aliases", "lambdas", "stacks", "scripts", "run">>
ToFetch == <<"fetch">>
ToModels == <<"models">>

Ways == {SaveSteps, Save4, Save3, Save2, ToCommit, JustAliases, JustLambdas, JustStacks,
         Script3, Script2, JustModel, Load3, Load2, Load1, LoadAliases, LoadLambdas,
         Boot5, Boot4, Boot3, Boot2, ToRun, ToFetch, ToModels, <<>>}

Frame == [word : Words, file : Files, todo : Ways, texts : Seq(Texts),
          draft : Tables, before : VmData]

TypeInv ==
  /\ vm \in [VMs -> VmData]
  /\ file \in [Files -> Tables]
  /\ frames \in [VMs -> Seq(Frame)]
  /\ whole \in [Files -> SUBSET VmData]

(* What a saver t of a VM with the data d has drafted, from the tables b.  *)
WithAliases(b, d) == [b EXCEPT !.aliases = {Written(d, "aliases")}]
WithLambdas(b, d) == [b EXCEPT !.lambdas = {Written(d, "lambdas")}]
WithStacks(b, d) == [b EXCEPT !.stacks = {Written(d, "stacks")}]

SaveAt(t, d, b) ==
  \/ t.todo = SaveSteps /\ t.draft = b
  \/ t.todo = Save4 /\ t.draft = WithAliases(b, d)
  \/ t.todo = Save3 /\ Writable(d, "lambdas") /\ t.draft = WithLambdas(WithAliases(b, d), d)
  \/ /\ t.todo = Save2 /\ Writable(d, "lambdas") /\ Writable(d, "stacks")
     /\ t.draft = WithStacks(WithLambdas(WithAliases(b, d), d), d)
  \/ /\ t.todo = ToCommit /\ Writable(d, "lambdas") /\ Writable(d, "stacks")
     /\ t.draft = [WithStacks(WithLambdas(WithAliases(b, d), d), d) EXCEPT !.scripts = {NoEntry}]

SaveAliasesAt(t, d, b) ==
  \/ t.todo = JustAliases /\ t.draft = b
  \/ t.todo = ToCommit /\ t.draft = WithAliases(b, d)

SaveLambdasAt(t, d, b) ==
  \/ t.todo = JustLambdas /\ t.draft = b
  \/ t.todo = ToCommit /\ Writable(d, "lambdas") /\ t.draft = WithLambdas(b, d)

SaveStacksAt(t, d, b) ==
  \/ t.todo = JustStacks /\ t.draft = b
  \/ t.todo = ToCommit /\ Writable(d, "stacks") /\ t.draft = WithStacks(b, d)

WithScript(t, b) ==
  \E n \in ScriptNames, x \in Texts : t.draft = [b EXCEPT !.scripts = {Bind(In(@), n, x)}]
SaveScriptAt(t, b) ==
  \/ t.todo = Script3 /\ t.draft = b
  \/ t.todo = Script2 /\ Has(b.scripts) /\ t.draft = b
  \/ t.todo = ToCommit /\ Has(b.scripts) /\ WithScript(t, b)

ModelRows(b) == IF Has(b.models) THEN In(b.models) ELSE <<>>
WithModel(t, b) ==
  \E x \in Values \ Refused : t.draft = [b EXCEPT !.models = {Append(ModelRows(b), x)}]
SaveModelAt(t, b) ==
  \/ t.todo = JustModel /\ t.draft = b
  \/ t.todo = ToCommit /\ WithModel(t, b)

(* What a loader of a VM with the data d has loaded, from the tables b.    *)
AfterAliases(t, b) == Taken(t.before, "aliases", b)
AfterLambdas(t, b) == Taken(AfterAliases(t, b), "lambdas", b)

LoadAt(t, d, b) ==
  \/ t.todo = Load3 /\ d = t.before
  \/ t.todo = Load2 /\ Sound("aliases", b) /\ d = AfterAliases(t, b)
  \/ t.todo = Load1 /\ Sound("aliases", b) /\ Sound("lambdas", b) /\ d = AfterLambdas(t, b)

BootstrapAt(t, d, b) ==
  \/ t.todo = Boot5 /\ d = t.before
  \/ t.todo = Boot4 /\ Sound("aliases", b) /\ d = AfterAliases(t, b)
  \/ t.todo = Boot3 /\ Sound("aliases", b) /\ Sound("lambdas", b) /\ d = AfterLambdas(t, b)
  \/ t.todo = Boot2
  \/ t.todo = ToRun

At1(t, d, b) ==
  \/ t.todo = <<>>
  \/ t.word = "save" /\ SaveAt(t, d, b)
  \/ t.word = "save.aliases" /\ SaveAliasesAt(t, d, b)
  \/ t.word = "save.lambdas" /\ SaveLambdasAt(t, d, b)
  \/ t.word = "save.stacks" /\ SaveStacksAt(t, d, b)
  \/ t.word = "save.script" /\ SaveScriptAt(t, b)
  \/ t.word = "save.model" /\ SaveModelAt(t, b)
  \/ t.word = "load" /\ LoadAt(t, d, b)
  \/ t.word = "bootstrap" /\ BootstrapAt(t, d, b)
  \/ t.word = "load.aliases" /\ t.todo = LoadAliases /\ d = t.before
  \/ t.word = "load.lambdas" /\ t.todo = LoadLambdas /\ d = t.before
  \/ t.word = "load.stacks" /\ t.todo = Load1 /\ d = t.before
  \/ t.word = "load.script" /\ t.todo = ToFetch
  \/ t.word = "load.model" /\ t.todo = ToModels

Where == \A v \in VMs : frames[v] # <<>> => At1(Top(v), vm[v], file[Top(v).file])

(* A word that has called others is a bootstrap running its scripts.       *)
Below ==
  \A v \in VMs : \A i \in DOMAIN frames[v] :
    i < Len(frames[v]) => frames[v][i].word = "bootstrap" /\ frames[v][i].todo = ToRun

(* A file that is open is open in one word.                                *)
OneHolder ==
  \A v, w \in VMs : \A i \in DOMAIN frames[v], j \in DOMAIN frames[w] :
    frames[v][i].file = frames[w][j].file => v = w /\ i = j

(* What the last save wrote is there family by family.                     *)
WholeThere ==
  \A f \in Files : \A d \in whole[f] :
    /\ file[f].aliases = {Written(d, "aliases")}
    /\ file[f].lambdas = {Written(d, "lambdas")}
    /\ file[f].stacks = {Written(d, "stacks")}

IInv == TypeInv /\ Where /\ Below /\ OneHolder /\ WholeThere

-----------------------------------------------------------------------------
(* The data.                                                               *)

LEMMA PartialIs ==
  ASSUME NEW X, NEW Y, NEW f
  PROVE  f \in Partial(X, Y) <=> DOMAIN f \subseteq X /\ f \in [DOMAIN f -> Y]
<1>1. ASSUME f \in Partial(X, Y) PROVE DOMAIN f \subseteq X /\ f \in [DOMAIN f -> Y]
  <2>1. PICK Z \in SUBSET X : f \in [Z -> Y]
    BY <1>1 DEF Partial
  <2>2. QED
    BY <2>1
<1>2. ASSUME DOMAIN f \subseteq X, f \in [DOMAIN f -> Y] PROVE f \in Partial(X, Y)
  BY <1>2 DEF Partial
<1>3. QED
  BY <1>1, <1>2

LEMMA BindTyped ==
  ASSUME NEW X, NEW Y, NEW f \in Partial(X, Y), NEW x \in X, NEW y \in Y
  PROVE  Bind(f, x, y) \in Partial(X, Y) /\ DOMAIN Bind(f, x, y) = DOMAIN f \cup {x}
<1>1. DOMAIN Bind(f, x, y) = DOMAIN f \cup {x}
  BY DEF Bind
<1>2. DOMAIN f \subseteq X /\ f \in [DOMAIN f -> Y]
  BY PartialIs
<1>3. DOMAIN f \cup {x} \subseteq X /\ Bind(f, x, y) \in [DOMAIN f \cup {x} -> Y]
  BY <1>2 DEF Bind
<1>4. QED
  BY <1>1, <1>3, PartialIs

LEMMA OverTyped ==
  ASSUME NEW X, NEW Y, NEW f \in Partial(X, Y), NEW g \in Partial(X, Y)
  PROVE  Over(f, g) \in Partial(X, Y) /\ DOMAIN Over(f, g) = DOMAIN f \cup DOMAIN g
<1>1. DOMAIN Over(f, g) = DOMAIN f \cup DOMAIN g
  BY DEF Over
<1>2. DOMAIN f \subseteq X /\ f \in [DOMAIN f -> Y] /\ DOMAIN g \subseteq X /\ g \in [DOMAIN g -> Y]
  BY PartialIs
<1>3. DOMAIN f \cup DOMAIN g \subseteq X /\ Over(f, g) \in [DOMAIN f \cup DOMAIN g -> Y]
  BY <1>2 DEF Over
<1>4. QED
  BY <1>1, <1>3, PartialIs

LEMMA OverStacks ==
  \A f, g \in Stacks : Over(f, g) \in Stacks /\ DOMAIN Over(f, g) = DOMAIN f \cup DOMAIN g
<1>1. \A f, g \in Stacks : Over(f, g) \in Stacks
  BY OverTyped DEF Stacks
<1>2. \A f, g \in Stacks : DOMAIN Over(f, g) = DOMAIN f \cup DOMAIN g
  BY DEF Over
<1>3. QED
  BY <1>1, <1>2

LEMMA InIn ==
  ASSUME NEW t, Has(t)
  PROVE  In(t) \in t
BY DEF Has, In

LEMMA InOne ==
  ASSUME NEW x
  PROVE  Has({x}) /\ In({x}) = x
BY DEF Has, In

LEMMA NoEntryTyped ==
  /\ \A X, Y : NoEntry \in Partial(X, Y)
  /\ NoEntry \in Scripts
<1>1. ASSUME NEW X, NEW Y PROVE NoEntry \in Partial(X, Y)
  <2>1. DOMAIN NoEntry = {} /\ NoEntry \in [{} -> Y]
    BY DEF NoEntry
  <2>2. QED
    BY <2>1, PartialIs
<1>2. IsFiniteSet(DOMAIN NoEntry)
  BY FS_EmptySet DEF NoEntry
<1>3. QED
  BY <1>1, <1>2 DEF Scripts

LEMMA NewVmTyped == NewVm \in VmData
<1>1. [n \in {Main} |-> <<>>] \in Stacks
  <2>1. [n \in {Main} |-> <<>>] \in [{Main} -> Seq(Held)]
    OBVIOUS
  <2>2. DOMAIN [n \in {Main} |-> <<>>] = {Main}
    OBVIOUS
  <2>3. QED
    BY <2>1, <2>2, PartialIs DEF Stacks, OnStacks
<1>2. QED
  BY <1>1, NoEntryTyped DEF NewVm, VmData, Aliases, Lambdas

LEMMA WrittenTyped ==
  ASSUME NEW d \in VmData
  PROVE  /\ Written(d, "aliases") = d.aliases /\ d.aliases \in Aliases
         /\ Written(d, "stacks") = d.stacks /\ d.stacks \in Stacks
         /\ Written(d, "lambdas") \in Lambdas /\ Written(d, "lambdas") \in LambdaRows
<1>1. /\ Written(d, "aliases") = d.aliases /\ d.aliases \in Aliases
      /\ Written(d, "stacks") = d.stacks /\ d.stacks \in Stacks /\ d.lambdas \in Lambdas
  BY DEF Written, VmData
<1> DEFINE L == {m \in LambdaNames(d) : LambdaOf(d, m) # {}}
           W == [n \in L |-> In(LambdaOf(d, n))]
<1>2. Written(d, "lambdas") = W
  BY DEF Written
<1>3. DOMAIN d.lambdas \subseteq Names /\ d.lambdas \in [DOMAIN d.lambdas -> Bodies]
  BY <1>1, PartialIs DEF Lambdas
<1>4. L \subseteq Names
  BY <1>3 DEF LambdaNames
<1>5. ASSUME NEW n \in L PROVE In(LambdaOf(d, n)) \in Bodies
  <2>1. In(LambdaOf(d, n)) \in LambdaOf(d, n)
    BY InIn DEF Has
  <2>2. QED
    BY <2>1, <1>3 DEF LambdaOf
<1>6. W \in [L -> Bodies] /\ DOMAIN W = L
  BY <1>5
<1>7. W \in Lambdas /\ W \in LambdaRows
  BY <1>4, <1>6, PartialIs DEF Lambdas, LambdaRows
<1>8. QED
  BY <1>1, <1>2, <1>7

(* Of any natural numbers one is the least: the ranges below them are      *)
(* finite sets, of which strict inclusion has no endless descent.          *)
LEMMA LeastNat ==
  ASSUME NEW T \in SUBSET Nat, T # {}
  PROVE  \E n \in T : \A m \in T : n <= m
<1> DEFINE R == {1 .. n : n \in T}
<1>1. ASSUME NEW n \in Nat PROVE 1 .. n \in FiniteSubsetsOf(Nat)
  <2>1. IsFiniteSet(1 .. n)
    BY FS_Interval
  <2>2. QED
    BY <2>1 DEF FiniteSubsetsOf
<1>2. R \subseteq FiniteSubsetsOf(Nat) /\ R # {}
  BY <1>1
<1>3. PICK r \in R : \A q \in R : ~(<<q, r>> \in StrictSubsetOrdering(Nat))
  <2> HIDE DEF R
  <2>1. QED
    BY <1>2, FS_StrictSubsetOrderingWellFounded, WFMin
<1>4. PICK n \in T : r = 1 .. n
  OBVIOUS
<1>5. ASSUME NEW m \in T, m < n PROVE FALSE
  <2>1. 1 .. m \in R
    OBVIOUS
  <2>2. n \in 1 .. n /\ n \notin 1 .. m /\ 1 .. m \subseteq 1 .. n
    BY <1>5
  <2>3. 1 .. m \in SUBSET Nat /\ 1 .. n \in SUBSET Nat /\ 1 .. m # 1 .. n
    BY <2>2
  <2>4. <<1 .. m, r>> \in StrictSubsetOrdering(Nat)
    BY <1>4, <2>2, <2>3 DEF StrictSubsetOrdering
  <2>5. QED
    BY <1>3, <2>1, <2>4
<1>6. QED
  BY <1>5

(* What is read of a stack is the bottom of it, and all of it when every   *)
(* item decodes.                                                           *)
LEMMA ReadableIs ==
  ASSUME NEW X, NEW q \in Seq(X)
  PROVE  /\ Readable(q) \in Seq(X)
         /\ \E k \in 0 .. Len(q) : Readable(q) = SubSeq(q, 1, k)
         /\ Decodes("stacks", q) => Readable(q) = q
<1> DEFINE bad == {i \in DOMAIN q : q[i] \in Unreadable}
           least == CHOOSE i \in bad : \A j \in bad : i <= j
<1>1. DOMAIN q = 1 .. Len(q) /\ Len(q) \in Nat
  OBVIOUS
<1>2. Decodes("stacks", q) <=> bad = {}
  BY DEF Decodes
<1>3. CASE bad = {}
  <2>1. Readable(q) = q
    BY <1>2, <1>3 DEF Readable
  <2>2. q = SubSeq(q, 1, Len(q)) /\ Len(q) \in 0 .. Len(q)
    BY <1>1
  <2>3. QED
    BY <2>1, <2>2
<1>4. CASE bad # {}
  <2>1. bad \in SUBSET Nat
    BY <1>1
  <2>2. \E i \in bad : \A j \in bad : i <= j
    <3> HIDE DEF bad
    <3>1. QED
      BY <1>4, <2>1, LeastNat
  <2>3. least \in bad
    <3> HIDE DEF bad
    <3>1. QED
      BY <2>2
  <2>4. least \in 1 .. Len(q)
    BY <1>1, <2>3
  <2> HIDE DEF least
  <2>5. least - 1 \in 0 .. Len(q)
    BY <1>1, <2>4
  <2>6. Readable(q) = SubSeq(q, 1, least - 1)
    BY <1>2, <1>4 DEF Readable, least
  <2>7. SubSeq(q, 1, least - 1) \in Seq(X)
    BY <1>1, <2>5
  <2>8. QED
    BY <1>2, <1>4, <2>5, <2>6, <2>7
<1>5. QED
  BY <1>3, <1>4

(* What is kept of a table is of the kind that a VM has.                   *)
LEMMA KeptTyped ==
  /\ \A c \in Aliases : Kept("aliases", c) = c
  /\ \A c \in LambdaRows : Kept("lambdas", c) \in Lambdas
  /\ \A c \in Stacks : Kept("stacks", c) \in Stacks
<1>1. \A c \in Aliases : Kept("aliases", c) = c
  BY DEF Kept
<1>2. ASSUME NEW c \in LambdaRows PROVE Kept("lambdas", c) \in Lambdas
  <2> DEFINE K == Kept("lambdas", c)
             Z == {m \in Reached("lambdas", c) : c[m] \notin Unreadable}
  <2>1. DOMAIN c \subseteq Names /\ c \in [DOMAIN c -> Bodies \cup Unreadable]
    BY PartialIs DEF LambdaRows
  <2>2. K = [n \in Z |-> c[n]]
    BY DEF Kept
  <2>3. Z \subseteq DOMAIN c
    BY DEF Reached
  <2>4. \A n \in Z : c[n] \in Bodies
    BY <2>1, <2>3
  <2> HIDE DEF Z
  <2>5. DOMAIN K = Z /\ K \in [Z -> Bodies]
    BY <2>2, <2>4
  <2>6. Z \subseteq Names
    BY <2>1, <2>3
  <2> HIDE DEF K
  <2>7. K \in Lambdas
    BY <2>5, <2>6, PartialIs DEF Lambdas
  <2>8. QED
    BY <2>7 DEF K
<1>3. ASSUME NEW c \in Stacks PROVE Kept("stacks", c) \in Stacks
  <2> DEFINE K == Kept("stacks", c)
             Z == Reached("stacks", c)
  <2>1. DOMAIN c \subseteq OnStacks /\ c \in [DOMAIN c -> Seq(Held)]
    BY PartialIs DEF Stacks
  <2>2. K = [n \in Z |-> Readable(c[n])]
    BY DEF Kept
  <2>3. Z \subseteq DOMAIN c
    BY DEF Reached
  <2>4. \A n \in Z : Readable(c[n]) \in Seq(Held)
    BY <2>1, <2>3, ReadableIs
  <2> HIDE DEF Z
  <2>5. DOMAIN K = Z /\ K \in [Z -> Seq(Held)]
    BY <2>2, <2>4
  <2>6. Z \subseteq OnStacks
    BY <2>1, <2>3
  <2> HIDE DEF K
  <2>7. K \in Stacks
    BY <2>5, <2>6, PartialIs DEF Stacks
  <2>8. QED
    BY <2>7 DEF K
<1>4. QED
  BY <1>1, <1>2, <1>3

(* All of a table whose every row decodes is kept.                         *)
LEMMA KeptLegible ==
  /\ \A c \in LambdaRows : Legible("lambdas", c) => Kept("lambdas", c) = c
  /\ \A c \in Stacks : Legible("stacks", c) => Kept("stacks", c) = c
<1>1. ASSUME NEW c \in LambdaRows, Legible("lambdas", c) PROVE Kept("lambdas", c) = c
  <2>1. c \in [DOMAIN c -> Bodies \cup Unreadable]
    BY PartialIs DEF LambdaRows
  <2>2. Reached("lambdas", c) = DOMAIN c
    BY <1>1 DEF Reached, Legible
  <2>3. \A m \in DOMAIN c : c[m] \notin Unreadable
    BY <1>1 DEF Legible, Decodes
  <2>4. {m \in Reached("lambdas", c) : c[m] \notin Unreadable} = DOMAIN c
    BY <2>2, <2>3
  <2>5. Kept("lambdas", c) = [n \in DOMAIN c |-> c[n]]
    BY <2>4 DEF Kept
  <2>6. QED
    BY <2>1, <2>5
<1>2. ASSUME NEW c \in Stacks, Legible("stacks", c) PROVE Kept("stacks", c) = c
  <2>1. c \in [DOMAIN c -> Seq(Held)]
    BY PartialIs DEF Stacks
  <2>2. Reached("stacks", c) = DOMAIN c
    BY <1>2 DEF Reached, Legible
  <2>3. \A n \in DOMAIN c : Readable(c[n]) = c[n]
    <3>1. ASSUME NEW n \in DOMAIN c PROVE Readable(c[n]) = c[n]
      <4>1. c[n] \in Seq(Held) /\ Decodes("stacks", c[n])
        BY <1>2, <2>1 DEF Legible
      <4>2. QED
        BY <4>1, ReadableIs
    <3>2. QED
      BY <3>1
  <2>4. Kept("stacks", c) = [n \in DOMAIN c |-> Readable(c[n])]
    BY <2>2 DEF Kept
  <2>5. QED
    BY <2>1, <2>3, <2>4
<1>3. QED
  BY <1>1, <1>2

(* What rows make of a VM is data of the same kind.                        *)
LEMMA PlacedTyped ==
  ASSUME NEW d \in VmData
  PROVE  /\ \A c \in Aliases : Placed(d, "aliases", c) \in VmData
         /\ \A c \in Lambdas : Placed(d, "lambdas", c) \in VmData
         /\ \A c \in Stacks : Placed(d, "stacks", c) \in VmData
<1>0. d.aliases \in Aliases /\ d.lambdas \in Lambdas /\ d.stacks \in Stacks
  BY DEF VmData
<1>1. ASSUME NEW c \in Aliases
      PROVE  Placed(d, "aliases", c) \in VmData
  <2>1. Over(c, d.aliases) \in Aliases
    BY <1>0, OverTyped DEF Aliases
  <2>2. Placed(d, "aliases", c) = [d EXCEPT !.aliases = Over(c, d.aliases)]
    BY DEF Placed
  <2>3. QED
    BY <2>1, <2>2 DEF VmData
<1>2. ASSUME NEW c \in Lambdas
      PROVE  Placed(d, "lambdas", c) \in VmData
  <2>1. Over(c, d.lambdas) \in Lambdas
    BY <1>0, OverTyped DEF Lambdas
  <2>2. Placed(d, "lambdas", c) = [d EXCEPT !.lambdas = Over(c, d.lambdas)]
    BY DEF Placed
  <2>3. QED
    BY <2>1, <2>2 DEF VmData
<1>3. ASSUME NEW c \in Stacks
      PROVE  Placed(d, "stacks", c) \in VmData
  <2> DEFINE S == d.stacks
             g == [n \in DOMAIN c |-> IF n \in DOMAIN S THEN S[n] \o c[n] ELSE c[n]]
  <2>1. S \in [DOMAIN S -> Seq(Held)] /\ c \in [DOMAIN c -> Seq(Held)] /\ DOMAIN c \subseteq OnStacks
    BY <1>0, <1>3, PartialIs DEF Stacks
  <2>2. g \in [DOMAIN c -> Seq(Held)] /\ DOMAIN g = DOMAIN c
    BY <2>1
  <2>3. g \in Stacks
    BY <2>1, <2>2, PartialIs DEF Stacks
  <2>4. Placed(d, "stacks", c) = [d EXCEPT !.stacks = Over(g, S)]
    BY DEF Placed
  <2>5. S \in Stacks
    BY <1>0
  <2> HIDE DEF g
  <2>6. Over(g, S) \in Stacks
    BY <2>3, <2>5, OverStacks
  <2>7. QED
    BY <2>4, <2>6 DEF VmData
<1>4. QED
  BY <1>1, <1>2, <1>3

LEMMA TakenTyped ==
  ASSUME NEW d \in VmData, NEW b \in Tables, NEW x \in Families
  PROVE  Taken(d, x, b) \in VmData
<1>1. CASE ~Has(b[x])
  BY <1>1 DEF Taken
<1>2. CASE Has(b[x])
  <2>1. Taken(d, x, b) = Placed(d, x, Kept(x, In(b[x])))
    BY <1>2 DEF Taken, Loaded
  <2>2. In(b[x]) \in b[x]
    BY <1>2, InIn
  <2>3. CASE x = "aliases"
    <3>1. In(b[x]) \in Aliases
      BY <2>2, <2>3 DEF Tables
    <3>2. QED
      BY <2>1, <2>3, <3>1, KeptTyped, PlacedTyped
  <2>4. CASE x = "lambdas"
    <3>1. In(b[x]) \in LambdaRows
      BY <2>2, <2>4 DEF Tables
    <3>2. QED
      BY <2>1, <2>4, <3>1, KeptTyped, PlacedTyped
  <2>5. CASE x = "stacks"
    <3>1. In(b[x]) \in Stacks
      BY <2>2, <2>5 DEF Tables
    <3>2. QED
      BY <2>1, <2>5, <3>1, KeptTyped, PlacedTyped
  <2>6. QED
    BY <2>3, <2>4, <2>5 DEF Families
<1>3. QED
  BY <1>1, <1>2

(* Where a load of the world b ends, and with what.                        *)
LEMMA LoadAllIs ==
  ASSUME NEW t, NEW b
  PROVE  /\ ~Sound("aliases", b) => LoadAll(t.before, b) = AfterAliases(t, b)
         /\ Sound("aliases", b) /\ ~Sound("lambdas", b) => LoadAll(t.before, b) = AfterLambdas(t, b)
         /\ Sound("aliases", b) /\ Sound("lambdas", b)
              => LoadAll(t.before, b) = Taken(AfterLambdas(t, b), "stacks", b)
BY DEF LoadAll, AfterAliases, AfterLambdas

-----------------------------------------------------------------------------
(* The frames.                                                             *)

(* The first of the steps left, and those after it.                        *)
LEMMA WaysOn ==
  /\ Head(SaveSteps) = "aliases" /\ Tail(SaveSteps) = Save4
  /\ Head(Save4) = "lambdas" /\ Tail(Save4) = Save3
  /\ Head(Save3) = "stacks" /\ Tail(Save3) = Save2
  /\ Head(Save2) = "prime" /\ Tail(Save2) = ToCommit
  /\ Head(ToCommit) = "commit" /\ Tail(ToCommit) = <<>>
  /\ Head(JustAliases) = "aliases" /\ Tail(JustAliases) = ToCommit
  /\ Head(JustLambdas) = "lambdas" /\ Tail(JustLambdas) = ToCommit
  /\ Head(JustStacks) = "stacks" /\ Tail(JustStacks) = ToCommit
  /\ Head(Script3) = "primed" /\ Tail(Script3) = Script2
  /\ Head(Script2) = "script" /\ Tail(Script2) = ToCommit
  /\ Head(JustModel) = "model" /\ Tail(JustModel) = ToCommit
  /\ Head(Load3) = "aliases" /\ Tail(Load3) = Load2
  /\ Head(Load2) = "lambdas" /\ Tail(Load2) = Load1
  /\ Head(Load1) = "stacks" /\ Tail(Load1) = <<>>
  /\ Head(LoadAliases) = "aliases" /\ Tail(LoadAliases) = <<>>
  /\ Head(LoadLambdas) = "lambdas" /\ Tail(LoadLambdas) = <<>>
  /\ Head(Boot5) = "aliases" /\ Tail(Boot5) = Boot4
  /\ Head(Boot4) = "lambdas" /\ Tail(Boot4) = Boot3
  /\ Head(Boot3) = "stacks" /\ Tail(Boot3) = Boot2
  /\ Head(Boot2) = "scripts" /\ Tail(Boot2) = ToRun
  /\ Head(ToRun) = "run" /\ Tail(ToRun) = <<>>
  /\ Head(ToFetch) = "fetch" /\ Tail(ToFetch) = <<>>
  /\ Head(ToModels) = "models" /\ Tail(ToModels) = <<>>
BY DEF SaveSteps, Save4, Save3, Save2, ToCommit, JustAliases, JustLambdas, JustStacks, Script3,
       Script2, JustModel, Load3, Load2, Load1, LoadAliases, LoadLambdas, Boot5, Boot4, Boot3,
       Boot2, ToRun, ToFetch, ToModels

LEMMA WaysThere ==
  /\ SaveSteps # <<>> /\ Save4 # <<>> /\ Save3 # <<>> /\ Save2 # <<>> /\ ToCommit # <<>>
  /\ JustAliases # <<>> /\ JustLambdas # <<>> /\ JustStacks # <<>> /\ Script3 # <<>>
  /\ Script2 # <<>> /\ JustModel # <<>> /\ Load3 # <<>> /\ Load2 # <<>> /\ Load1 # <<>>
  /\ LoadAliases # <<>> /\ LoadLambdas # <<>> /\ Boot5 # <<>> /\ Boot4 # <<>> /\ Boot3 # <<>>
  /\ Boot2 # <<>> /\ ToRun # <<>> /\ ToFetch # <<>> /\ ToModels # <<>> 
BY DEF SaveSteps, Save4, Save3, Save2, ToCommit, JustAliases, JustLambdas, JustStacks, Script3,
       Script2, JustModel, Load3, Load2, Load1, LoadAliases, LoadLambdas, Boot5, Boot4, Boot3,
       Boot2, ToRun, ToFetch, ToModels

LEMMA WaysLeft == \A w \in Ways : w # <<>> => Tail(w) \in Ways
<1> DEFINE Nothing == <<>>
<1>1. Nothing \in Ways
  BY DEF Ways
<1> HIDE DEF Nothing
<1>2. ASSUME NEW w \in Ways, w # Nothing PROVE Tail(w) \in Ways
  BY <1>1, <1>2, WaysOn, ZenonT(30) DEF Ways, Nothing
<1>3. QED
  BY <1>2 DEF Nothing

LEMMA Tops ==
  ASSUME TypeInv, NEW v \in VMs, frames[v] # <<>>
  PROVE  /\ Len(frames[v]) \in DOMAIN frames[v]
         /\ DOMAIN frames[v] = 1 .. Len(frames[v])
         /\ Top(v) = frames[v][Len(frames[v])] /\ Top(v) \in Frame
         /\ vm[v] \in VmData /\ file[Top(v).file] \in Tables
         /\ frames[v] \in Seq(Frame)
<1>1. frames[v] \in Seq(Frame)
  BY DEF TypeInv
<1>2. Len(frames[v]) \in DOMAIN frames[v] /\ DOMAIN frames[v] = 1 .. Len(frames[v])
  BY <1>1
<1>3. Top(v) = frames[v][Len(frames[v])] /\ Top(v) \in Frame
  BY <1>1, <1>2 DEF Top
<1>4. Top(v).file \in Files
  BY <1>3 DEF Frame
<1>5. QED
  BY <1>1, <1>2, <1>3, <1>4 DEF TypeInv

(* The word v is in goes on to g, and changes no other VM's data and no    *)
(* other file.                                                             *)
GoesOn(v, g) ==
  /\ frames' = [frames EXCEPT ![v] = [frames[v] EXCEPT ![Len(frames[v])] = g]]
  /\ g.file = Top(v).file
  /\ vm' \in [VMs -> VmData] /\ \A w \in VMs \ {v} : vm'[w] = vm[w]
  /\ file' \in [Files -> Tables] /\ \A f \in Files \ {g.file} : file'[f] = file[f]

FramesRight == frames \in [VMs -> Seq(Frame)] /\ Where /\ Below /\ OneHolder

LEMMA WentOn ==
  ASSUME IInv, NEW v \in VMs, frames[v] # <<>>, NEW g \in Frame, GoesOn(v, g),
         At1(g, vm'[v], file'[g.file])
  PROVE  FramesRight' /\ frames'[v] # <<>> /\ Top(v)' = g
<1> DEFINE n == Len(frames[v])
           new == [frames[v] EXCEPT ![n] = g]
<1>1. /\ n \in DOMAIN frames[v] /\ DOMAIN frames[v] = 1 .. n /\ n \in Nat
      /\ frames[v] \in Seq(Frame) /\ Top(v) = frames[v][n]
  BY Tops DEF IInv
<1>2. /\ new \in Seq(Frame) /\ Len(new) = n /\ DOMAIN new = DOMAIN frames[v] /\ new[n] = g
      /\ \A i \in DOMAIN new : i # n => new[i] = frames[v][i]
  BY <1>1
<1>3. frames' = [frames EXCEPT ![v] = new]
  BY DEF GoesOn
<1> HIDE DEF new
<1>4. frames \in [VMs -> Seq(Frame)]
  BY DEF IInv, TypeInv
<1>5. /\ frames' \in [VMs -> Seq(Frame)] /\ frames'[v] = new /\ Len(frames'[v]) = n
      /\ \A w \in VMs \ {v} : frames'[w] = frames[w]
  BY <1>2, <1>3, <1>4
<1>6. frames'[v] # <<>> /\ Top(v)' = g
  BY <1>1, <1>2, <1>5 DEF Top
<1>7. \A w \in VMs : /\ DOMAIN frames'[w] = DOMAIN frames[w]
                     /\ \A i \in DOMAIN frames[w] : frames'[w][i].file = frames[w][i].file
  BY <1>1, <1>2, <1>5 DEF GoesOn
<1>8. OneHolder'
  BY <1>7 DEF IInv, OneHolder
<1>9. Below'
  BY <1>1, <1>2, <1>5 DEF IInv, Below
<1>10. Where'
  <2> SUFFICES ASSUME NEW w \in VMs, frames'[w] # <<>>
               PROVE  At1(Top(w), vm[w], file[Top(w).file])'
    BY DEF Where
  <2>1. CASE w = v
    BY <2>1, <1>6
  <2>2. CASE w # v
    <3>1. frames'[w] = frames[w] /\ vm'[w] = vm[w] /\ Top(w)' = Top(w)
      BY <2>2, <1>5 DEF GoesOn, Top
    <3>2. /\ Len(frames[w]) \in DOMAIN frames[w] /\ Top(w) = frames[w][Len(frames[w])]
          /\ Top(w) \in Frame
      BY <3>1, Tops DEF IInv
    <3>3. Top(w).file # g.file
      BY <1>1, <2>2, <3>2 DEF IInv, OneHolder, GoesOn
    <3>4. file'[Top(w).file] = file[Top(w).file]
      BY <3>2, <3>3 DEF GoesOn, Frame
    <3>5. At1(Top(w), vm[w], file[Top(w).file])
      BY <3>1 DEF IInv, Where
    <3>6. QED
      BY <3>1, <3>4, <3>5
  <2>3. QED
    BY <2>1, <2>2
<1>11. QED
  BY <1>5, <1>6, <1>8, <1>9, <1>10 DEF FramesRight

(* What concerns another VM is left to it.                                 *)
LEMMA OthersWhere ==
  ASSUME IInv, NEW v \in VMs, NEW w \in VMs, w # v, frames'[w] = frames[w], vm'[w] = vm[w],
         file' = file, frames[w] # <<>>
  PROVE  At1(Top(w), vm[w], file[Top(w).file])'
<1>1. Top(w)' = Top(w)
  BY DEF Top
<1>2. At1(Top(w), vm[w], file[Top(w).file])
  BY DEF IInv, Where
<1>3. QED
  BY <1>1, <1>2

LEMMA Ended ==
  ASSUME IInv, NEW v \in VMs, frames' = [frames EXCEPT ![v] = <<>>],
         vm' \in [VMs -> VmData], \A w \in VMs \ {v} : vm'[w] = vm[w], file' = file
  PROVE  FramesRight'
<1>1. frames \in [VMs -> Seq(Frame)]
  BY DEF IInv, TypeInv
<1>2. /\ frames' \in [VMs -> Seq(Frame)] /\ frames'[v] = <<>> /\ DOMAIN frames'[v] = {}
      /\ \A w \in VMs \ {v} : frames'[w] = frames[w]
  BY <1>1
<1>3. OneHolder' /\ Below'
  BY <1>2 DEF IInv, OneHolder, Below
<1>4. Where'
  BY <1>2, OthersWhere DEF Where
<1>5. QED
  BY <1>2, <1>3, <1>4 DEF FramesRight

LEMMA Popped ==
  ASSUME IInv, NEW v \in VMs, Return(v)
  PROVE  /\ FramesRight'
         /\ frames'[v] # <<>> => Top(v)'.word = "bootstrap" /\ Top(v)'.todo = ToRun
<1> DEFINE n == Len(frames[v])
           new == SubSeq(frames[v], 1, n - 1)
<1>1. frames \in [VMs -> Seq(Frame)] /\ frames[v] \in Seq(Frame) /\ n \in Nat /\ n # 0 /\ DOMAIN frames[v] = 1 .. n
  BY Tops DEF IInv, TypeInv, Return
<1>2. /\ new \in Seq(Frame) /\ Len(new) = n - 1 /\ DOMAIN new = 1 .. n - 1
      /\ \A i \in DOMAIN new : new[i] = frames[v][i]
  BY <1>1
<1>3. frames' = [frames EXCEPT ![v] = new]
  BY DEF Return
<1> HIDE DEF new
<1>4. /\ frames' \in [VMs -> Seq(Frame)] /\ frames'[v] = new
      /\ \A w \in VMs \ {v} : frames'[w] = frames[w]
  BY <1>1, <1>2, <1>3
<1>5. \A w \in VMs : /\ DOMAIN frames'[w] \subseteq DOMAIN frames[w]
                     /\ \A i \in DOMAIN frames'[w] : frames'[w][i] = frames[w][i]
  <2>1. DOMAIN new \subseteq DOMAIN frames[v]
    BY <1>1, <1>2
  <2>2. QED
    BY <1>2, <1>4, <2>1
<1>6. OneHolder'
  BY <1>5 DEF IInv, OneHolder
<1>7. \A i \in DOMAIN new : frames[v][i].word = "bootstrap" /\ frames[v][i].todo = ToRun
  BY <1>1, <1>2 DEF IInv, Below
<1>8. Below'
  <2> SUFFICES ASSUME NEW w \in VMs, NEW i \in DOMAIN frames'[w], i < Len(frames'[w])
               PROVE  frames'[w][i].word = "bootstrap" /\ frames'[w][i].todo = ToRun
    BY DEF Below
  <2>1. CASE w = v
    BY <1>2, <1>4, <1>7, <2>1
  <2>2. CASE w # v
    BY <1>4, <2>2 DEF IInv, Below
  <2>3. QED
    BY <2>1, <2>2
<1>9. ASSUME new # <<>>
      PROVE  Top(v)' \in Frame /\ Top(v)'.word = "bootstrap" /\ Top(v)'.todo = ToRun
  <2>1. n - 1 \in DOMAIN new
    BY <1>1, <1>2, <1>9
  <2>2. Top(v)' = new[n - 1]
    BY <1>2, <1>4 DEF Top
  <2>3. QED
    BY <1>2, <1>7, <2>1, <2>2
<1>10. Where'
  <2> SUFFICES ASSUME NEW w \in VMs, frames'[w] # <<>>
               PROVE  At1(Top(w), vm[w], file[Top(w).file])'
    BY DEF Where
  <2>1. CASE w = v
    BY <1>4, <1>9, <2>1 DEF At1, BootstrapAt
  <2>2. CASE w # v
    BY <1>4, <2>2, OthersWhere DEF Return
  <2>3. QED
    BY <2>1, <2>2
<1>11. QED
  BY <1>4, <1>6, <1>8, <1>9, <1>10 DEF FramesRight

(* A VM calls a word, from the frames fs: none, or those it has, the last  *)
(* of them a bootstrap that runs the script of the call.                   *)
Calling(v, fs) ==
  /\ fs \in Seq(Frame) /\ DOMAIN fs = DOMAIN frames[v]
  /\ \A i \in DOMAIN fs : /\ fs[i].word = "bootstrap" /\ fs[i].todo = ToRun
                          /\ fs[i].file = frames[v][i].file

Called(v, word, f) ==
  [word |-> word, file |-> f, todo |-> Todo(word), texts |-> <<>>,
   draft |-> IF word \in Savers THEN file[f] ELSE NoTable,
   before |-> IF word \in Savers THEN NewVm ELSE vm[v]]

LEMMA NoTableTyped == NoTable \in Tables
BY DEF NoTable, Tables

LEMMA CalledRight ==
  ASSUME TypeInv, NEW v \in VMs, NEW word \in Words, NEW f \in Files
  PROVE  /\ Called(v, word, f) \in Frame
         /\ At1(Called(v, word, f), vm[v], file[f])
<1>1. vm[v] \in VmData /\ file[f] \in Tables
  BY DEF TypeInv
<1>2. Todo(word) \in Ways
  BY DEF Todo, Words, Savers, Loaders, Ways, JustAliases, JustLambdas, JustStacks, Script3, JustModel,
         Load3, LoadAliases, LoadLambdas, Load1, Boot5, ToFetch, ToModels
<1>3. Called(v, word, f) \in Frame
  BY <1>1, <1>2, NewVmTyped, NoTableTyped DEF Called, Frame
<1>4. At1(Called(v, word, f), vm[v], file[f])
  <2> DEFINE g == Called(v, word, f)
  <2>1. CASE word \in Savers
    <3>1. g.word = word /\ g.todo = Todo(word) /\ g.draft = file[f]
      BY <2>1 DEF Called
    <3> HIDE DEF g
    <3>2. \/ word = "save" /\ Todo(word) = SaveSteps
          \/ word = "save.aliases" /\ Todo(word) = JustAliases
          \/ word = "save.lambdas" /\ Todo(word) = JustLambdas
          \/ word = "save.stacks" /\ Todo(word) = JustStacks
          \/ word = "save.script" /\ Todo(word) = Script3
          \/ word = "save.model" /\ Todo(word) = JustModel
      BY <2>1 DEF Savers, Todo, JustAliases, JustLambdas, JustStacks, Script3, JustModel
    <3>3. /\ g.todo = SaveSteps => SaveAt(g, vm[v], file[f])
          /\ g.todo = JustAliases => SaveAliasesAt(g, vm[v], file[f])
          /\ g.todo = JustLambdas => SaveLambdasAt(g, vm[v], file[f])
          /\ g.todo = JustStacks => SaveStacksAt(g, vm[v], file[f])
          /\ g.todo = Script3 => SaveScriptAt(g, file[f])
          /\ g.todo = JustModel => SaveModelAt(g, file[f])
      BY <3>1, Zenon DEF SaveAt, SaveAliasesAt, SaveLambdasAt, SaveStacksAt, SaveScriptAt, SaveModelAt
    <3>4. QED
      BY <3>1, <3>2, <3>3 DEF At1, g
  <2>2. CASE word \in Loaders /\ word \notin Savers
    <3>1. g.word = word /\ g.todo = Todo(word) /\ g.before = vm[v]
      BY <2>2 DEF Called
    <3> HIDE DEF g
    <3>2. \/ word = "load" /\ Todo(word) = Load3
          \/ word = "load.aliases" /\ Todo(word) = LoadAliases
          \/ word = "load.lambdas" /\ Todo(word) = LoadLambdas
          \/ word = "load.stacks" /\ Todo(word) = Load1
          \/ word = "bootstrap" /\ Todo(word) = Boot5
          \/ word = "load.script" /\ Todo(word) = ToFetch
          \/ word = "load.model" /\ Todo(word) = ToModels
      BY <2>2 DEF Loaders, Todo, Load3, LoadAliases, LoadLambdas, Load1, Boot5, ToFetch, ToModels
    <3>3. /\ g.todo = Load3 => LoadAt(g, vm[v], file[f])
          /\ g.todo = Boot5 => BootstrapAt(g, vm[v], file[f])
      BY <3>1, Zenon DEF LoadAt, BootstrapAt
    <3>4. QED
      BY <3>1, <3>2, <3>3 DEF At1, g
  <2>3. QED
    BY <2>1, <2>2 DEF Words
<1>5. QED
  BY <1>3, <1>4

LEMMA Opened ==
  ASSUME IInv, NEW v \in VMs, NEW fs, Calling(v, fs), NEW word \in Words, NEW f \in Files,
         OpenWorld(v, fs, word, f), vm' = vm, file' = file
  PROVE  /\ FramesRight'
         /\ frames'[v] # <<>> => Top(v)' = Called(v, word, f)
<1> DEFINE g == Called(v, word, f)
           new == Append(fs, g)
           n == Len(fs)
<1>1. g \in Frame /\ At1(g, vm[v], file[f]) /\ g.file = f
  BY CalledRight DEF IInv, Called
<1>2. CASE Open(f)
  <2>1. frames' = [frames EXCEPT ![v] = <<>>]
    BY <1>2 DEF OpenWorld
  <2>2. frames'[v] = <<>>
    BY <2>1 DEF IInv, TypeInv
  <2>3. QED
    BY <2>1, <2>2, Ended DEF IInv, TypeInv
<1>3. CASE ~Open(f)
  <2>1. frames' = [frames EXCEPT ![v] = new]
    BY <1>3 DEF OpenWorld, Called
  <2>2. fs \in Seq(Frame) /\ n \in Nat /\ DOMAIN fs = 1 .. n
    BY DEF Calling
  <2> HIDE DEF g
  <2>3. /\ new \in Seq(Frame) /\ Len(new) = n + 1 /\ DOMAIN new = 1 .. n + 1 /\ new[n + 1] = g
        /\ \A i \in 1 .. n : new[i] = fs[i]
    BY <1>1, <2>2
  <2>4. frames \in [VMs -> Seq(Frame)]
    BY DEF IInv, TypeInv
  <2> HIDE DEF new
  <2>5. /\ frames' \in [VMs -> Seq(Frame)] /\ frames'[v] = new
        /\ \A w \in VMs \ {v} : frames'[w] = frames[w]
    BY <2>1, <2>3, <2>4
  <2>6. frames'[v] # <<>> /\ Top(v)' = g
    BY <2>2, <2>3, <2>5 DEF Top
  <2>7. \A w \in VMs : \A i \in DOMAIN frames[w] : frames[w][i].file # f
    BY <1>3 DEF Open
  <2>8. OneHolder'
    <3>1. \A i \in 1 .. n : i \in DOMAIN frames[v] /\ new[i].file = frames[v][i].file
      BY <2>2, <2>3 DEF Calling
    <3>2. \A w \in VMs : \A i \in DOMAIN frames'[w] :
            \/ w = v /\ i = n + 1 /\ frames'[w][i].file = f
            \/ i \in DOMAIN frames[w] /\ frames'[w][i].file = frames[w][i].file
      BY <1>1, <2>2, <2>3, <2>5, <3>1 DEF g
    <3>3. QED
      BY <2>7, <3>2 DEF IInv, OneHolder
  <2>9. Below'
    BY <2>2, <2>3, <2>5 DEF IInv, Below, Calling
  <2>10. Where'
    <3> SUFFICES ASSUME NEW w \in VMs, frames'[w] # <<>>
                 PROVE  At1(Top(w), vm[w], file[Top(w).file])'
      BY DEF Where
    <3>1. CASE w = v
      BY <1>1, <2>6, <3>1
    <3>2. CASE w # v
      BY <2>5, <3>2, OthersWhere
    <3>3. QED
      BY <3>1, <3>2
  <2>11. QED
    BY <2>5, <2>6, <2>8, <2>9, <2>10 DEF FramesRight, g
<1>4. QED
  BY <1>2, <1>3

-----------------------------------------------------------------------------
(* The steps of a saver, which change its draft and nothing else.          *)

LEMMA DraftTyped ==
  ASSUME NEW b \in Tables, NEW d \in VmData
  PROVE  /\ WithAliases(b, d) \in Tables /\ WithLambdas(b, d) \in Tables /\ WithStacks(b, d) \in Tables
         /\ [b EXCEPT !.scripts = {NoEntry}] \in Tables
<1>1. NoEntry \in Scripts
  BY NoEntryTyped
<1>2. Written(d, "aliases") \in Aliases /\ Written(d, "lambdas") \in LambdaRows /\ Written(d, "stacks") \in Stacks
  BY WrittenTyped
<1>3. QED
  BY <1>1, <1>2 DEF WithAliases, WithLambdas, WithStacks, Tables

(* The word of v with its next step done and this draft.                   *)
Drafted(v, dr) == [Top(v) EXCEPT !.todo = Tail(@), !.draft = dr]

LEMMA DraftedGoesOn ==
  ASSUME IInv, NEW v \in VMs, frames[v] # <<>>, Top(v).todo # <<>>, NEW dr \in Tables, WithDraft(v, dr),
         vm' = vm, file' = file
  PROVE  /\ GoesOn(v, Drafted(v, dr)) /\ Drafted(v, dr) \in Frame
         /\ Drafted(v, dr).word = Top(v).word /\ Drafted(v, dr).file = Top(v).file
         /\ Drafted(v, dr).todo = Tail(Top(v).todo) /\ Drafted(v, dr).draft = dr
<1>1. Top(v) \in Frame
  BY Tops DEF IInv
<1>2. Tail(Top(v).todo) \in Ways
  BY <1>1, WaysLeft DEF Frame
<1>3. /\ Drafted(v, dr) \in Frame
      /\ Drafted(v, dr).word = Top(v).word /\ Drafted(v, dr).file = Top(v).file
      /\ Drafted(v, dr).todo = Tail(Top(v).todo) /\ Drafted(v, dr).draft = dr
  BY <1>1, <1>2 DEF Drafted, Frame
<1>4. frames' = [frames EXCEPT ![v] = [frames[v] EXCEPT ![Len(frames[v])] = Drafted(v, dr)]]
  BY DEF WithDraft, Drafted
<1>5. QED
  BY <1>3, <1>4 DEF GoesOn, IInv, TypeInv

Quiet == vm' = vm /\ file' = file /\ whole' = whole

LEMMA QuietInv ==
  ASSUME IInv, FramesRight', Quiet
  PROVE  IInv'
BY DEF IInv, FramesRight, Quiet, TypeInv, WholeThere

LEMMA FailKeeps ==
  ASSUME IInv, NEW v \in VMs, Fail(v), vm' = vm
  PROVE  IInv'
<1>1. frames' = [frames EXCEPT ![v] = <<>>] /\ Quiet
  BY DEF Fail, Quiet
<1>2. FramesRight'
  BY <1>1, Ended DEF IInv, TypeInv, Quiet
<1>3. QED
  BY <1>1, <1>2, QuietInv

(* Each saver at a family is where it can only be.                         *)
LEMMA WritesWhere ==
  ASSUME NEW t, NEW d, NEW b, At1(t, d, b), t.todo # <<>>, t.word \in Savers, Head(t.todo) \in Families
  PROVE  \/ t.word = "save" /\ t.todo = SaveSteps /\ t.draft = b
         \/ t.word = "save" /\ t.todo = Save4 /\ t.draft = WithAliases(b, d)
         \/ /\ t.word = "save" /\ t.todo = Save3 /\ Writable(d, "lambdas")
            /\ t.draft = WithLambdas(WithAliases(b, d), d)
         \/ t.word = "save.aliases" /\ t.todo = JustAliases /\ t.draft = b
         \/ t.word = "save.lambdas" /\ t.todo = JustLambdas /\ t.draft = b
         \/ t.word = "save.stacks" /\ t.todo = JustStacks /\ t.draft = b
<1>1. \/ t.word = "save" /\ SaveAt(t, d, b)
      \/ t.word = "save.aliases" /\ SaveAliasesAt(t, d, b)
      \/ t.word = "save.lambdas" /\ SaveLambdasAt(t, d, b)
      \/ t.word = "save.stacks" /\ SaveStacksAt(t, d, b)
      \/ t.word = "save.script" /\ SaveScriptAt(t, b)
      \/ t.word = "save.model" /\ SaveModelAt(t, b)
  BY DEF At1, Savers
<1>2. t.todo \notin {Save2, ToCommit, Script3, Script2, JustModel}
  BY WaysOn DEF Families
<1>3. ~SaveScriptAt(t, b) /\ ~SaveModelAt(t, b)
  BY <1>2 DEF SaveScriptAt, SaveModelAt
<1>4. QED
  BY <1>1, <1>2, <1>3 DEF SaveAt, SaveAliasesAt, SaveLambdasAt, SaveStacksAt

LEMMA WriteFamilyKeeps ==
  ASSUME IInv, NEW v \in VMs, WriteFamily(v)
  PROVE  IInv'
<1> DEFINE t == Top(v)
           d == vm[v]
           b == file[t.file]
           dr == [t.draft EXCEPT ![Step(v)] = {Written(d, Step(v))}]
           g == Drafted(v, dr)
<1>1. /\ frames[v] # <<>> /\ t.todo # <<>> /\ Step(v) = Head(t.todo) /\ Step(v) \in Families
      /\ t.word \in Savers
  BY DEF WriteFamily, At, Step
<1>2. t \in Frame /\ d \in VmData /\ b \in Tables
  BY <1>1, Tops DEF IInv
<1>3. At1(t, d, b)
  BY <1>1 DEF IInv, Where
<1>4. CASE ~Writable(d, Step(v))
  BY <1>4, FailKeeps DEF WriteFamily
<1>5. CASE Writable(d, Step(v))
  <2>1. WithDraft(v, dr) /\ Quiet
    BY <1>5 DEF WriteFamily, Quiet
  <2>2. /\ Step(v) = "aliases" => dr = WithAliases(t.draft, d)
        /\ Step(v) = "lambdas" => dr = WithLambdas(t.draft, d)
        /\ Step(v) = "stacks" => dr = WithStacks(t.draft, d)
    BY DEF WithAliases, WithLambdas, WithStacks
  <2>3. t.draft \in Tables
    BY <1>2 DEF Frame
  <2>4. dr \in Tables
    BY <1>1, <1>2, <2>2, <2>3, DraftTyped DEF Families
  <2>5. GoesOn(v, g) /\ g \in Frame /\ g.word = t.word /\ g.file = t.file /\ g.todo = Tail(t.todo) /\ g.draft = dr
    BY <1>1, <2>1, <2>4, DraftedGoesOn DEF Quiet
  <2> HIDE DEF t, d, b, dr, g
  <2>6. At1(g, d, b)
    <3>1. CASE t.word = "save" /\ t.todo = SaveSteps /\ t.draft = b
      <4>1. g.todo = Save4 /\ g.draft = WithAliases(b, d)
        BY <3>1, <1>1, <2>2, <2>5, WaysOn
      <4>2. QED
        BY <3>1, <2>5, <4>1 DEF At1, SaveAt
    <3>2. CASE t.word = "save" /\ t.todo = Save4 /\ t.draft = WithAliases(b, d)
      <4>1. /\ g.todo = Save3 /\ g.draft = WithLambdas(WithAliases(b, d), d)
            /\ Writable(d, "lambdas")
        BY <3>2, <1>1, <1>5, <2>2, <2>5, WaysOn
      <4>2. QED
        BY <3>2, <2>5, <4>1 DEF At1, SaveAt
    <3>3. CASE /\ t.word = "save" /\ t.todo = Save3 /\ Writable(d, "lambdas")
               /\ t.draft = WithLambdas(WithAliases(b, d), d)
      <4>1. /\ g.todo = Save2 /\ g.draft = WithStacks(WithLambdas(WithAliases(b, d), d), d)
            /\ Writable(d, "stacks")
        BY <3>3, <1>1, <1>5, <2>2, <2>5, WaysOn
      <4>2. QED
        BY <3>3, <2>5, <4>1 DEF At1, SaveAt
    <3>4. CASE t.word = "save.aliases" /\ t.todo = JustAliases /\ t.draft = b
      <4>1. g.todo = ToCommit /\ g.draft = WithAliases(b, d)
        BY <3>4, <1>1, <2>2, <2>5, WaysOn
      <4>2. QED
        BY <3>4, <2>5, <4>1 DEF At1, SaveAliasesAt
    <3>5. CASE t.word = "save.lambdas" /\ t.todo = JustLambdas /\ t.draft = b
      <4>1. g.todo = ToCommit /\ g.draft = WithLambdas(b, d) /\ Writable(d, "lambdas")
        BY <3>5, <1>1, <1>5, <2>2, <2>5, WaysOn
      <4>2. QED
        BY <3>5, <2>5, <4>1 DEF At1, SaveLambdasAt
    <3>6. CASE t.word = "save.stacks" /\ t.todo = JustStacks /\ t.draft = b
      <4>1. g.todo = ToCommit /\ g.draft = WithStacks(b, d) /\ Writable(d, "stacks")
        BY <3>6, <1>1, <1>5, <2>2, <2>5, WaysOn
      <4>2. QED
        BY <3>6, <2>5, <4>1 DEF At1, SaveStacksAt
    <3>7. QED
      BY <1>1, <1>3, <3>1, <3>2, <3>3, <3>4, <3>5, <3>6, WritesWhere
  <2>7. At1(g, vm'[v], file'[g.file])
    BY <2>1, <2>5, <2>6 DEF Quiet, d, b
  <2>8. FramesRight'
    BY <1>1, <2>5, <2>7, WentOn
  <2>9. QED
    BY <2>1, <2>8, QuietInv
<1>6. QED
  BY <1>4, <1>5

(* So is each at its other steps.                                          *)
LEMMA SaverWhere ==
  ASSUME NEW t, NEW d, NEW b, At1(t, d, b), t.todo # <<>>
  PROVE  /\ Head(t.todo) = "prime" =>
              /\ t.word = "save" /\ t.todo = Save2 /\ Writable(d, "lambdas") /\ Writable(d, "stacks")
              /\ t.draft = WithStacks(WithLambdas(WithAliases(b, d), d), d)
         /\ Head(t.todo) = "primed" => t.word = "save.script" /\ t.todo = Script3 /\ t.draft = b
         /\ Head(t.todo) = "script" =>
              t.word = "save.script" /\ t.todo = Script2 /\ Has(b.scripts) /\ t.draft = b
         /\ Head(t.todo) = "model" => t.word = "save.model" /\ t.todo = JustModel /\ t.draft = b
         /\ Head(t.todo) = "commit" =>
              /\ t.todo = ToCommit
              /\ \/ t.word = "save" /\ SaveAt(t, d, b)
                 \/ t.word = "save.aliases" /\ SaveAliasesAt(t, d, b)
                 \/ t.word = "save.lambdas" /\ SaveLambdasAt(t, d, b)
                 \/ t.word = "save.stacks" /\ SaveStacksAt(t, d, b)
                 \/ t.word = "save.script" /\ SaveScriptAt(t, b)
                 \/ t.word = "save.model" /\ SaveModelAt(t, b)
<1> DEFINE x == Head(t.todo)
<1>1. SaveAt(t, d, b) => 
        /\ x \in {"aliases", "lambdas", "stacks", "prime", "commit"}
        /\ x = "commit" => t.todo = ToCommit
        /\ x = "prime" =>
             /\ t.todo = Save2 /\ Writable(d, "lambdas") /\ Writable(d, "stacks")
             /\ t.draft = WithStacks(WithLambdas(WithAliases(b, d), d), d)
  BY WaysOn DEF SaveAt
<1>2. SaveAliasesAt(t, d, b) => x \in {"aliases", "commit"} /\ (x = "commit" => t.todo = ToCommit)
  BY WaysOn DEF SaveAliasesAt
<1>3. SaveLambdasAt(t, d, b) => x \in {"lambdas", "commit"} /\ (x = "commit" => t.todo = ToCommit)
  BY WaysOn DEF SaveLambdasAt
<1>4. SaveStacksAt(t, d, b) => x \in {"stacks", "commit"} /\ (x = "commit" => t.todo = ToCommit)
  BY WaysOn DEF SaveStacksAt
<1>5. SaveScriptAt(t, b) =>
        /\ x \in {"primed", "script", "commit"} /\ (x = "commit" => t.todo = ToCommit)
        /\ x = "primed" => t.todo = Script3 /\ t.draft = b
        /\ x = "script" => t.todo = Script2 /\ Has(b.scripts) /\ t.draft = b
  BY WaysOn DEF SaveScriptAt
<1>6. SaveModelAt(t, b) =>
        /\ x \in {"model", "commit"} /\ (x = "commit" => t.todo = ToCommit)
        /\ x = "model" => t.todo = JustModel /\ t.draft = b
  BY WaysOn DEF SaveModelAt
<1>7. LoadAt(t, d, b) => x \in {"aliases", "lambdas", "stacks"}
  BY WaysOn DEF LoadAt
<1>8. BootstrapAt(t, d, b) => x \in {"aliases", "lambdas", "stacks", "scripts", "run"}
  BY WaysOn DEF BootstrapAt
<1>9. t.todo \in {LoadAliases, LoadLambdas, Load1, ToFetch, ToModels} =>
        x \in {"aliases", "lambdas", "stacks", "fetch", "models"}
  BY WaysOn
<1> HIDE DEF x
<1>10. QED
  BY <1>1, <1>2, <1>3, <1>4, <1>5, <1>6, <1>7, <1>8, <1>9 DEF At1, x

LEMMA PrimeKeeps ==
  ASSUME IInv, NEW v \in VMs, PrimeBootstrap(v)
  PROVE  IInv'
<1> DEFINE t == Top(v)
           d == vm[v]
           b == file[t.file]
           dr == [t.draft EXCEPT !.scripts = {NoEntry}]
           g == Drafted(v, dr)
<1>1. frames[v] # <<>> /\ t.todo # <<>> /\ Head(t.todo) = "prime" /\ WithDraft(v, dr) /\ Quiet
  BY DEF PrimeBootstrap, At, Step, Quiet
<1>2. t \in Frame /\ d \in VmData /\ b \in Tables /\ At1(t, d, b)
  BY <1>1, Tops DEF IInv, Where
<1>3. dr \in Tables
  BY <1>2, DraftTyped DEF Frame
<1>4. GoesOn(v, g) /\ g \in Frame /\ g.word = t.word /\ g.file = t.file /\ g.todo = Tail(t.todo) /\ g.draft = dr
  BY <1>1, <1>3, DraftedGoesOn DEF Quiet
<1> HIDE DEF d, b, g
<1>5. /\ t.word = "save" /\ t.todo = Save2 /\ Writable(d, "lambdas") /\ Writable(d, "stacks")
      /\ t.draft = WithStacks(WithLambdas(WithAliases(b, d), d), d)
  BY <1>1, <1>2, SaverWhere
<1>6. g.todo = ToCommit /\ g.draft = [WithStacks(WithLambdas(WithAliases(b, d), d), d) EXCEPT !.scripts = {NoEntry}]
  BY <1>4, <1>5, WaysOn
<1>7. At1(g, d, b)
  BY <1>4, <1>5, <1>6 DEF At1, SaveAt
<1>8. FramesRight'
  BY <1>1, <1>4, <1>7, WentOn DEF Quiet, d, b
<1>9. QED
  BY <1>1, <1>8, QuietInv

(* The word of v with its next step done.                                  *)
Advanced(v) == [Top(v) EXCEPT !.todo = Tail(@)]

LEMMA AdvancedGoesOn ==
  ASSUME IInv, NEW v \in VMs, frames[v] # <<>>, Top(v).todo # <<>>, Advance(v),
         vm' \in [VMs -> VmData], \A w \in VMs \ {v} : vm'[w] = vm[w],
         file' \in [Files -> Tables], \A f \in Files \ {Top(v).file} : file'[f] = file[f]
  PROVE  /\ GoesOn(v, Advanced(v)) /\ Advanced(v) \in Frame
         /\ Advanced(v).word = Top(v).word /\ Advanced(v).file = Top(v).file
         /\ Advanced(v).todo = Tail(Top(v).todo) /\ Advanced(v).draft = Top(v).draft
         /\ Advanced(v).before = Top(v).before
<1>1. Top(v) \in Frame
  BY Tops DEF IInv
<1>2. Tail(Top(v).todo) \in Ways
  BY <1>1, WaysLeft DEF Frame
<1>3. /\ Advanced(v) \in Frame
      /\ Advanced(v).word = Top(v).word /\ Advanced(v).file = Top(v).file
      /\ Advanced(v).todo = Tail(Top(v).todo) /\ Advanced(v).draft = Top(v).draft
      /\ Advanced(v).before = Top(v).before
  BY <1>1, <1>2 DEF Advanced, Frame
<1>4. frames' = [frames EXCEPT ![v] = [frames[v] EXCEPT ![Len(frames[v])] = Advanced(v)]]
  BY DEF Advance, Advanced, Top
<1>5. QED
  BY <1>3, <1>4 DEF GoesOn

LEMMA IsPrimedKeeps ==
  ASSUME IInv, NEW v \in VMs, IsPrimed(v)
  PROVE  IInv'
<1> DEFINE t == Top(v)
           d == vm[v]
           b == file[t.file]
           g == Advanced(v)
<1>1. frames[v] # <<>> /\ t.todo # <<>> /\ Head(t.todo) = "primed" /\ vm' = vm
  BY DEF IsPrimed, At, Step
<1>2. t \in Frame /\ At1(t, d, b)
  BY <1>1, Tops DEF IInv, Where
<1>3. CASE ~Has(b.scripts)
  BY <1>1, <1>3, FailKeeps DEF IsPrimed
<1>4. CASE Has(b.scripts)
  <2>1. Advance(v) /\ Quiet
    BY <1>4 DEF IsPrimed, Quiet
  <2>2. /\ GoesOn(v, g) /\ g \in Frame /\ g.word = t.word /\ g.file = t.file
        /\ g.todo = Tail(t.todo) /\ g.draft = t.draft
    BY <1>1, <2>1, AdvancedGoesOn DEF Quiet, IInv, TypeInv
  <2> HIDE DEF d, b, g
  <2>3. t.word = "save.script" /\ t.todo = Script3 /\ t.draft = b
    BY <1>1, <1>2, SaverWhere
  <2>4. At1(g, d, b)
    BY <1>4, <2>2, <2>3, WaysOn DEF At1, SaveScriptAt
  <2>5. FramesRight'
    BY <1>1, <2>1, <2>2, <2>4, WentOn DEF Quiet, d, b
  <2>6. QED
    BY <2>1, <2>5, QuietInv
<1>5. QED
  BY <1>3, <1>4

LEMMA ScriptTyped ==
  ASSUME NEW b \in Tables, Has(b.scripts), NEW n \in ScriptNames, NEW x \in Texts
  PROVE  Bind(In(b.scripts), n, x) \in Scripts
<1> DEFINE c == In(b.scripts)
<1>1. c \in Partial(ScriptNames, Texts) /\ IsFiniteSet(DOMAIN c)
  BY InIn DEF Tables, Scripts
<1> HIDE DEF c
<1>2. Bind(c, n, x) \in Partial(ScriptNames, Texts)
  BY <1>1, BindTyped
<1>3. DOMAIN Bind(c, n, x) = DOMAIN c \cup {n}
  BY DEF Bind
<1>4. IsFiniteSet(DOMAIN c \cup {n})
  BY <1>1, FS_AddElement
<1>5. QED
  BY <1>2, <1>3, <1>4 DEF Scripts, c

LEMMA WriteScriptKeeps ==
  ASSUME IInv, NEW v \in VMs, WriteScript(v)
  PROVE  IInv'
<1> DEFINE t == Top(v)
           d == vm[v]
           b == file[t.file]
<1>1. /\ frames[v] # <<>> /\ t.todo # <<>> /\ Head(t.todo) = "script" /\ Quiet
  BY DEF WriteScript, At, Step, Quiet
<1>2. PICK n \in ScriptNames, x \in Texts :
        WithDraft(v, [t.draft EXCEPT !.scripts = {Bind(In(@), n, x)}])
  BY DEF WriteScript
<1> DEFINE dr == [t.draft EXCEPT !.scripts = {Bind(In(t.draft.scripts), n, x)}]
           g == Drafted(v, dr)
<1>3. t \in Frame /\ b \in Tables /\ At1(t, d, b)
  BY <1>1, Tops DEF IInv, Where
<1>4. t.word = "save.script" /\ t.todo = Script2 /\ Has(b.scripts) /\ t.draft = b
  <2> HIDE DEF t, d, b
  <2>1. QED
    BY <1>1, <1>3, SaverWhere
<1>5. dr \in Tables /\ WithDraft(v, dr)
  <2>1. Bind(In(t.draft.scripts), n, x) \in Scripts
    BY <1>3, <1>4, ScriptTyped
  <2>2. QED
    BY <1>2, <1>3, <1>4, <2>1 DEF Tables
<1>6. GoesOn(v, g) /\ g \in Frame /\ g.word = t.word /\ g.file = t.file /\ g.todo = Tail(t.todo) /\ g.draft = dr
  BY <1>1, <1>5, DraftedGoesOn DEF Quiet
<1>7. g.todo = ToCommit /\ g.draft = [b EXCEPT !.scripts = {Bind(In(@), n, x)}]
  BY <1>4, <1>6, WaysOn
<1> HIDE DEF d, b, g
<1>8. At1(g, d, b)
  BY <1>4, <1>6, <1>7 DEF At1, SaveScriptAt, WithScript
<1>9. FramesRight'
  BY <1>1, <1>6, <1>8, WentOn DEF Quiet, d, b
<1>10. QED
  BY <1>1, <1>9, QuietInv

LEMMA ModelTyped ==
  ASSUME NEW b \in Tables, NEW x \in Values
  PROVE  Append(ModelRows(b), x) \in Seq(Values)
<1>1. ModelRows(b) \in Seq(Values)
  BY InIn DEF Tables, ModelRows
<1>2. QED
  BY <1>1

LEMMA WriteModelKeeps ==
  ASSUME IInv, NEW v \in VMs, WriteModel(v)
  PROVE  IInv'
<1> DEFINE t == Top(v)
           d == vm[v]
           b == file[t.file]
<1>1. frames[v] # <<>> /\ t.todo # <<>> /\ Head(t.todo) = "model" /\ vm' = vm
  BY DEF WriteModel, At, Step
<1>2. PICK x \in Values :
        IF x \in Refused THEN Fail(v)
        ELSE /\ WithDraft(v, [t.draft EXCEPT !.models = {Append(ModelRows(t.draft), x)}])
             /\ UNCHANGED <<file, whole>>
  BY DEF WriteModel, ModelRows
<1>3. t \in Frame /\ b \in Tables /\ At1(t, d, b)
  BY <1>1, Tops DEF IInv, Where
<1>4. t.word = "save.model" /\ t.todo = JustModel /\ t.draft = b
  <2> HIDE DEF t, d, b
  <2>1. QED
    BY <1>1, <1>3, SaverWhere
<1>5. CASE x \in Refused
  BY <1>1, <1>2, <1>5, FailKeeps
<1>6. CASE x \notin Refused
  <2> DEFINE dr == [t.draft EXCEPT !.models = {Append(ModelRows(t.draft), x)}]
             g == Drafted(v, dr)
  <2>1. WithDraft(v, dr) /\ Quiet
    BY <1>1, <1>2, <1>6 DEF Quiet
  <2>2. dr \in Tables
    <3>1. Append(ModelRows(t.draft), x) \in Seq(Values)
      BY <1>3, <1>4, ModelTyped
    <3>2. QED
      BY <1>3, <1>4, <3>1 DEF Tables
  <2>3. GoesOn(v, g) /\ g \in Frame /\ g.word = t.word /\ g.file = t.file /\ g.todo = Tail(t.todo) /\ g.draft = dr
    BY <1>1, <2>1, <2>2, DraftedGoesOn DEF Quiet
  <2>4. g.todo = ToCommit /\ g.draft = [b EXCEPT !.models = {Append(ModelRows(b), x)}]
    BY <1>4, <2>3, WaysOn
  <2> HIDE DEF d, b, g
  <2>5. At1(g, d, b)
    BY <1>4, <1>6, <2>3, <2>4 DEF At1, SaveModelAt, WithModel
  <2>6. FramesRight'
    BY <1>1, <2>1, <2>3, <2>5, WentOn DEF Quiet, d, b
  <2>7. QED
    BY <2>1, <2>6, QuietInv
<1>7. QED
  BY <1>5, <1>6

(* What a commit puts into the file, by word.                              *)
LEMMA CommitWhere ==
  ASSUME NEW t, NEW d \in VmData, NEW b \in Tables, At1(t, d, b), t.todo # <<>>, Head(t.todo) = "commit"
  PROVE  /\ t.todo = ToCommit
         /\ \/ /\ t.word = "save" /\ Writable(d, "lambdas") /\ Writable(d, "stacks")
               /\ t.draft = [WithStacks(WithLambdas(WithAliases(b, d), d), d) EXCEPT !.scripts = {NoEntry}]
            \/ t.word = "save.aliases" /\ t.draft = WithAliases(b, d)
            \/ t.word = "save.lambdas" /\ Writable(d, "lambdas") /\ t.draft = WithLambdas(b, d)
            \/ t.word = "save.stacks" /\ Writable(d, "stacks") /\ t.draft = WithStacks(b, d)
            \/ t.word = "save.script" /\ Has(b.scripts) /\ WithScript(t, b)
            \/ t.word = "save.model" /\ WithModel(t, b)
<1>1. t.todo = ToCommit
  BY SaverWhere
<1>2. ToCommit \notin {SaveSteps, Save4, Save3, Save2, JustAliases, JustLambdas, JustStacks, Script3, Script2, JustModel}
  BY WaysOn
<1>3. \/ t.word = "save" /\ SaveAt(t, d, b)
      \/ t.word = "save.aliases" /\ SaveAliasesAt(t, d, b)
      \/ t.word = "save.lambdas" /\ SaveLambdasAt(t, d, b)
      \/ t.word = "save.stacks" /\ SaveStacksAt(t, d, b)
      \/ t.word = "save.script" /\ SaveScriptAt(t, b)
      \/ t.word = "save.model" /\ SaveModelAt(t, b)
  BY SaverWhere
<1>4. QED
  BY <1>1, <1>2, <1>3 DEF SaveAt, SaveAliasesAt, SaveLambdasAt, SaveStacksAt, SaveScriptAt, SaveModelAt

LEMMA CommitKeeps ==
  ASSUME IInv, NEW v \in VMs, Commit(v)
  PROVE  IInv'
<1> DEFINE t == Top(v)
           f == t.file
           d == vm[v]
           b == file[f]
           g == Advanced(v)
<1>1. /\ frames[v] # <<>> /\ t.todo # <<>> /\ Head(t.todo) = "commit" /\ vm' = vm /\ Advance(v)
      /\ file' = [file EXCEPT ![f] = t.draft]
      /\ whole' = [whole EXCEPT ![f] =
           CASE t.word = "save" -> IF Len(t.todo) = 1 THEN {d} ELSE {}
             [] t.word \in {"save.aliases", "save.lambdas", "save.stacks"} -> {}
             [] OTHER -> @]
  BY DEF Commit, At, Step
<1>2. t \in Frame /\ d \in VmData /\ b \in Tables /\ At1(t, d, b) /\ f \in Files /\ t.draft \in Tables
  <2>1. t \in Frame /\ d \in VmData /\ b \in Tables /\ At1(t, d, b)
    BY <1>1, Tops DEF IInv, Where
  <2>2. QED
    BY <2>1 DEF Frame
<1>3. /\ file \in [Files -> Tables] /\ whole \in [Files -> SUBSET VmData] /\ vm \in [VMs -> VmData]
  BY DEF IInv, TypeInv
<1>4. /\ file' \in [Files -> Tables] /\ file'[f] = t.draft
      /\ \A h \in Files \ {f} : file'[h] = file[h] /\ whole'[h] = whole[h]
  BY <1>1, <1>2, <1>3
<1>5. /\ GoesOn(v, g) /\ g \in Frame /\ g.word = t.word /\ g.file = t.file /\ g.todo = Tail(t.todo)
  BY <1>1, <1>3, <1>4, AdvancedGoesOn
<1>6. t.todo = ToCommit /\ g.todo = <<>>
  <2> HIDE DEF t, d, b
  <2>1. t.todo = ToCommit
    BY <1>1, <1>2, SaverWhere
  <2>2. QED
    BY <1>5, <2>1, WaysOn
<1>7. FramesRight'
  <2>1. At1(g, vm'[v], file'[g.file])
    BY <1>6 DEF At1
  <2>2. QED
    BY <1>1, <1>5, <2>1, WentOn
<1>8. /\ t.word = "save" => whole'[f] = {d}
      /\ t.word \in {"save.aliases", "save.lambdas", "save.stacks"} => whole'[f] = {}
      /\ t.word \in {"save.script", "save.model"} => whole'[f] = whole[f]
  <2>1. whole'[f] =
          CASE t.word = "save" -> IF Len(t.todo) = 1 THEN {d} ELSE {}
            [] t.word \in {"save.aliases", "save.lambdas", "save.stacks"} -> {}
            [] OTHER -> whole[f]
    BY <1>1, <1>2, <1>3
  <2>2. Len(t.todo) = 1
    BY <1>6 DEF ToCommit
  <2> HIDE DEF t, d, f
  <2>3. QED
    BY <2>1, <2>2
<1>9. TypeInv'
  <2>1. whole'[f] \in SUBSET VmData
    <3> HIDE DEF t, d, b, f
    <3>1. QED
      BY <1>1, <1>2, <1>3, <1>8, CommitWhere
  <2>2. whole' \in [Files -> SUBSET VmData]
    BY <1>1, <1>3, <1>4, <2>1
  <2>3. QED
    BY <1>1, <1>3, <1>4, <1>7, <2>2 DEF TypeInv, FramesRight, IInv
<1>10. ASSUME NEW e \in whole'[f]
       PROVE  /\ t.draft.aliases = {Written(e, "aliases")}
              /\ t.draft.lambdas = {Written(e, "lambdas")}
              /\ t.draft.stacks = {Written(e, "stacks")}
  <2> HIDE DEF t, d, b, f
  <2>1. CASE t.word = "save"
    <3>1. e = d
      BY <1>8, <1>10, <2>1
    <3>2. t.draft = [WithStacks(WithLambdas(WithAliases(b, d), d), d) EXCEPT !.scripts = {NoEntry}]
      BY <1>1, <1>2, <2>1, CommitWhere
    <3>3. QED
      BY <1>2, <1>3, <3>1, <3>2 DEF WithAliases, WithLambdas, WithStacks, Tables
  <2>2. CASE t.word \in {"save.script", "save.model"}
    <3>1. WithScript(t, b) \/ WithModel(t, b)
      BY <1>1, <1>2, <2>2, CommitWhere
    <3>2. t.draft.aliases = b.aliases /\ t.draft.lambdas = b.lambdas /\ t.draft.stacks = b.stacks
      BY <1>2, <3>1 DEF Tables, WithScript, WithModel
    <3>3. e \in whole[f]
      BY <1>8, <1>10, <2>2
    <3>4. QED
      BY <1>2, <3>2, <3>3 DEF IInv, WholeThere, b
  <2>3. CASE t.word \in {"save.aliases", "save.lambdas", "save.stacks"}
    BY <1>8, <1>10, <2>3
  <2>4. QED
    BY <1>1, <1>2, <2>1, <2>2, <2>3, CommitWhere
<1>11. WholeThere'
  <2> SUFFICES ASSUME NEW h \in Files, NEW e \in whole'[h]
               PROVE  /\ file'[h].aliases = {Written(e, "aliases")}
                      /\ file'[h].lambdas = {Written(e, "lambdas")}
                      /\ file'[h].stacks = {Written(e, "stacks")}
    BY DEF WholeThere
  <2>1. CASE h = f
    BY <1>4, <1>10, <2>1
  <2>2. CASE h # f
    BY <1>4, <2>2 DEF IInv, WholeThere
  <2>3. QED
    BY <2>1, <2>2
<1>12. QED
  BY <1>7, <1>9, <1>11 DEF IInv, FramesRight

-----------------------------------------------------------------------------
(* The steps of a loader, which change its VM's data and no file.          *)

LEMMA LoaderWhere ==
  ASSUME NEW t, NEW d, NEW b, At1(t, d, b), t.todo # <<>>, t.word \in Loaders
  PROVE  /\ Head(t.todo) \in Families =>
              \/ t.word = "load" /\ t.todo = Load3 /\ d = t.before
              \/ t.word = "load" /\ t.todo = Load2 /\ Sound("aliases", b) /\ d = AfterAliases(t, b)
              \/ /\ t.word = "load" /\ t.todo = Load1 /\ Sound("aliases", b) /\ Sound("lambdas", b)
                 /\ d = AfterLambdas(t, b)
              \/ t.word = "bootstrap" /\ t.todo = Boot5 /\ d = t.before
              \/ t.word = "bootstrap" /\ t.todo = Boot4 /\ Sound("aliases", b) /\ d = AfterAliases(t, b)
              \/ /\ t.word = "bootstrap" /\ t.todo = Boot3 /\ Sound("aliases", b) /\ Sound("lambdas", b)
                 /\ d = AfterLambdas(t, b)
              \/ t.word = "load.aliases" /\ t.todo = LoadAliases /\ d = t.before
              \/ t.word = "load.lambdas" /\ t.todo = LoadLambdas /\ d = t.before
              \/ t.word = "load.stacks" /\ t.todo = Load1 /\ d = t.before
         /\ Head(t.todo) = "fetch" => t.word = "load.script" /\ t.todo = ToFetch
         /\ Head(t.todo) = "models" => t.word = "load.model" /\ t.todo = ToModels
         /\ Head(t.todo) = "scripts" => t.word = "bootstrap" /\ t.todo = Boot2
         /\ Head(t.todo) = "run" => t.word = "bootstrap" /\ t.todo = ToRun
<1>1. \/ t.word = "load" /\ LoadAt(t, d, b)
      \/ t.word = "bootstrap" /\ BootstrapAt(t, d, b)
      \/ t.word = "load.aliases" /\ t.todo = LoadAliases /\ d = t.before
      \/ t.word = "load.lambdas" /\ t.todo = LoadLambdas /\ d = t.before
      \/ t.word = "load.stacks" /\ t.todo = Load1 /\ d = t.before
      \/ t.word = "load.script" /\ t.todo = ToFetch
      \/ t.word = "load.model" /\ t.todo = ToModels
  BY DEF At1, Loaders
<1>2. CASE t.word = "load" /\ LoadAt(t, d, b)
  BY <1>2, WaysOn DEF LoadAt
<1>3. CASE t.word = "bootstrap" /\ BootstrapAt(t, d, b)
  BY <1>3, WaysOn DEF BootstrapAt, Families
<1>4. CASE t.todo \in {LoadAliases, LoadLambdas, Load1, ToFetch, ToModels}
  BY <1>1, <1>4, WaysOn DEF LoadAt, BootstrapAt, Families
<1>5. QED
  BY <1>1, <1>2, <1>3, <1>4

(* The steps that are none of a saver's are none of its frame's.           *)
LEMMA LoaderSteps ==
  ASSUME NEW t, NEW d, NEW b, At1(t, d, b), t.todo # <<>>, t.word \in Words,
         Head(t.todo) \in {"fetch", "models", "scripts", "run"}
  PROVE  t.word \in Loaders
<1>1. ASSUME t.word \in Savers PROVE FALSE
  <2>1. \/ SaveAt(t, d, b) \/ SaveAliasesAt(t, d, b) \/ SaveLambdasAt(t, d, b)
        \/ SaveStacksAt(t, d, b) \/ SaveScriptAt(t, b) \/ SaveModelAt(t, b)
    BY <1>1 DEF At1, Savers
  <2>2. t.todo \in {SaveSteps, Save4, Save3, Save2, ToCommit, JustAliases, JustLambdas, JustStacks,
                    Script3, Script2, JustModel}
    BY <2>1 DEF SaveAt, SaveAliasesAt, SaveLambdasAt, SaveStacksAt, SaveScriptAt, SaveModelAt
  <2>3. QED
    BY <2>2, WaysOn
<1>2. QED
  BY <1>1 DEF Words

(* What v has loaded is all that has changed.                              *)
Changes(v, e) == vm' = [vm EXCEPT ![v] = e] /\ file' = file /\ whole' = whole

LEMMA ChangesInv ==
  ASSUME IInv, NEW v \in VMs, NEW e \in VmData, Changes(v, e), FramesRight'
  PROVE  IInv'
<1>1. vm' \in [VMs -> VmData] /\ vm'[v] = e /\ \A w \in VMs \ {v} : vm'[w] = vm[w]
  BY DEF IInv, TypeInv, Changes
<1>2. TypeInv' /\ WholeThere'
  BY <1>1 DEF IInv, TypeInv, FramesRight, Changes, WholeThere
<1>3. QED
  BY <1>2 DEF IInv, FramesRight

LEMMA AdvancedChanges ==
  ASSUME IInv, NEW v \in VMs, frames[v] # <<>>, Top(v).todo # <<>>, Advance(v),
         NEW e \in VmData, Changes(v, e),
         At1(Advanced(v), e, file[Top(v).file])
  PROVE  IInv'
<1>1. vm' \in [VMs -> VmData] /\ vm'[v] = e /\ \A w \in VMs \ {v} : vm'[w] = vm[w]
  BY DEF IInv, TypeInv, Changes
<1>2. file' = file /\ file \in [Files -> Tables]
  BY DEF IInv, TypeInv, Changes
<1>3. GoesOn(v, Advanced(v)) /\ Advanced(v) \in Frame /\ Advanced(v).file = Top(v).file
  BY <1>1, <1>2, AdvancedGoesOn
<1>4. FramesRight'
  BY <1>1, <1>2, <1>3, WentOn
<1>5. QED
  BY <1>4, ChangesInv

(* A word fails and keeps what it has loaded.                              *)
LEMMA FailChanges ==
  ASSUME IInv, NEW v \in VMs, Fail(v), NEW e \in VmData, vm' = [vm EXCEPT ![v] = e]
  PROVE  IInv'
<1>1. frames' = [frames EXCEPT ![v] = <<>>] /\ Changes(v, e)
  BY DEF Fail, Changes
<1>2. vm' \in [VMs -> VmData] /\ \A w \in VMs \ {v} : vm'[w] = vm[w]
  BY DEF IInv, TypeInv
<1>3. FramesRight'
  BY <1>1, <1>2, Ended DEF Changes
<1>4. QED
  BY <1>1, <1>3, ChangesInv

LEMMA ReadFamilyKeeps ==
  ASSUME IInv, NEW v \in VMs, ReadFamily(v)
  PROVE  IInv'
<1> DEFINE t == Top(v)
           d == vm[v]
           b == file[t.file]
           x == Step(v)
           e == Taken(d, x, b)
           g == Advanced(v)
<1>1. /\ frames[v] # <<>> /\ t.todo # <<>> /\ x = Head(t.todo) /\ x \in Families
      /\ t.word \in Loaders
  BY DEF ReadFamily, At, Step
<1>2. t \in Frame /\ d \in VmData /\ b \in Tables /\ At1(t, d, b)
  BY <1>1, Tops DEF IInv, Where
<1>3. e \in VmData
  BY <1>1, <1>2, TakenTyped
<1>4. vm' = [vm EXCEPT ![v] = e]
  BY DEF ReadFamily
<1>5. CASE ~Sound(x, b)
  <2>1. Fail(v)
    BY <1>5 DEF ReadFamily
  <2>2. QED
    BY <1>3, <1>4, <2>1, FailChanges
<1>6. CASE Sound(x, b)
  <2>1. Changes(v, e) /\ Advance(v)
    BY <1>4, <1>6 DEF ReadFamily, Changes
  <2>3. g.word = t.word /\ g.file = t.file /\ g.todo = Tail(t.todo) /\ g.before = t.before
    BY <1>2 DEF Advanced, Frame
  <2>4. AfterAliases(g, b) = AfterAliases(t, b) /\ AfterLambdas(g, b) = AfterLambdas(t, b)
    BY <2>3 DEF AfterAliases, AfterLambdas
  <2>5. x = Head(t.todo) /\ e = Taken(d, x, b)
    BY <1>1
  <2> HIDE DEF t, d, b, g, x, e
  <2>7. At1(g, e, b)
    <3>1. CASE t.word = "load" /\ t.todo = Load3 /\ d = t.before
      <4>1. g.todo = Load2 /\ x = "aliases"
        BY <1>1, <2>3, <3>1, WaysOn
      <4>2. e = AfterAliases(g, b) /\ Sound("aliases", b)
        BY <1>6, <2>3, <2>5, <3>1, <4>1 DEF AfterAliases
      <4>3. QED
        BY <2>3, <3>1, <4>1, <4>2 DEF At1, LoadAt
    <3>2. CASE t.word = "load" /\ t.todo = Load2 /\ Sound("aliases", b) /\ d = AfterAliases(t, b)
      <4>1. g.todo = Load1 /\ x = "lambdas"
        BY <1>1, <2>3, <3>2, WaysOn
      <4>2. e = AfterLambdas(g, b) /\ Sound("lambdas", b)
        BY <1>6, <2>4, <2>5, <3>2, <4>1 DEF AfterLambdas
      <4>3. QED
        BY <2>3, <3>2, <4>1, <4>2 DEF At1, LoadAt
    <3>3. CASE t.word = "bootstrap" /\ t.todo = Boot5 /\ d = t.before
      <4>1. g.todo = Boot4 /\ x = "aliases"
        BY <1>1, <2>3, <3>3, WaysOn
      <4>2. e = AfterAliases(g, b) /\ Sound("aliases", b)
        BY <1>6, <2>3, <2>5, <3>3, <4>1 DEF AfterAliases
      <4>3. QED
        BY <2>3, <3>3, <4>1, <4>2 DEF At1, BootstrapAt
    <3>4. CASE t.word = "bootstrap" /\ t.todo = Boot4 /\ Sound("aliases", b) /\ d = AfterAliases(t, b)
      <4>1. g.todo = Boot3 /\ x = "lambdas"
        BY <1>1, <2>3, <3>4, WaysOn
      <4>2. e = AfterLambdas(g, b) /\ Sound("lambdas", b)
        BY <1>6, <2>4, <2>5, <3>4, <4>1 DEF AfterLambdas
      <4>3. QED
        BY <2>3, <3>4, <4>1, <4>2 DEF At1, BootstrapAt
    <3>5. CASE t.word = "bootstrap" /\ t.todo = Boot3
      BY <2>3, <3>5, WaysOn DEF At1, BootstrapAt
    <3>6. CASE t.todo \in {Load1, LoadAliases, LoadLambdas}
      <4>1. g.todo = <<>>
        BY <2>3, <3>6, WaysOn
      <4>2. QED
        BY <4>1 DEF At1
    <3>7. QED
      BY <1>1, <1>2, <3>1, <3>2, <3>3, <3>4, <3>5, <3>6, LoaderWhere
  <2>8. QED
    BY <1>1, <1>3, <2>1, <2>7, AdvancedChanges DEF t, d, b, g
<1>7. QED
  BY <1>5, <1>6

(* Values pushed on one of the stacks of v.                                *)
Pushed(v, n, q) == [vm[v] EXCEPT !.stacks[n] = @ \o q]

LEMMA PushTyped ==
  ASSUME IInv, NEW v \in VMs, NEW q \in Seq(Held), PushEach(v, q)
  PROVE  \E n \in DOMAIN vm[v].stacks :
           /\ vm' = [vm EXCEPT ![v] = Pushed(v, n, q)]
           /\ Pushed(v, n, q) \in VmData
           /\ DOMAIN Pushed(v, n, q).stacks = DOMAIN vm[v].stacks
<1>1. PICK n \in DOMAIN vm[v].stacks : vm' = [vm EXCEPT ![v].stacks[n] = @ \o q]
  BY DEF PushEach
<1> DEFINE d == vm[v]
           S == d.stacks
           T == [S EXCEPT ![n] = @ \o q]
<1>2. d \in VmData /\ S \in Stacks
  BY DEF IInv, TypeInv, VmData
<1>3. DOMAIN S \subseteq OnStacks /\ S \in [DOMAIN S -> Seq(Held)]
  BY <1>2, PartialIs DEF Stacks
<1>4. S[n] \o q \in Seq(Held)
  BY <1>3
<1>5. T \in [DOMAIN S -> Seq(Held)] /\ DOMAIN T = DOMAIN S
  BY <1>3, <1>4
<1>6. T \in Stacks
  BY <1>3, <1>5, PartialIs DEF Stacks
<1>7. Pushed(v, n, q) = [d EXCEPT !.stacks = T]
  BY DEF Pushed
<1>8. vm' = [vm EXCEPT ![v] = Pushed(v, n, q)]
  BY <1>1 DEF Pushed
<1> HIDE DEF T
<1>9. Pushed(v, n, q) \in VmData /\ Pushed(v, n, q).stacks = T
  BY <1>2, <1>6, <1>7 DEF VmData
<1>10. QED
  BY <1>5, <1>8, <1>9

(* A loader's last step.                                                   *)
LEMMA LastPush ==
  ASSUME IInv, NEW v \in VMs, frames[v] # <<>>, Top(v).todo # <<>>, Tail(Top(v).todo) = <<>>,
         Advance(v), NEW q \in Seq(Held), PushEach(v, q), file' = file, whole' = whole
  PROVE  IInv'
<1>1. PICK n \in DOMAIN vm[v].stacks :
        /\ vm' = [vm EXCEPT ![v] = Pushed(v, n, q)]
        /\ Pushed(v, n, q) \in VmData
        /\ DOMAIN Pushed(v, n, q).stacks = DOMAIN vm[v].stacks
  BY PushTyped
<1>2. Changes(v, Pushed(v, n, q))
  BY <1>1 DEF Changes
<1>3. Top(v) \in Frame
  BY Tops DEF IInv
<1>4. Advanced(v).todo = <<>>
  BY <1>3 DEF Advanced, Frame
<1>5. At1(Advanced(v), Pushed(v, n, q), file[Top(v).file])
  BY <1>4 DEF At1
<1>6. QED
  BY <1>1, <1>2, <1>5, AdvancedChanges

(* The models there are, and what of them is read.                         *)
LEMMA RowsTyped ==
  ASSUME NEW b \in Tables
  PROVE  Readable(ModelRows(b)) \in Seq(Held)
<1>1. ModelRows(b) \in Seq(Values)
  <2>1. CASE Has(b.models)
    BY <2>1, InIn DEF Tables, ModelRows
  <2>2. CASE ~Has(b.models)
    BY <2>2 DEF ModelRows
  <2>3. QED
    BY <2>1, <2>2
<1>2. ModelRows(b) \in Seq(Held)
  BY <1>1 DEF Held
<1>3. QED
  BY <1>2, ReadableIs

LEMMA ReadModelsKeeps ==
  ASSUME IInv, NEW v \in VMs, ReadModels(v)
  PROVE  IInv'
<1> DEFINE t == Top(v)
           b == file[t.file]
           q == Readable(ModelRows(b))
           all == ModelRows(b) # <<>> /\ Decodes("stacks", ModelRows(b))
<1>1. frames[v] # <<>> /\ t.todo # <<>> /\ Head(t.todo) = "models"
  BY DEF ReadModels, At, Step
<1>2. t \in Frame /\ b \in Tables /\ At1(t, vm[v], b)
  BY <1>1, Tops DEF IInv, Where
<1>3. q \in Seq(Held)
  BY <1>2, RowsTyped
<1>4. PushEach(v, q) /\ IF all THEN Advance(v) /\ UNCHANGED <<file, whole>> ELSE Fail(v)
  BY DEF ReadModels, ModelRows
<1>5. CASE ~all
  <2>1. Fail(v)
    BY <1>4, <1>5
  <2>2. PICK n \in DOMAIN vm[v].stacks :
          /\ vm' = [vm EXCEPT ![v] = Pushed(v, n, q)]
          /\ Pushed(v, n, q) \in VmData
          /\ DOMAIN Pushed(v, n, q).stacks = DOMAIN vm[v].stacks
    BY <1>3, <1>4, PushTyped
  <2>3. QED
    BY <2>1, <2>2, FailChanges
<1>6. CASE all
  <2>1. Advance(v) /\ file' = file /\ whole' = whole
    BY <1>4, <1>6
  <2>2. Tail(t.todo) = <<>>
    <3> HIDE DEF t, b
    <3>1. t.word \in Loaders
      BY <1>1, <1>2, LoaderSteps DEF Frame
    <3>2. QED
      BY <1>1, <1>2, <3>1, LoaderWhere, WaysOn
  <2>3. QED
    BY <1>1, <1>3, <1>4, <2>1, <2>2, LastPush
<1>7. QED
  BY <1>5, <1>6

LEMMA FetchScriptKeeps ==
  ASSUME IInv, NEW v \in VMs, FetchScript(v)
  PROVE  IInv'
<1> DEFINE t == Top(v)
           b == file[t.file]
<1>1. frames[v] # <<>> /\ t.todo # <<>> /\ Head(t.todo) = "fetch"
  BY DEF FetchScript, At, Step
<1>2. t \in Frame /\ b \in Tables /\ At1(t, vm[v], b)
  BY <1>1, Tops DEF IInv, Where
<1>3. PICK n \in ScriptNames :
        IF Has(b.scripts) /\ n \in DOMAIN In(b.scripts)
        THEN PushEach(v, <<In(b.scripts)[n]>>) /\ Advance(v) /\ UNCHANGED <<file, whole>>
        ELSE Fail(v) /\ UNCHANGED vm
  BY DEF FetchScript
<1>4. CASE ~(Has(b.scripts) /\ n \in DOMAIN In(b.scripts))
  BY <1>3, <1>4, FailKeeps
<1>5. CASE Has(b.scripts) /\ n \in DOMAIN In(b.scripts)
  <2>1. In(b.scripts) \in Partial(ScriptNames, Texts)
    BY <1>2, <1>5, InIn DEF Tables, Scripts
  <2>2. In(b.scripts)[n] \in Held
    BY <1>5, <2>1, PartialIs DEF Held
  <2>3. <<In(b.scripts)[n]>> \in Seq(Held)
    BY <2>2
  <2>4. PushEach(v, <<In(b.scripts)[n]>>) /\ Advance(v) /\ file' = file /\ whole' = whole
    BY <1>3, <1>5
  <2>5. Tail(t.todo) = <<>>
    <3> HIDE DEF t, b
    <3>1. t.word \in Loaders
      BY <1>1, <1>2, LoaderSteps DEF Frame
    <3>2. QED
      BY <1>1, <1>2, <3>1, LoaderWhere, WaysOn
  <2>6. QED
    BY <1>1, <2>3, <2>4, <2>5, LastPush
<1>6. QED
  BY <1>4, <1>5

LEMMA ReadScriptsKeeps ==
  ASSUME IInv, NEW v \in VMs, ReadScripts(v)
  PROVE  IInv'
<1> DEFINE t == Top(v)
           b == file[t.file]
           c == In(b.scripts)
<1>1. frames[v] # <<>> /\ t.todo # <<>> /\ Head(t.todo) = "scripts" /\ vm' = vm
  BY DEF ReadScripts, At, Step
<1>2. t \in Frame /\ b \in Tables /\ At1(t, vm[v], b)
  BY <1>1, Tops DEF IInv, Where
<1>3. CASE ~Has(b.scripts)
  BY <1>1, <1>3, FailKeeps DEF ReadScripts
<1>4. CASE Has(b.scripts)
  <2>1. Quiet
    BY <1>1, <1>4 DEF ReadScripts, Quiet
  <2>2. PICK q \in Listed(c) :
          frames' = [frames EXCEPT ![v][Len(frames[v])] =
            [Top(v) EXCEPT !.todo = Tail(@), !.texts = [i \in DOMAIN q |-> c[q[i]]]]]
    BY <1>4 DEF ReadScripts
  <2> DEFINE txt == [i \in DOMAIN q |-> c[q[i]]]
             g == [t EXCEPT !.todo = Tail(@), !.texts = txt]
  <2>3. c \in Partial(ScriptNames, Texts) /\ IsFiniteSet(DOMAIN c)
    BY <1>2, <1>4, InIn DEF Tables, Scripts
  <2>4. c \in [DOMAIN c -> Texts]
    BY <2>3, PartialIs
  <2>5. Cardinality(DOMAIN c) \in Nat /\ q \in [1 .. Cardinality(DOMAIN c) -> DOMAIN c]
    BY <2>3, FS_CardinalityType DEF Listed
  <2>6. txt \in Seq(Texts)
    <3> DEFINE k == Cardinality(DOMAIN c)
    <3> HIDE DEF k, c
    <3>1. txt \in [1 .. k -> Texts]
      BY <2>4, <2>5 DEF k
    <3>2. QED
      BY <2>5, <3>1 DEF k
  <2> HIDE DEF txt
  <2>7. t.word = "bootstrap" /\ t.todo = Boot2
    <3> HIDE DEF t, b
    <3>1. t.word \in Loaders
      BY <1>1, <1>2, LoaderSteps DEF Frame
    <3>2. QED
      BY <1>1, <1>2, <3>1, LoaderWhere
  <2>8. Tail(t.todo) = ToRun
    BY <2>7, WaysOn
  <2>9. g \in Frame /\ g.word = t.word /\ g.file = t.file /\ g.todo = ToRun
    BY <1>2, <2>6, <2>8 DEF Frame, Ways
  <2>10. frames' = [frames EXCEPT ![v] = [frames[v] EXCEPT ![Len(frames[v])] = g]]
    BY <2>2 DEF txt
  <2> HIDE DEF g
  <2>11. GoesOn(v, g)
    BY <2>1, <2>9, <2>10 DEF GoesOn, Quiet, IInv, TypeInv
  <2>12. At1(g, vm'[v], file'[g.file])
    BY <2>7, <2>9 DEF At1, BootstrapAt
  <2>13. QED
    BY <1>1, <2>1, <2>9, <2>11, <2>12, WentOn, QuietInv
<1>5. QED
  BY <1>3, <1>4

-----------------------------------------------------------------------------
(* Programs.                                                               *)

LEMMA EditTyped ==
  ASSUME IInv, NEW v \in VMs, Edit(v)
  PROVE  \E e \in VmData : vm' = [vm EXCEPT ![v] = e]
<1> DEFINE d == vm[v]
<1>1. d \in VmData /\ d.aliases \in Aliases /\ d.lambdas \in Lambdas /\ d.stacks \in Stacks
  BY DEF IInv, TypeInv, VmData
<1>2. CASE \E n \in Names, x \in Bodies : vm' = [vm EXCEPT ![v].lambdas = Bind(@, n, x)]
  <2>1. PICK n \in Names, x \in Bodies : vm' = [vm EXCEPT ![v].lambdas = Bind(@, n, x)]
    BY <1>2
  <2>2. Bind(d.lambdas, n, x) \in Lambdas
    BY <1>1, BindTyped DEF Lambdas
  <2> DEFINE e == [d EXCEPT !.lambdas = Bind(d.lambdas, n, x)]
  <2>3. e \in VmData /\ vm' = [vm EXCEPT ![v] = e]
    BY <1>1, <2>1, <2>2 DEF VmData
  <2>4. QED
    BY <2>3
<1>3. CASE \E n, m \in Names : n # m /\ vm' = [vm EXCEPT ![v].aliases = Bind(@, n, m)]
  <2>1. PICK n \in Names, m \in Names : vm' = [vm EXCEPT ![v].aliases = Bind(@, n, m)]
    BY <1>3
  <2>2. Bind(d.aliases, n, m) \in Aliases
    BY <1>1, BindTyped DEF Aliases
  <2> DEFINE e == [d EXCEPT !.aliases = Bind(d.aliases, n, m)]
  <2>3. e \in VmData /\ vm' = [vm EXCEPT ![v] = e]
    BY <1>1, <2>1, <2>2 DEF VmData
  <2>4. QED
    BY <2>3
<1>4. CASE \E n \in DOMAIN vm[v].aliases : vm' = [vm EXCEPT ![v].aliases = Without(@, n)]
  <2>1. PICK n \in DOMAIN vm[v].aliases : vm' = [vm EXCEPT ![v].aliases = Without(@, n)]
    BY <1>4
  <2>2. Without(d.aliases, n) \in Aliases
    <3>1. DOMAIN d.aliases \subseteq Names /\ d.aliases \in [DOMAIN d.aliases -> Names]
      BY <1>1, PartialIs DEF Aliases
    <3>2. /\ DOMAIN Without(d.aliases, n) = DOMAIN d.aliases \ {n}
          /\ Without(d.aliases, n) \in [DOMAIN d.aliases \ {n} -> Names]
      BY <3>1 DEF Without
    <3>3. QED
      BY <3>1, <3>2, PartialIs DEF Aliases
  <2> DEFINE e == [d EXCEPT !.aliases = Without(d.aliases, n)]
  <2>3. e \in VmData /\ vm' = [vm EXCEPT ![v] = e]
    BY <1>1, <2>1, <2>2 DEF VmData
  <2>4. QED
    BY <2>3
<1>5. ASSUME NEW n \in StackNames, NEW q \in Seq(Held), vm' = [vm EXCEPT ![v].stacks = Bind(@, n, q)]
      PROVE  \E e \in VmData : vm' = [vm EXCEPT ![v] = e]
  <2>1. n \in OnStacks
    BY DEF OnStacks
  <2>2. Bind(d.stacks, n, q) \in Stacks
    BY <1>1, <2>1, BindTyped DEF Stacks
  <2> DEFINE e == [d EXCEPT !.stacks = Bind(d.stacks, n, q)]
  <2>3. e \in VmData /\ vm' = [vm EXCEPT ![v] = e]
    BY <1>1, <1>5, <2>2 DEF VmData
  <2>4. QED
    BY <2>3
<1>6. ASSUME NEW n PROVE ItemsOf(d, n) \in Seq(Held)
  BY <1>1, PartialIs DEF ItemsOf, Stacks
<1>7. CASE \E n \in StackNames, x \in Values : vm' = [vm EXCEPT ![v].stacks = Bind(@, n, Append(ItemsOf(vm[v], n), x))]
  <2>1. PICK n \in StackNames, x \in Values : vm' = [vm EXCEPT ![v].stacks = Bind(@, n, Append(ItemsOf(vm[v], n), x))]
    BY <1>7
  <2>2. Append(ItemsOf(d, n), x) \in Seq(Held)
    BY <1>6 DEF Held
  <2>3. QED
    BY <1>5, <2>1, <2>2
<1>8. CASE \E n \in StackNames : vm' = [vm EXCEPT ![v].stacks = Bind(@, n, ItemsOf(vm[v], n))]
  BY <1>5, <1>6, <1>8
<1>9. CASE \E n \in DOMAIN vm[v].stacks :
             DOMAIN vm[v].stacks # {n} /\ vm' = [vm EXCEPT ![v].stacks = Without(@, n)]
  <2>1. PICK n \in DOMAIN vm[v].stacks : vm' = [vm EXCEPT ![v].stacks = Without(@, n)]
    BY <1>9
  <2>2. Without(d.stacks, n) \in Stacks
    <3>1. DOMAIN d.stacks \subseteq OnStacks /\ d.stacks \in [DOMAIN d.stacks -> Seq(Held)]
      BY <1>1, PartialIs DEF Stacks
    <3>2. /\ DOMAIN Without(d.stacks, n) = DOMAIN d.stacks \ {n}
          /\ Without(d.stacks, n) \in [DOMAIN d.stacks \ {n} -> Seq(Held)]
      BY <3>1 DEF Without
    <3>3. QED
      BY <3>1, <3>2, PartialIs DEF Stacks
  <2> DEFINE e == [d EXCEPT !.stacks = Without(d.stacks, n)]
  <2>3. e \in VmData /\ vm' = [vm EXCEPT ![v] = e]
    BY <1>1, <2>1, <2>2 DEF VmData
  <2>4. QED
    BY <2>3
<1>10. QED
  BY <1>2, <1>3, <1>4, <1>7, <1>8, <1>9 DEF Edit

LEMMA ProgramKeeps ==
  ASSUME IInv, NEW v \in VMs, Program(v)
  PROVE  IInv'
<1>1. PICK e \in VmData : vm' = [vm EXCEPT ![v] = e]
  BY EditTyped DEF Program
<1>2. Changes(v, e) /\ frames' = frames /\ frames[v] = <<>>
  BY <1>1 DEF Program, Changes
<1>3. vm' \in [VMs -> VmData] /\ \A w \in VMs \ {v} : vm'[w] = vm[w]
  BY <1>1 DEF IInv, TypeInv
<1>4. frames' = [frames EXCEPT ![v] = <<>>]
  BY <1>2 DEF IInv, TypeInv
<1>5. FramesRight'
  BY <1>2, <1>3, <1>4, Ended DEF Changes
<1>6. QED
  BY <1>1, <1>2, <1>5, ChangesInv

LEMMA CallKeeps ==
  ASSUME IInv, NEW v \in VMs, Call(v)
  PROVE  IInv'
<1>1. PICK word \in Words, f \in Files : OpenWorld(v, <<>>, word, f)
  BY DEF Call
<1>2. Quiet /\ frames[v] = <<>>
  BY DEF Call, Quiet
<1>3. Calling(v, <<>>)
  BY <1>2 DEF Calling
<1>4. FramesRight'
  BY <1>1, <1>2, <1>3, Opened DEF Quiet
<1>5. QED
  BY <1>2, <1>4, QuietInv

LEMMA ReturnKeeps ==
  ASSUME IInv, NEW v \in VMs, Return(v)
  PROVE  IInv'
<1>1. Quiet
  BY DEF Return, Quiet
<1>2. FramesRight'
  BY Popped
<1>3. QED
  BY <1>1, <1>2, QuietInv

(* The bootstrap of v with its next script taken.                          *)
ScriptTaken(v) == [Top(v) EXCEPT !.texts = Tail(@)]
Rest(v) == [frames[v] EXCEPT ![Len(frames[v])].texts = Tail(@)]

LEMMA TakenRight ==
  ASSUME IInv, NEW v \in VMs, At(v, {"run"}), Top(v).texts # <<>>
  PROVE  /\ ScriptTaken(v) \in Frame /\ ScriptTaken(v).file = Top(v).file
         /\ ScriptTaken(v).word = "bootstrap" /\ ScriptTaken(v).todo = ToRun
         /\ Rest(v) = [frames[v] EXCEPT ![Len(frames[v])] = ScriptTaken(v)]
         /\ Calling(v, Rest(v))
<1> DEFINE t == Top(v)
           n == Len(frames[v])
<1>1. frames[v] # <<>> /\ t.todo # <<>> /\ Head(t.todo) = "run"
  BY DEF At, Step
<1>2. /\ t \in Frame /\ At1(t, vm[v], file[t.file]) /\ frames[v] \in Seq(Frame)
      /\ n \in DOMAIN frames[v] /\ DOMAIN frames[v] = 1 .. n /\ n \in Nat
      /\ t = frames[v][n]
  BY <1>1, Tops DEF IInv, Where
<1>3. t.word = "bootstrap" /\ t.todo = ToRun
  <2> HIDE DEF t
  <2>1. t.word \in Loaders
    BY <1>1, <1>2, LoaderSteps DEF Frame
  <2>2. QED
    BY <1>1, <1>2, <2>1, LoaderWhere
<1>4. Tail(t.texts) \in Seq(Texts)
  BY <1>2 DEF Frame
<1>5. /\ ScriptTaken(v) \in Frame /\ ScriptTaken(v).file = t.file
      /\ ScriptTaken(v).word = "bootstrap" /\ ScriptTaken(v).todo = ToRun
  BY <1>2, <1>3, <1>4 DEF ScriptTaken, Frame
<1>6. Rest(v) = [frames[v] EXCEPT ![n] = ScriptTaken(v)]
  BY DEF Rest, ScriptTaken, Top
<1>7. /\ Rest(v) \in Seq(Frame) /\ DOMAIN Rest(v) = DOMAIN frames[v] /\ Rest(v)[n] = ScriptTaken(v)
      /\ \A i \in DOMAIN frames[v] : i # n => Rest(v)[i] = frames[v][i]
  BY <1>2, <1>5, <1>6
<1>8. Calling(v, Rest(v))
  BY <1>2, <1>5, <1>7 DEF Calling, IInv, Below
<1>9. QED
  BY <1>5, <1>6, <1>8

LEMMA DoesRight ==
  ASSUME IInv, NEW v \in VMs, At(v, {"run"}), Top(v).texts # <<>>
  PROVE  LET next == Does(Head(Top(v).texts))
         IN IF next.word = "edit" THEN next.name \in Names /\ next.body \in Bodies
            ELSE next.word \in Words => next.file \in Files
<1>1. Top(v) \in Frame
  BY Tops DEF At, IInv
<1>2. Head(Top(v).texts) \in Texts
  BY <1>1 DEF Frame
<1>3. QED
  BY <1>2, WorldAssumption

LEMMA RunScriptKeeps ==
  ASSUME IInv, NEW v \in VMs, RunScript(v)
  PROVE  IInv'
<1> DEFINE t == Top(v)
           next == Does(Head(t.texts))
<1>1. At(v, {"run"}) /\ frames[v] # <<>> /\ t.todo # <<>> /\ Head(t.todo) = "run" /\ file' = file /\ whole' = whole
  BY DEF RunScript, At, Step
<1>2. CASE t.texts = <<>> /\ Advance(v) /\ vm' = vm
  <2>1. Quiet
    BY <1>1, <1>2 DEF Quiet
  <2>2. t \in Frame /\ At1(t, vm[v], file[t.file])
    BY <1>1, Tops DEF IInv, Where
  <2>3. t.todo = ToRun
    <3> HIDE DEF t
    <3>1. t.word \in Loaders
      BY <1>1, <2>2, LoaderSteps DEF Frame
    <3>2. QED
      BY <1>1, <2>2, <3>1, LoaderWhere
  <2>4. GoesOn(v, Advanced(v)) /\ Advanced(v) \in Frame /\ Advanced(v).todo = Tail(t.todo)
    BY <1>1, <1>2, <2>1, AdvancedGoesOn DEF Quiet, IInv, TypeInv
  <2>5. At1(Advanced(v), vm'[v], file'[Advanced(v).file])
    BY <2>3, <2>4, WaysOn DEF At1
  <2>6. QED
    BY <1>1, <2>1, <2>4, <2>5, WentOn, QuietInv
<1>3. CASE /\ t.texts # <<>> /\ next.word = "edit"
           /\ vm' = [vm EXCEPT ![v].lambdas = Bind(@, next.name, next.body)]
           /\ frames' = [frames EXCEPT ![v] = Rest(v)]
  <2> DEFINE d == vm[v]
             e == [d EXCEPT !.lambdas = Bind(d.lambdas, next.name, next.body)]
  <2>1. next.name \in Names /\ next.body \in Bodies
    BY <1>1, <1>3, DoesRight
  <2>2. d \in VmData /\ d.lambdas \in Lambdas
    BY DEF IInv, TypeInv, VmData
  <2>3. Bind(d.lambdas, next.name, next.body) \in Lambdas
    BY <2>1, <2>2, BindTyped DEF Lambdas
  <2>4. e \in VmData /\ Changes(v, e)
    BY <1>1, <1>3, <2>2, <2>3 DEF VmData, Changes
  <2>5. /\ ScriptTaken(v) \in Frame /\ ScriptTaken(v).file = t.file
        /\ ScriptTaken(v).word = "bootstrap" /\ ScriptTaken(v).todo = ToRun
        /\ Rest(v) = [frames[v] EXCEPT ![Len(frames[v])] = ScriptTaken(v)]
    BY <1>1, <1>3, TakenRight
  <2> HIDE DEF e
  <2>6. GoesOn(v, ScriptTaken(v))
    BY <1>3, <2>4, <2>5 DEF GoesOn, Changes, IInv, TypeInv
  <2>7. At1(ScriptTaken(v), vm'[v], file'[ScriptTaken(v).file])
    BY <2>5 DEF At1, BootstrapAt
  <2>8. FramesRight'
    BY <1>1, <2>5, <2>6, <2>7, WentOn
  <2>9. QED
    BY <2>4, <2>8, ChangesInv
<1>4. CASE t.texts # <<>> /\ next.word = "fail" /\ frames' = [frames EXCEPT ![v] = <<>>] /\ vm' = vm
  BY <1>1, <1>4, FailKeeps DEF Fail
<1>5. CASE /\ t.texts # <<>> /\ next.word \in Words
           /\ OpenWorld(v, Rest(v), next.word, next.file) /\ vm' = vm
  <2>1. Quiet
    BY <1>1, <1>5 DEF Quiet
  <2>2. next.word # "edit"
    BY <1>5 DEF Words, Savers, Loaders
  <2>3. next.file \in Files
    BY <1>1, <1>5, <2>2, DoesRight
  <2>4. Calling(v, Rest(v))
    BY <1>1, <1>5, TakenRight
  <2> HIDE DEF next
  <2>5. FramesRight'
    BY <1>5, <2>1, <2>3, <2>4, Opened DEF Quiet
  <2>6. QED
    BY <2>1, <2>5, QuietInv
<1>6. QED
  BY <1>2, <1>3, <1>4, <1>5 DEF RunScript, Rest

-----------------------------------------------------------------------------
(* The invariant.                                                          *)

LEMMA WorldTyped ==
  ASSUME NEW w, IsWorld(w)
  PROVE  w \in Tables
<1>1. w.aliases \subseteq Aliases
  BY PartialIs DEF IsWorld, IsPartial, Aliases
<1>2. w.lambdas \subseteq LambdaRows
  BY PartialIs DEF IsWorld, IsPartial, LambdaRows
<1>3. w.stacks \subseteq Stacks
  BY PartialIs DEF IsWorld, IsPartial, Stacks, OnStacks, Held
<1>4. w.scripts \subseteq Scripts
  BY PartialIs DEF IsWorld, IsPartial, Scripts
<1>5. w.models \subseteq Seq(Values)
  BY DEF IsWorld
<1>6. w = [aliases |-> w.aliases, lambdas |-> w.lambdas, stacks |-> w.stacks,
           scripts |-> w.scripts, models |-> w.models]
  BY DEF IsWorld
<1>7. QED
  BY <1>1, <1>2, <1>3, <1>4, <1>5, <1>6 DEF Tables

LEMMA InitRight == Init => IInv
<1> SUFFICES ASSUME Init PROVE IInv
  OBVIOUS
<1>1. vm \in [VMs -> VmData]
  BY NewVmTyped DEF Init
<1>2. file \in [Files -> Tables]
  <2>1. \A f \in Files : file[f] \in Tables
    BY WorldTyped, WorldAssumption DEF Init
  <2>2. file = [f \in Files |-> file[f]]
    BY DEF Init
  <2>3. QED
    BY <2>1, <2>2
<1>3. frames \in [VMs -> Seq(Frame)] /\ whole \in [Files -> SUBSET VmData]
  BY DEF Init
<1>4. Where /\ Below /\ OneHolder /\ WholeThere
  BY DEF Init, Where, Below, OneHolder, WholeThere
<1>5. QED
  BY <1>1, <1>2, <1>3, <1>4 DEF IInv, TypeInv

LEMMA CrashKeeps ==
  ASSUME IInv, Crash
  PROVE  IInv'
<1>1. TypeInv'
  BY NewVmTyped DEF IInv, TypeInv, Crash
<1>2. (Where /\ Below /\ OneHolder)'
  BY DEF Crash, Where, Below, OneHolder
<1>3. WholeThere'
  BY DEF IInv, WholeThere, Crash
<1>4. QED
  BY <1>1, <1>2, <1>3 DEF IInv

LEMMA StepKeeps == IInv /\ [Next]_vars => IInv'
<1> SUFFICES ASSUME IInv, [Next]_vars PROVE IInv'
  OBVIOUS
<1>1. CASE Crash
  BY <1>1, CrashKeeps
<1>2. ASSUME NEW v \in VMs, Program(v) \/ Call(v) PROVE IInv'
  BY <1>2, ProgramKeeps, CallKeeps
<1>3. ASSUME NEW v \in VMs, InWord(v) PROVE IInv'
  BY <1>3, WriteFamilyKeeps, PrimeKeeps, IsPrimedKeeps, WriteScriptKeeps, WriteModelKeeps, CommitKeeps,
     ReadFamilyKeeps, ReadModelsKeeps, FetchScriptKeeps, ReadScriptsKeeps, RunScriptKeeps, ReturnKeeps
     DEF InWord
<1>4. CASE UNCHANGED vars
  BY <1>4 DEF vars, IInv, TypeInv, Where, Below, OneHolder, WholeThere, Top
<1>5. QED
  BY <1>1, <1>2, <1>3, <1>4 DEF Next

(* In every state the process can be in, each open file has one holder,    *)
(* each draft holds what was written so far over the tables of a file that *)
(* has not changed, and each VM that loads has what was read so far.       *)
THEOREM WorldInductive == Spec => []IInv
<1>1. Init => IInv
  BY InitRight
<1>2. IInv /\ [Next]_vars => IInv'
  BY StepKeeps
<1>3. QED
  BY <1>1, <1>2, PTL DEF Spec

-----------------------------------------------------------------------------
(* What was saved, loaded.                                                 *)

(* A name that is not an alias stands for itself.                          *)
LEMMA TargetOfNoAlias ==
  ASSUME NEW d, NEW m, m \notin DOMAIN d.aliases
  PROVE  Target(d, m) = m
<1> DEFINE N == MaxLinks + 1
           IsHop(h) == h = [k \in 0 .. N |->
             IF k = 0 THEN m
             ELSE IF h[k - 1] \in DOMAIN d.aliases THEN d.aliases[h[k - 1]] ELSE h[k - 1]]
           hop == CHOOSE h : IsHop(h)
<1>1. N \in Nat
  BY WorldDataAssumption
<1>2. \E h : IsHop(h)
  <2> DEFINE g == [k \in 0 .. N |-> m]
  <2>1. IsHop(g)
    BY <1>1
  <2>2. QED
    BY <2>1
<1>3. IsHop(hop)
  <2> HIDE DEF IsHop
  <2>1. QED
    BY <1>2
<1>4. Target(d, m) = hop[N]
  BY DEF Target
<1> HIDE DEF hop
<1> DEFINE Wrong == {k \in 0 .. N : hop[k] # m}
<1>5. Wrong = {}
  <2> SUFFICES ASSUME Wrong # {} PROVE FALSE
    OBVIOUS
  <2>1. Wrong \in SUBSET Nat
    OBVIOUS
  <2>2. PICK k \in Wrong : \A j \in Wrong : k <= j
    <3> HIDE DEF Wrong
    <3>1. QED
      BY <2>1, LeastNat
  <2>3. k # 0
    BY <1>1, <1>3
  <2>4. k - 1 \in 0 .. N /\ k - 1 \notin Wrong
    BY <1>1, <2>2, <2>3
  <2>5. hop[k] = m
    BY <1>3, <2>2, <2>3, <2>4
  <2>6. QED
    BY <2>5
<1>6. QED
  BY <1>1, <1>4, <1>5

(* A fresh VM has nothing the rows are put over.                           *)
LEMMA PlacedFresh ==
  ASSUME NEW a \in Aliases, NEW L \in Lambdas, NEW S \in Stacks
  PROVE  LET p == Placed(NewVm, "aliases", a)
             l == Placed(p, "lambdas", L)
         IN /\ p = [aliases |-> a, lambdas |-> NoEntry, stacks |-> NewVm.stacks]
            /\ l = [aliases |-> a, lambdas |-> L, stacks |-> NewVm.stacks]
            /\ Placed(l, "stacks", S) = [aliases |-> a, lambdas |-> L, stacks |-> Over(S, NewVm.stacks)]
<1> DEFINE p == Placed(NewVm, "aliases", a)
           l == Placed(p, "lambdas", L)
           T == NewVm.stacks
           G == [n \in DOMAIN S |-> IF n \in DOMAIN T THEN T[n] \o S[n] ELSE S[n]]
<1>1. ASSUME NEW X, NEW Y, NEW f \in Partial(X, Y) PROVE Over(f, NoEntry) = f
  BY PartialIs DEF Over, NoEntry
<1>2. Over(a, NoEntry) = a /\ Over(L, NoEntry) = L
  BY <1>1 DEF Aliases, Lambdas
<1>3. p = [aliases |-> a, lambdas |-> NoEntry, stacks |-> T]
  BY <1>2 DEF Placed, NewVm
<1> HIDE DEF p
<1>4. l = [aliases |-> a, lambdas |-> L, stacks |-> T]
  BY <1>2, <1>3 DEF Placed
<1> HIDE DEF l
<1>5. Placed(l, "stacks", S) = [aliases |-> a, lambdas |-> L, stacks |-> Over(G, T)]
  BY <1>4 DEF Placed
<1>6. T = [n \in {Main} |-> <<>>]
  BY DEF NewVm
<1>7. S \in [DOMAIN S -> Seq(Held)]
  BY PartialIs DEF Stacks
<1>8. \A n \in DOMAIN S : <<>> \o S[n] = S[n]
  BY <1>7
<1>9. G = S
  BY <1>6, <1>7, <1>8
<1>10. QED
  BY <1>3, <1>4, <1>5, <1>9 DEF p, l

(* What a fresh VM takes from a world that was saved.                      *)
LEMMA LoadsAsSaved ==
  ASSUME NEW d \in VmData, NEW b \in Tables,
         b.aliases = {Written(d, "aliases")}, b.lambdas = {Written(d, "lambdas")},
         b.stacks = {Written(d, "stacks")}
  PROVE  LET e == LoadAll(NewVm, b)
             L == Written(d, "lambdas")
         IN /\ e.aliases = d.aliases /\ e.lambdas = Kept("lambdas", L)
            /\ e.stacks = IF Legible("lambdas", L) THEN Over(Kept("stacks", d.stacks), NewVm.stacks)
                          ELSE NewVm.stacks
<1> DEFINE L == Written(d, "lambdas")
           K == Kept("lambdas", L)
           S == Kept("stacks", d.stacks)
           p == Placed(NewVm, "aliases", d.aliases)
           l == Placed(p, "lambdas", K)
           e == LoadAll(NewVm, b)
<1>1. Written(d, "aliases") = d.aliases /\ Written(d, "stacks") = d.stacks
  BY WrittenTyped
<1>2. d.aliases \in Aliases /\ L \in LambdaRows /\ d.stacks \in Stacks
  BY WrittenTyped
<1>3. K \in Lambdas /\ S \in Stacks
  BY <1>2, KeptTyped
<1>4. /\ Has(b.aliases) /\ In(b.aliases) = d.aliases
      /\ Has(b.lambdas) /\ In(b.lambdas) = L
      /\ Has(b.stacks) /\ In(b.stacks) = d.stacks
  BY <1>1, InOne
<1> HIDE DEF L
<1>5. Sound("aliases", b)
  BY <1>4 DEF Sound, Legible, Decodes
<1>6. Sound("lambdas", b) <=> Legible("lambdas", L)
  BY <1>4 DEF Sound
<1>7. Taken(NewVm, "aliases", b) = p
  BY <1>2, <1>4, KeptTyped DEF Taken, Loaded
<1> HIDE DEF p
<1>8. Taken(p, "lambdas", b) = l
  BY <1>4 DEF Taken, Loaded
<1> HIDE DEF l
<1>9. Taken(l, "stacks", b) = Placed(l, "stacks", S)
  BY <1>4 DEF Taken, Loaded
<1>10. e = IF Legible("lambdas", L) THEN Placed(l, "stacks", S) ELSE l
  BY <1>5, <1>6, <1>7, <1>8, <1>9 DEF LoadAll
<1>11. /\ l = [aliases |-> d.aliases, lambdas |-> K, stacks |-> NewVm.stacks]
       /\ Placed(l, "stacks", S) = [aliases |-> d.aliases, lambdas |-> K, stacks |-> Over(S, NewVm.stacks)]
  BY <1>2, <1>3, PlacedFresh DEF p, l
<1> HIDE DEF e, K, S
<1>12. /\ e.aliases = d.aliases /\ e.lambdas = K
       /\ e.stacks = IF Legible("lambdas", L) THEN Over(S, NewVm.stacks) ELSE NewVm.stacks
  BY <1>10, <1>11
<1>13. QED
  BY <1>12 DEF e, K, S, L

(* The stacks a load makes of stacks S that were saved.                    *)
IsBottoms(T, S) ==
  /\ DOMAIN T \subseteq DOMAIN S \cup {Main}
  /\ \A n \in DOMAIN T :
       LET was == IF n \in DOMAIN S THEN S[n] ELSE <<>>
       IN \E k \in 0 .. Len(was) : T[n] = SubSeq(was, 1, k)

LEMMA BottomsLoad ==
  ASSUME NEW S \in Stacks
  PROVE  /\ IsBottoms(Over(Kept("stacks", S), NewVm.stacks), S)
         /\ IsBottoms(NewVm.stacks, S)
<1> DEFINE K == Kept("stacks", S)
           T == Over(K, NewVm.stacks)
<1>1. S \in [DOMAIN S -> Seq(Held)]
  BY PartialIs DEF Stacks
<1>2. K = [m \in Reached("stacks", S) |-> Readable(S[m])]
  BY DEF Kept
<1>3. Reached("stacks", S) \subseteq DOMAIN S
  BY DEF Reached
<1>4. NewVm.stacks = [m \in {Main} |-> <<>>]
  BY DEF NewVm
<1> HIDE DEF K
<1>5. /\ DOMAIN T = DOMAIN K \cup {Main}
      /\ \A n \in DOMAIN T : T[n] = IF n \in DOMAIN K THEN K[n] ELSE <<>>
  BY <1>4 DEF Over
<1> HIDE DEF T
<1>6. ASSUME NEW q \in Seq(Held)
      PROVE  \E k \in 0 .. Len(q) : <<>> = SubSeq(q, 1, k)
  <2>1. SubSeq(q, 1, 0) = <<>> /\ 0 \in 0 .. Len(q)
    OBVIOUS
  <2>2. QED
    BY <2>1
<1>7. ASSUME NEW n PROVE (IF n \in DOMAIN S THEN S[n] ELSE <<>>) \in Seq(Held)
  BY <1>1
<1>8. ASSUME NEW n \in DOMAIN K
      PROVE  n \in DOMAIN S /\ \E k \in 0 .. Len(S[n]) : K[n] = SubSeq(S[n], 1, k)
  <2>1. n \in DOMAIN S /\ K[n] = Readable(S[n]) /\ S[n] \in Seq(Held)
    BY <1>1, <1>2, <1>3
  <2>2. QED
    BY <2>1, ReadableIs
<1>9. IsBottoms(NewVm.stacks, S)
  BY <1>4, <1>6, <1>7 DEF IsBottoms
<1>10. IsBottoms(T, S)
  <2>1. DOMAIN T \subseteq DOMAIN S \cup {Main}
    BY <1>5, <1>8
  <2>2. ASSUME NEW n \in DOMAIN T, NEW was, was = IF n \in DOMAIN S THEN S[n] ELSE <<>>
        PROVE  \E k \in 0 .. Len(was) : T[n] = SubSeq(was, 1, k)
    <3>1. CASE n \in DOMAIN K
      BY <1>5, <1>8, <2>2, <3>1
    <3>2. CASE n \notin DOMAIN K
      BY <1>5, <1>6, <1>7, <2>2, <3>2
    <3>3. QED
      BY <3>1, <3>2
  <2>3. QED
    BY <2>1, <2>2 DEF IsBottoms
<1>11. QED
  BY <1>9, <1>10 DEF T, K

LEMMA RoundTripNow == IInv => RoundTrip
<1> SUFFICES ASSUME IInv, NEW f \in Files, NEW d \in whole[f], NEW e, e = LoadAll(NewVm, file[f])
             PROVE  /\ e.aliases = d.aliases
                    /\ IsBottoms(e.stacks, d.stacks)
                    /\ \A n \in Names : Ends(d, n) => LambdaOf(e, n) \subseteq LambdaOf(d, n)
                    /\ (\A family \in Families : Legible(family, Written(d, family)))
                         => /\ e.stacks = Over(d.stacks, NewVm.stacks)
                            /\ \A n \in Names : Ends(d, n) => LambdaOf(e, n) = LambdaOf(d, n)
  BY DEF RoundTrip, IsBottoms, ItemsOf
<1> DEFINE L == Written(d, "lambdas")
           K == Kept("lambdas", L)
           T == Over(Kept("stacks", d.stacks), NewVm.stacks)
<1>1. /\ d \in VmData /\ file[f] \in Tables
      /\ file[f].aliases = {Written(d, "aliases")}
      /\ file[f].lambdas = {Written(d, "lambdas")}
      /\ file[f].stacks = {Written(d, "stacks")}
  BY DEF IInv, TypeInv, WholeThere
<1>2. Written(d, "stacks") = d.stacks /\ L \in LambdaRows /\ d.stacks \in Stacks
  BY <1>1, WrittenTyped
<1>3. /\ e.aliases = d.aliases /\ e.lambdas = K
      /\ e.stacks = IF Legible("lambdas", L) THEN T ELSE NewVm.stacks
  BY <1>1, LoadsAsSaved
<1> HIDE DEF K, L
<1>4. IsBottoms(e.stacks, d.stacks)
  BY <1>2, <1>3, BottomsLoad
<1>5. ASSUME NEW n \in Names, Ends(d, n)
      PROVE  /\ LambdaOf(e, n) \subseteq LambdaOf(d, n)
             /\ Legible("lambdas", L) => LambdaOf(e, n) = LambdaOf(d, n)
  <2> DEFINE m == Target(d, n)
  <2>1. Target(e, n) = m
    BY <1>3 DEF Target
  <2>2. Target(d, m) = m
    BY <1>5, TargetOfNoAlias DEF Ends
  <2>3. m \notin Natives
    BY <1>5 DEF Ends
  <2>4. DOMAIN K \subseteq DOMAIN L /\ \A k \in DOMAIN K : K[k] = L[k]
    BY DEF Kept, Reached, K
  <2>5. Legible("lambdas", L) => K = L
    BY <1>2, KeptLegible DEF K
  <2> HIDE DEF m
  <2>6. CASE m \in DOMAIN d.lambdas
    <3>1. LambdaOf(d, m) = {d.lambdas[m]} /\ LambdaOf(d, n) = {d.lambdas[m]}
      BY <2>2, <2>6 DEF LambdaOf, m
    <3>2. m \in LambdaNames(d)
      BY <2>3, <2>6 DEF LambdaNames
    <3>3. m \in DOMAIN L /\ L[m] = In(LambdaOf(d, m))
      BY <3>1, <3>2 DEF Written, L
    <3>4. L[m] = d.lambdas[m]
      BY <3>1, <3>3, InOne
    <3>5. LambdaOf(e, n) = IF m \in DOMAIN K THEN {K[m]} ELSE {}
      BY <1>3, <2>1 DEF LambdaOf
    <3>6. QED
      BY <2>4, <2>5, <3>1, <3>3, <3>4, <3>5
  <2>7. CASE m \notin DOMAIN d.lambdas
    <3>1. m \notin DOMAIN L
      BY <2>7 DEF Written, LambdaNames, L
    <3>2. LambdaOf(e, n) = {}
      BY <1>3, <2>1, <2>4, <3>1 DEF LambdaOf
    <3>3. LambdaOf(d, n) = {}
      BY <2>7 DEF LambdaOf, m
    <3>4. QED
      BY <3>2, <3>3
  <2>8. QED
    BY <2>6, <2>7
<1>6. ASSUME \A family \in Families : Legible(family, Written(d, family))
      PROVE  Legible("lambdas", L) /\ e.stacks = Over(d.stacks, NewVm.stacks)
  <2>1. Legible("lambdas", L) /\ Legible("stacks", d.stacks)
    BY <1>2, <1>6 DEF Families, L
  <2>2. Kept("stacks", d.stacks) = d.stacks
    BY <1>2, <2>1, KeptLegible
  <2>3. QED
    BY <1>3, <2>1, <2>2
<1>7. QED
  BY <1>3, <1>4, <1>5, <1>6

(* Whatever names, aliases, natives and stacks there are, and however      *)
(* scripts and crashes interleave: what save wrote, a VM that starts       *)
(* afresh loads as the stacks, beside its own main one, the aliases and    *)
(* the lambdas that were saved when all of it decodes, and otherwise as a  *)
(* part of them and nothing else (save_world, load_lambdas, load_stacks).  *)
THEOREM AlwaysRoundTrip == Spec => []RoundTrip
<1>1. IInv => RoundTrip
  BY RoundTripNow
<1>2. QED
  BY <1>1, WorldInductive, PTL

-----------------------------------------------------------------------------
(* The words as WorldStore has them.                                       *)

Memory == [v \in VMs |-> IF Loading(v) THEN Top(v).before ELSE vm[v]]
Asked == [v \in VMs |-> [i \in DOMAIN frames[v] |-> frames[v][i].word]]

(* What of them is a VM's, from its frames and its data.                   *)
LoadingIn(fs) ==
  /\ fs # <<>> /\ fs[Len(fs)].todo # <<>> /\ Head(fs[Len(fs)].todo) \in Families
  /\ fs[Len(fs)].word \in Loaders
MemoryOf(fs, d) == IF LoadingIn(fs) THEN fs[Len(fs)].before ELSE d
AskedOf(fs) == [i \in DOMAIN fs |-> fs[i].word]

LEMMA MappedVm ==
  ASSUME NEW v \in VMs
  PROVE  /\ Memory[v] = MemoryOf(frames[v], vm[v]) /\ Memory'[v] = MemoryOf(frames'[v], vm'[v])
         /\ Asked[v] = AskedOf(frames[v]) /\ Asked'[v] = AskedOf(frames'[v])
BY DEF Memory, MemoryOf, Asked, AskedOf, Loading, LoadingIn, At, Step, Top

LEMMA NothingAsked == AskedOf(<<>>) = <<>>
BY DEF AskedOf

(* A step of v leaves the other VMs alone.                                 *)
StepOf(v) == \A w \in VMs \ {v} : frames'[w] = frames[w] /\ vm'[w] = vm[w]

LEMMA OthersStay ==
  ASSUME NEW v \in VMs, StepOf(v)
  PROVE  Memory' = [Memory EXCEPT ![v] = Memory'[v]] /\ Asked' = [Asked EXCEPT ![v] = Asked'[v]]
<1>1. \A w \in VMs \ {v} : Memory'[w] = Memory[w] /\ Asked'[w] = Asked[w]
  BY MappedVm DEF StepOf
<1>2. /\ Memory = [w \in VMs |-> Memory[w]] /\ Memory' = [w \in VMs |-> Memory'[w]]
      /\ Asked = [w \in VMs |-> Asked[w]] /\ Asked' = [w \in VMs |-> Asked'[w]]
  BY DEF Memory, Asked
<1>3. QED
  BY <1>1, <1>2

LEMMA AskStep ==
  ASSUME NEW v \in VMs, StepOf(v), Memory'[v] = Memory[v], file' = file
  PROVE  Store!Ask(v)
<1>1. Memory' = Memory /\ Asked' = [Asked EXCEPT ![v] = Asked'[v]]
  BY OthersStay DEF Memory
<1>2. QED
  BY <1>1 DEF Store!Ask, Memory, Asked

(* The word of v goes on to h.                                             *)
LEMMA MappedOn ==
  ASSUME TypeInv, NEW v \in VMs, frames[v] # <<>>, NEW h, h.word = Top(v).word,
         frames' = [frames EXCEPT ![v] = [frames[v] EXCEPT ![Len(frames[v])] = h]]
  PROVE  /\ frames'[v] # <<>> /\ frames'[v][Len(frames'[v])] = h
         /\ Asked'[v] = Asked[v]
         /\ \A w \in VMs \ {v} : frames'[w] = frames[w]
<1> DEFINE n == Len(frames[v])
           new == [frames[v] EXCEPT ![n] = h]
<1>1. /\ n \in DOMAIN frames[v] /\ DOMAIN frames[v] = 1 .. n /\ n \in Nat /\ n # 0
      /\ Top(v) = frames[v][n]
  BY Tops
<1>2. frames \in [VMs -> Seq(Frame)]
  BY DEF TypeInv
<1>3. frames'[v] = new /\ \A w \in VMs \ {v} : frames'[w] = frames[w]
  BY <1>2
<1>4. /\ DOMAIN new = 1 .. n /\ new[n] = h
      /\ \A i \in 1 .. n : i # n => new[i] = frames[v][i]
  BY <1>1
<1>5. Len(new) = n /\ new # <<>>
  BY <1>1, <1>4
<1>6. AskedOf(new) = AskedOf(frames[v])
  BY <1>1, <1>4 DEF AskedOf
<1>7. QED
  BY <1>3, <1>4, <1>5, <1>6, MappedVm

(* What a word does before it has read anything, and a saver before its    *)
(* commit, nobody sees.                                                    *)
LEMMA SaverAsks ==
  ASSUME IInv, NEW v \in VMs, frames[v] # <<>>, Top(v).word \in Savers, vm' = vm, file' = file,
         \/ frames' = [frames EXCEPT ![v] = <<>>]
         \/ Advance(v)
         \/ \E dr : WithDraft(v, dr)
  PROVE  Store!Ask(v)
<1>1. Memory[v] = vm[v]
  <2>1. Top(v).word \notin Loaders
    BY DEF Savers, Loaders
  <2>2. QED
    BY <2>1, MappedVm DEF MemoryOf, LoadingIn, Top
<1>2. CASE frames' = [frames EXCEPT ![v] = <<>>]
  <2>1. frames'[v] = <<>> /\ StepOf(v)
    BY <1>2 DEF IInv, TypeInv, StepOf
  <2>2. Memory'[v] = vm[v]
    BY <2>1, MappedVm DEF MemoryOf, LoadingIn
  <2>3. QED
    BY <1>1, <2>1, <2>2, AskStep
<1>3. ASSUME NEW h, h.word = Top(v).word,
             frames' = [frames EXCEPT ![v] = [frames[v] EXCEPT ![Len(frames[v])] = h]]
      PROVE  Store!Ask(v)
  <2>1. /\ frames'[v] # <<>> /\ frames'[v][Len(frames'[v])] = h
        /\ \A w \in VMs \ {v} : frames'[w] = frames[w]
    BY <1>3, MappedOn DEF IInv
  <2>2. h.word \notin Loaders
    BY <1>3 DEF Savers, Loaders
  <2>3. Memory'[v] = vm[v]
    BY <2>1, <2>2, MappedVm DEF MemoryOf, LoadingIn
  <2>4. StepOf(v)
    BY <2>1 DEF StepOf
  <2>5. QED
    BY <1>1, <2>3, <2>4, AskStep
<1>4. Top(v) \in Frame
  BY Tops DEF IInv
<1>5. CASE Advance(v)
  <2>1. frames' = [frames EXCEPT ![v] = [frames[v] EXCEPT ![Len(frames[v])] = Advanced(v)]]
    BY <1>5 DEF Advance, Advanced, Top
  <2>2. Advanced(v).word = Top(v).word
    BY <1>4 DEF Advanced, Frame
  <2>3. QED
    BY <1>3, <2>1, <2>2
<1>6. CASE \E dr : WithDraft(v, dr)
  <2>1. PICK dr : WithDraft(v, dr)
    BY <1>6
  <2>2. frames' = [frames EXCEPT ![v] = [frames[v] EXCEPT ![Len(frames[v])] = Drafted(v, dr)]]
    BY <2>1 DEF WithDraft, Drafted
  <2>3. Drafted(v, dr).word = Top(v).word
    BY <1>4 DEF Drafted, Frame
  <2>4. QED
    BY <1>3, <2>2, <2>3
<1>7. QED
  BY <1>2, <1>5, <1>6

LEMMA DraftsUnseen ==
  ASSUME IInv, NEW v \in VMs,
         WriteFamily(v) \/ PrimeBootstrap(v) \/ IsPrimed(v) \/ WriteScript(v) \/ WriteModel(v)
  PROVE  Store!Ask(v)
<1> DEFINE t == Top(v)
<1>1. frames[v] # <<>> /\ t.todo # <<>> /\ vm' = vm
  BY DEF WriteFamily, PrimeBootstrap, IsPrimed, WriteScript, WriteModel, At
<1>2. At1(t, vm[v], file[t.file])
  BY <1>1 DEF IInv, Where
<1>3. t.word \in Savers
  <2>1. CASE WriteFamily(v)
    BY <2>1 DEF WriteFamily
  <2>2. CASE ~WriteFamily(v)
    <3>1. Head(t.todo) \in {"prime", "primed", "script", "model"}
      BY <2>2 DEF PrimeBootstrap, IsPrimed, WriteScript, WriteModel, At, Step
    <3> HIDE DEF t
    <3>2. QED
      BY <1>1, <1>2, <3>1, SaverWhere DEF Savers
  <2>3. QED
    BY <2>1, <2>2
<1>4. /\ file' = file
      /\ \/ frames' = [frames EXCEPT ![v] = <<>>]
         \/ Advance(v)
         \/ \E dr : WithDraft(v, dr)
  BY DEF WriteFamily, PrimeBootstrap, IsPrimed, WriteScript, WriteModel, Fail
<1>5. QED
  BY <1>1, <1>3, <1>4, SaverAsks

LEMMA StoreIn == \A c : Store!In(c) = In(c) /\ Store!Has(c) = Has(c)
BY DEF Store!In, In, Store!Has, Has

LEMMA StoreBind == \A c, x, y : Store!Bind(c, x, y) = Bind(c, x, y)
BY DEF Store!Bind, Bind

LEMMA StoreData ==
  /\ Store!Families = Families /\ Store!NoEntry = NoEntry /\ Store!NewVm = NewVm
  /\ \A d, x : Store!Written(d, x) = Written(d, x)
  /\ \A d, x : Store!Writable(d, x) = Writable(d, x)
  /\ \A x, c : Store!Decodes(x, c) = Decodes(x, c)
  /\ \A q : Store!Readable(q) = Readable(q)
  /\ \A d, x, b : Store!Taken(d, x, b) = Taken(d, x, b)
  /\ \A x, b : Store!Sound(x, b) = Sound(x, b)
  /\ \A d, b : Store!LoadAll(d, b) = LoadAll(d, b)
<1>1. Store!Families = Families /\ Store!NoEntry = NoEntry /\ Store!NewVm = NewVm
  BY DEF Store!Families, Families, Store!NoEntry, NoEntry, Store!NewVm, NewVm
<1>2. ASSUME NEW d, NEW x PROVE Store!LambdaOf(d, x) = LambdaOf(d, x)
  BY DEF Store!LambdaOf, LambdaOf, Store!Target, Target
<1>3. ASSUME NEW d PROVE Store!LambdaNames(d) = LambdaNames(d)
  BY DEF Store!LambdaNames, LambdaNames
<1>4. ASSUME NEW d, NEW x PROVE Store!Written(d, x) = Written(d, x)
  BY <1>2, <1>3, StoreIn DEF Store!Written, Written
<1>5. ASSUME NEW d, NEW x PROVE Store!Writable(d, x) = Writable(d, x)
  BY <1>2, <1>3 DEF Store!Writable, Writable
<1>6. ASSUME NEW x, NEW c PROVE Store!Decodes(x, c) = Decodes(x, c)
  BY DEF Store!Decodes, Decodes
<1>7. ASSUME NEW q PROVE Store!Readable(q) = Readable(q)
  BY <1>6 DEF Store!Readable, Readable
<1>8. ASSUME NEW x, NEW c PROVE Store!Reached(x, c) = Reached(x, c)
  BY <1>6 DEF Store!Reached, Reached
<1>9. ASSUME NEW x, NEW c PROVE Store!Kept(x, c) = Kept(x, c)
  BY <1>7, <1>8 DEF Store!Kept, Kept
<1>10. ASSUME NEW d, NEW x, NEW c PROVE Store!Placed(d, x, c) = Placed(d, x, c)
  BY DEF Store!Placed, Placed, Store!Over, Over
<1>11. ASSUME NEW d, NEW x, NEW c PROVE Store!Loaded(d, x, c) = Loaded(d, x, c)
  BY <1>9, <1>10 DEF Store!Loaded, Loaded
<1>12. ASSUME NEW d, NEW x, NEW b PROVE Store!Taken(d, x, b) = Taken(d, x, b)
  BY <1>11, StoreIn DEF Store!Taken, Taken
<1>13. ASSUME NEW x, NEW c PROVE Store!Legible(x, c) = Legible(x, c)
  BY <1>6 DEF Store!Legible, Legible
<1>14. ASSUME NEW x, NEW b PROVE Store!Sound(x, b) = Sound(x, b)
  BY <1>13, StoreIn DEF Store!Sound, Sound
<1>15. ASSUME NEW d, NEW b PROVE Store!LoadAll(d, b) = LoadAll(d, b)
  BY <1>12, <1>14 DEF Store!LoadAll, LoadAll
<1>16. QED
  BY <1>1, <1>4, <1>5, <1>6, <1>7, <1>12, <1>14, <1>15

(* The word that v is in.                                                  *)
LEMMA WithinIs ==
  ASSUME TypeInv, NEW v \in VMs, frames[v] # <<>>, NEW words
  PROVE  Store!Within(v, words) <=> Top(v).word \in words
<1> DEFINE n == Len(frames[v])
<1>1. frames[v] \in Seq(Frame) /\ n \in Nat /\ n # 0 /\ DOMAIN frames[v] = 1 .. n /\ Top(v) = frames[v][n]
  BY Tops
<1>2. AskedOf(frames[v]) # <<>> /\ Len(AskedOf(frames[v])) = n /\ AskedOf(frames[v])[n] = frames[v][n].word
  BY <1>1 DEF AskedOf
<1>3. Asked[v] = AskedOf(frames[v])
  BY MappedVm
<1>4. Store!Within(v, words) <=> Asked[v] # <<>> /\ Asked[v][Len(Asked[v])] \in words
  BY DEF Store!Within, Asked
<1>5. QED
  BY <1>1, <1>2, <1>3, <1>4

LEMMA CommitSaves ==
  ASSUME IInv, NEW v \in VMs, Commit(v), NEW f \in Files, f = Top(v).file
  PROVE  \/ Store!Save(v, f) \/ Store!SaveScript(v, f) \/ Store!SaveModel(v, f)
         \/ \E family \in Store!Families : Store!SaveFamily(v, f, family)
<1> DEFINE t == Top(v)
           d == vm[v]
           b == file[f]
<1>1. /\ frames[v] # <<>> /\ t.todo # <<>> /\ Head(t.todo) = "commit" /\ vm' = vm /\ Advance(v)
      /\ file' = [file EXCEPT ![f] = t.draft]
  BY DEF Commit, At, Step
<1>2. t \in Frame /\ d \in VmData /\ b \in Tables /\ At1(t, d, b) /\ f \in Files
  <2>1. t \in Frame /\ d \in VmData /\ b \in Tables /\ At1(t, d, b)
    BY <1>1, Tops DEF IInv, Where
  <2>2. QED
    BY <2>1 DEF Frame
<1>3. /\ file \in [Files -> Tables] /\ file'[f] = t.draft
  BY <1>1, <1>2 DEF IInv, TypeInv
<1>4. /\ frames'[v] # <<>> /\ frames'[v][Len(frames'[v])] = Advanced(v)
      /\ Asked'[v] = Asked[v] /\ \A w \in VMs \ {v} : frames'[w] = frames[w]
      /\ Advanced(v).todo = Tail(t.todo)
  <2>1. frames' = [frames EXCEPT ![v] = [frames[v] EXCEPT ![Len(frames[v])] = Advanced(v)]]
    BY <1>1 DEF Advance, Advanced, Top
  <2>2. Advanced(v).word = Top(v).word /\ Advanced(v).todo = Tail(t.todo)
    BY <1>2 DEF Advanced, Frame
  <2>3. QED
    BY <1>1, <2>1, <2>2, MappedOn DEF IInv
<1>5. t.todo = ToCommit
  <2> HIDE DEF t, d, b
  <2>1. QED
    BY <1>1, <1>2, SaverWhere
<1>6. Memory[v] = d /\ Memory'[v] = d
  <2>1. Head(t.todo) \notin Families
    BY <1>1 DEF Families
  <2>2. Advanced(v).todo = <<>>
    BY <1>4, <1>5, WaysOn
  <2>3. QED
    BY <1>1, <1>4, <2>1, <2>2, MappedVm DEF MemoryOf, LoadingIn, Top
<1>7. UNCHANGED <<Memory, Asked>>
  <2>1. StepOf(v)
    BY <1>1, <1>4 DEF StepOf
  <2>2. Memory' = Memory
    BY <1>6, <2>1, OthersStay DEF Memory
  <2>3. Asked' = Asked
    BY <1>4, <2>1, OthersStay DEF Asked
  <2>4. QED
    BY <2>2, <2>3
<1> HIDE DEF t, d, b
<1>8. CASE t.word = "save"
  <2>1. /\ Writable(d, "lambdas") /\ Writable(d, "stacks")
        /\ t.draft = [WithStacks(WithLambdas(WithAliases(b, d), d), d) EXCEPT !.scripts = {NoEntry}]
    BY <1>1, <1>2, <1>8, CommitWhere
  <2>2. t.draft = [family \in DOMAIN b |->
          IF family \in Families THEN {Written(d, family)}
          ELSE IF family = "scripts" THEN {NoEntry} ELSE b[family]]
    BY <1>2, <2>1 DEF WithAliases, WithLambdas, WithStacks, Tables, Families
  <2>3. \A family \in Families : Writable(d, family)
    BY <2>1 DEF Families, Writable
  <2>4. Store!Within(v, {"save"})
    BY <1>1, <1>8, WithinIs DEF IInv, t
  <2>5. file' = [file EXCEPT ![f] = [family \in DOMAIN @ |->
          IF family \in Families THEN {Written(Memory[v], family)}
          ELSE IF family = "scripts" THEN {NoEntry} ELSE @[family]]]
    BY <1>1, <1>6, <2>2 DEF b
  <2>6. Store!Save(v, f)
    BY <1>6, <1>7, <2>3, <2>4, <2>5, StoreData DEF Store!Save, Memory, Asked
  <2>7. QED
    BY <2>6
<1>9. ASSUME NEW family \in Families, t.word = Saver(family), Writable(d, family),
             t.draft = [b EXCEPT ![family] = {Written(d, family)}]
      PROVE  Store!SaveFamily(v, f, family)
  <2>1. Store!Within(v, {Store!Saver(family)})
    BY <1>1, <1>9, WithinIs DEF IInv, t, Saver, Store!Saver
  <2>2. file' = [file EXCEPT ![f][family] = {Written(Memory[v], family)}]
    BY <1>1, <1>6, <1>9 DEF b
  <2>3. QED
    BY <1>6, <1>7, <1>9, <2>1, <2>2, StoreData DEF Store!SaveFamily, Memory, Asked
<1>10. CASE t.word = "save.aliases"
  <2>1. t.draft = WithAliases(b, d)
    BY <1>1, <1>2, <1>10, CommitWhere
  <2>2. Store!SaveFamily(v, f, "aliases")
    BY <1>9, <1>10, <2>1 DEF Families, Saver, Writable, WithAliases
  <2>3. QED
    BY <2>2, StoreData DEF Families
<1>11. CASE t.word = "save.lambdas"
  <2>1. t.draft = WithLambdas(b, d) /\ Writable(d, "lambdas")
    BY <1>1, <1>2, <1>11, CommitWhere
  <2>2. Store!SaveFamily(v, f, "lambdas")
    BY <1>9, <1>11, <2>1 DEF Families, Saver, WithLambdas
  <2>3. QED
    BY <2>2, StoreData DEF Families
<1>12. CASE t.word = "save.stacks"
  <2>1. t.draft = WithStacks(b, d) /\ Writable(d, "stacks")
    BY <1>1, <1>2, <1>12, CommitWhere
  <2>2. Store!SaveFamily(v, f, "stacks")
    BY <1>9, <1>12, <2>1 DEF Families, Saver, WithStacks
  <2>3. QED
    BY <2>2, StoreData DEF Families
<1>13. CASE t.word = "save.script"
  <2>1. Has(b.scripts) /\ WithScript(t, b)
    BY <1>1, <1>2, <1>13, CommitWhere
  <2>2. PICK n \in ScriptNames, x \in Texts : t.draft = [b EXCEPT !.scripts = {Bind(In(b.scripts), n, x)}]
    BY <2>1 DEF WithScript
  <2> DEFINE c == Bind(In(b.scripts), n, x)
  <2>3. n \in DOMAIN c /\ c[n] = x
    BY DEF Bind
  <2> HIDE DEF c
  <2>4. file'[f].scripts = {c}
    BY <1>2, <1>3, <2>2 DEF Tables, c
  <2>5. In(file'[f].scripts) = c
    BY <2>4, InOne
  <2>6. file' = [file EXCEPT ![f].scripts = {Bind(In(@), n, In(file'[f].scripts)[n])}]
    <3>1. Bind(In(b.scripts), n, In(file'[f].scripts)[n]) = c
      BY <2>3, <2>5 DEF c
    <3>2. file' = [file EXCEPT ![f] = [b EXCEPT !.scripts = {c}]]
      BY <1>1, <2>2 DEF c
    <3>3. QED
      BY <3>1, <3>2 DEF b
  <2>7. Store!Within(v, {"save.script"})
    BY <1>1, <1>13, WithinIs DEF IInv, t
  <2>8. Store!SaveScript(v, f)
    BY <1>7, <2>1, <2>3, <2>5, <2>6, <2>7, StoreIn, StoreBind DEF Store!SaveScript, Memory, Asked, b
  <2>9. QED
    BY <2>8
<1>14. CASE t.word = "save.model"
  <2>1. WithModel(t, b)
    BY <1>1, <1>2, <1>14, CommitWhere
  <2>2. PICK x \in Values \ Refused : t.draft = [b EXCEPT !.models = {Append(ModelRows(b), x)}]
    BY <2>1 DEF WithModel
  <2> DEFINE new == Append(ModelRows(b), x)
  <2>3. new \in Seq(Values) /\ ModelRows(b) \in Seq(Values)
    BY <1>2, InIn DEF ModelRows, Tables
  <2>4. new # <<>> /\ new[Len(new)] = x
    BY <2>3
  <2> HIDE DEF new
  <2>5. file'[f].models = {new}
    BY <1>2, <1>3, <2>2 DEF Tables, new
  <2>6. In(file'[f].models) = new /\ Has(file'[f].models)
    BY <2>5, InOne
  <2>7. file' = [file EXCEPT ![f].models = {Append(ModelRows(b), new[Len(new)])}]
    <3>1. file' = [file EXCEPT ![f] = [b EXCEPT !.models = {new}]]
      BY <1>1, <2>2 DEF new
    <3>2. QED
      BY <2>4, <3>1 DEF b, new
  <2>8. Store!Within(v, {"save.model"})
    BY <1>1, <1>14, WithinIs DEF IInv, t
  <2>9. Store!SaveModel(v, f)
    BY <1>7, <2>2, <2>4, <2>6, <2>7, <2>8, StoreIn DEF Store!SaveModel, Memory, Asked, b, ModelRows
  <2>10. QED
    BY <2>9
<1>15. QED
  BY <1>1, <1>2, <1>8, <1>10, <1>11, <1>12, <1>13, <1>14, CommitWhere

(* A load or a bootstrap, when the last of what it reads is in, or when it *)
(* fails at a family that is not sound.                                    *)
AllSound(b) == \A family \in Families : Sound(family, b)

LEMMA Failing ==
  ASSUME NEW v \in VMs, StepOf(v), NEW sound \in BOOLEAN, Asked'[v] = IF sound THEN Asked[v] ELSE <<>>
  PROVE  Asked' = IF sound THEN Asked ELSE [Asked EXCEPT ![v] = <<>>]
<1>1. Asked' = [Asked EXCEPT ![v] = Asked'[v]]
  BY OthersStay
<1>2. CASE sound
  BY <1>1, <1>2 DEF Asked
<1>3. CASE ~sound
  BY <1>1, <1>3
<1>4. QED
  BY <1>2, <1>3

LEMMA LoadStep ==
  ASSUME IInv, NEW v \in VMs, frames[v] # <<>>, Top(v).word \in {"load", "bootstrap"},
         StepOf(v), file' = file, NEW f \in Files, Memory'[v] = LoadAll(Memory[v], file[f]),
         Asked'[v] = IF AllSound(file[f]) THEN Asked[v] ELSE <<>>
  PROVE  Store!Load(v, f)
<1>1. Store!Within(v, {"load", "bootstrap"})
  BY WithinIs DEF IInv
<1>2. Memory' = [Memory EXCEPT ![v] = LoadAll(Memory[v], file[f])]
  BY OthersStay
<1>3. AllSound(file[f]) \in BOOLEAN
  BY DEF AllSound
<1>4. Asked' = IF AllSound(file[f]) THEN Asked ELSE [Asked EXCEPT ![v] = <<>>]
  BY <1>3, Failing
<1>5. Store!FailUnless(v, \A family \in Store!Families : Store!Sound(family, file[f]))
  BY <1>4, StoreData DEF Store!FailUnless, Asked, AllSound
<1>6. QED
  BY <1>1, <1>2, <1>5, StoreData DEF Store!Load, Memory

LEMMA ReadFamilyLoads ==
  ASSUME IInv, NEW v \in VMs, ReadFamily(v), NEW f \in Files, f = Top(v).file, NEW x, x = Step(v)
  PROVE  \/ Store!Ask(v) \/ Store!Load(v, f)
         \/ \E family \in Store!Families : Store!LoadFamily(v, f, family)
<1> DEFINE t == Top(v)
           d == vm[v]
           b == file[f]
           e == Taken(d, x, b)
           g == Advanced(v)
<1>1. /\ frames[v] # <<>> /\ t.todo # <<>> /\ x = Head(t.todo) /\ x \in Families
      /\ t.word \in Loaders /\ file' = file
  BY DEF ReadFamily, At, Step, Fail
<1>2. t \in Frame /\ d \in VmData /\ b \in Tables /\ At1(t, d, b)
  BY <1>1, Tops DEF IInv, Where
<1>3. Memory[v] = t.before
  BY <1>1, MappedVm DEF MemoryOf, LoadingIn, Top
<1>4. /\ t.todo \in {Load3, Boot5, LoadAliases} => x = "aliases"
      /\ t.todo \in {Load2, Boot4, LoadLambdas} => x = "lambdas"
      /\ t.todo \in {Load1, Boot3} => x = "stacks"
  <2> HIDE DEF t
  <2>1. \A q \in {Load3, Boot5, LoadAliases} : Head(q) = "aliases"
    BY WaysOn
  <2>2. \A q \in {Load2, Boot4, LoadLambdas} : Head(q) = "lambdas"
    BY WaysOn
  <2>3. \A q \in {Load1, Boot3} : Head(q) = "stacks"
    BY WaysOn
  <2>4. QED
    BY <1>1, <2>1, <2>2, <2>3
<1>5. vm' = [vm EXCEPT ![v] = e] /\ vm'[v] = e /\ \A w \in VMs \ {v} : vm'[w] = vm[w]
  BY DEF ReadFamily, IInv, TypeInv
<1>6. ASSUME ~Sound(x, b)
      PROVE  StepOf(v) /\ Memory'[v] = e /\ Asked'[v] = <<>>
  <2>1. frames' = [frames EXCEPT ![v] = <<>>]
    BY <1>6 DEF ReadFamily, Fail
  <2>2. frames'[v] = <<>> /\ StepOf(v)
    BY <1>5, <2>1 DEF IInv, TypeInv, StepOf
  <2>3. Memory'[v] = e
    BY <1>5, <2>2, MappedVm DEF MemoryOf, LoadingIn
  <2>4. QED
    BY <2>2, <2>3, MappedVm, NothingAsked
<1>7. ASSUME Sound(x, b)
      PROVE  /\ StepOf(v) /\ Asked'[v] = Asked[v]
             /\ g.word = t.word /\ g.todo = Tail(t.todo) /\ g.before = t.before
             /\ frames'[v] # <<>> /\ frames'[v][Len(frames'[v])] = g
  <2>1. Advance(v)
    BY <1>7 DEF ReadFamily
  <2>2. g.word = t.word /\ g.todo = Tail(t.todo) /\ g.before = t.before
    BY <1>2 DEF Advanced, Frame
  <2>3. frames' = [frames EXCEPT ![v] = [frames[v] EXCEPT ![Len(frames[v])] = g]]
    BY <2>1 DEF Advance, Advanced, Top
  <2>4. /\ frames'[v] # <<>> /\ frames'[v][Len(frames'[v])] = g
        /\ Asked'[v] = Asked[v] /\ \A w \in VMs \ {v} : frames'[w] = frames[w]
    BY <1>1, <2>2, <2>3, MappedOn DEF IInv
  <2>5. QED
    BY <1>5, <2>2, <2>4 DEF StepOf
<1>8. ASSUME Sound(x, b), t.todo \in {Load1, LoadAliases, LoadLambdas, Boot3}
      PROVE  Memory'[v] = e
  <2>1. g.todo \in {<<>>, Boot2}
    BY <1>7, <1>8, WaysOn
  <2>2. g.todo = <<>> \/ Head(g.todo) \notin Families
    BY <2>1, WaysOn DEF Families
  <2>3. QED
    BY <1>5, <1>7, <1>8, <2>2, MappedVm DEF MemoryOf, LoadingIn
<1>9. CASE Sound(x, b) /\ t.todo \in {Load3, Load2, Boot5, Boot4}
  <2>1. g.todo \in {Load2, Load1, Boot4, Boot3}
    BY <1>7, <1>9, WaysOn
  <2>2. g.todo # <<>> /\ Head(g.todo) \in Families
    BY <2>1, WaysOn, WaysThere DEF Families
  <2>3. Memory'[v] = t.before
    BY <1>1, <1>7, <1>9, <2>2, MappedVm DEF MemoryOf, LoadingIn
  <2>4. QED
    BY <1>1, <1>3, <1>7, <1>9, <2>3, AskStep
<1>10. CASE t.word \in {"load", "bootstrap"} /\ t.todo \in {Load3, Boot5} /\ d = t.before /\ ~Sound(x, b)
  <2>1. x = "aliases" /\ ~AllSound(b)
    BY <1>1, <1>4, <1>10 DEF AllSound
  <2>2. Memory'[v] = LoadAll(t.before, b)
    BY <1>6, <1>10, <2>1, LoadAllIs DEF AfterAliases
  <2>3. QED
    BY <1>1, <1>3, <1>6, <1>10, <2>1, <2>2, LoadStep
<1>11. CASE /\ t.word \in {"load", "bootstrap"} /\ t.todo \in {Load2, Boot4} /\ Sound("aliases", b)
            /\ d = AfterAliases(t, b) /\ ~Sound(x, b)
  <2>1. x = "lambdas" /\ ~AllSound(b)
    BY <1>1, <1>4, <1>11 DEF AllSound
  <2>2. Memory'[v] = LoadAll(t.before, b)
    BY <1>6, <1>11, <2>1, LoadAllIs DEF AfterLambdas
  <2>3. QED
    BY <1>1, <1>3, <1>6, <1>11, <2>1, <2>2, LoadStep
<1>12. CASE /\ t.word \in {"load", "bootstrap"} /\ t.todo \in {Load1, Boot3} /\ Sound("aliases", b)
            /\ Sound("lambdas", b) /\ d = AfterLambdas(t, b)
  <2>1. x = "stacks"
    BY <1>4, <1>12
  <2>2. StepOf(v) /\ Memory'[v] = e
    BY <1>6, <1>7, <1>8, <1>12
  <2>3. AllSound(b) <=> Sound(x, b)
    BY <1>12, <2>1 DEF AllSound, Families
  <2>4. Asked'[v] = IF AllSound(b) THEN Asked[v] ELSE <<>>
    BY <1>6, <1>7, <2>3
  <2>5. Memory'[v] = LoadAll(t.before, b)
    BY <1>12, <2>1, <2>2, LoadAllIs
  <2>6. QED
    BY <1>1, <1>3, <1>12, <2>2, <2>4, <2>5, LoadStep
<1>13. CASE t.word = Loader(x) /\ t.todo \in {Load1, LoadAliases, LoadLambdas} /\ d = t.before
  <2>1. /\ StepOf(v) /\ Memory'[v] = e /\ Sound(x, b) \in BOOLEAN
        /\ Asked'[v] = IF Sound(x, b) THEN Asked[v] ELSE <<>>
    BY <1>6, <1>7, <1>8, <1>13 DEF Sound
  <2>2. Memory' = [Memory EXCEPT ![v] = Taken(Memory[v], x, b)]
    BY <1>3, <1>13, <2>1, OthersStay
  <2>3. Asked' = IF Sound(x, b) THEN Asked ELSE [Asked EXCEPT ![v] = <<>>]
    BY <2>1, Failing
  <2>4. Store!Within(v, {Store!Loader(x)})
    BY <1>1, <1>13, WithinIs DEF IInv, Loader, Store!Loader
  <2>5. Store!FailUnless(v, Store!Sound(x, b))
    BY <2>3, StoreData DEF Store!FailUnless, Asked
  <2>6. Store!LoadFamily(v, f, x)
    BY <1>1, <2>2, <2>4, <2>5, StoreData DEF Store!LoadFamily, Memory
  <2>7. QED
    BY <1>1, <2>6, StoreData
<1>14. /\ t.word = "load.aliases" /\ t.todo = LoadAliases => t.word = Loader(x)
       /\ t.word = "load.lambdas" /\ t.todo = LoadLambdas => t.word = Loader(x)
       /\ t.word = "load.stacks" /\ t.todo = Load1 => t.word = Loader(x)
  BY <1>4 DEF Loader
<1> HIDE DEF t, d, b
<1>15. QED
  BY <1>1, <1>2, <1>9, <1>10, <1>11, <1>12, <1>13, <1>14, LoaderWhere

(* A program's words, one at a time.                                       *)
LEMMA BindIsOneWord ==
  ASSUME NEW d \in VmData, NEW n, NEW y
  PROVE  /\ \A e : e = [d EXCEPT !.lambdas = Bind(@, n, y)] => Store!OneWord(d, e)
         /\ \A e : e = [d EXCEPT !.aliases = Bind(@, n, y)] => Store!OneWord(d, e)
<1>1. ASSUME NEW e, e = [d EXCEPT !.lambdas = Bind(@, n, y)] PROVE Store!OneWord(d, e)
  <2>1. e.lambdas = Bind(d.lambdas, n, y)
    BY <1>1 DEF VmData
  <2>2. n \in DOMAIN e.lambdas /\ e.lambdas[n] = y
    BY <2>1 DEF Bind
  <2>3. e = [d EXCEPT !.lambdas = Store!Bind(@, n, e.lambdas[n])]
    BY <1>1, <2>2, StoreBind
  <2>4. QED
    BY <2>2, <2>3 DEF Store!OneWord
<1>2. ASSUME NEW e, e = [d EXCEPT !.aliases = Bind(@, n, y)] PROVE Store!OneWord(d, e)
  <2>1. e.aliases = Bind(d.aliases, n, y)
    BY <1>2 DEF VmData
  <2>2. n \in DOMAIN e.aliases /\ e.aliases[n] = y
    BY <2>1 DEF Bind
  <2>3. e = [d EXCEPT !.aliases = Store!Bind(@, n, e.aliases[n])]
    BY <1>2, <2>2, StoreBind
  <2>4. QED
    BY <2>2, <2>3 DEF Store!OneWord
<1>3. QED
  BY <1>1, <1>2

LEMMA WithoutIsOneWord ==
  ASSUME NEW d \in VmData, NEW n, NEW e,
         \/ n \in DOMAIN d.aliases /\ e = [d EXCEPT !.aliases = Without(@, n)]
         \/ n \in DOMAIN d.stacks /\ e = [d EXCEPT !.stacks = Without(@, n)]
  PROVE  Store!OneWord(d, e)
<1>1. \A f : Store!Without(f, n) = Without(f, n)
  BY DEF Store!Without, Without
<1>2. \/ n \in DOMAIN d.aliases /\ e = [d EXCEPT !.aliases = Store!Without(@, n)]
      \/ n \in DOMAIN d.stacks /\ e = [d EXCEPT !.stacks = Store!Without(@, n)]
  BY <1>1
<1>3. QED
  BY <1>2 DEF Store!OneWord

LEMMA PushIsOneWord ==
  ASSUME NEW d \in VmData, NEW n, NEW q, NEW e, e = [d EXCEPT !.stacks = Bind(@, n, q)],
         q = ItemsOf(d, n) \/ \E x \in Held : q = Append(ItemsOf(d, n), x)
  PROVE  Store!OneWord(d, e)
<1> DEFINE was == Store!ItemsOf(d, n)
<1>1. was = ItemsOf(d, n)
  BY DEF Store!ItemsOf, ItemsOf
<1>2. ItemsOf(d, n) \in Seq(Held)
  BY PartialIs DEF ItemsOf, VmData, Stacks
<1>3. e.stacks = Bind(d.stacks, n, q)
  BY DEF VmData
<1>4. n \in DOMAIN e.stacks /\ e.stacks[n] = q
  BY <1>3 DEF Bind
<1>5. e = [d EXCEPT !.stacks = Store!Bind(@, n, e.stacks[n])]
  BY <1>4, StoreBind
<1>6. q \in {was} \cup {Append(was, q[i]) : i \in {Len(q)} \ {0}}
  <2>1. CASE q = ItemsOf(d, n)
    BY <1>1, <2>1
  <2>2. CASE \E x \in Held : q = Append(ItemsOf(d, n), x)
    <3>1. PICK x \in Held : q = Append(ItemsOf(d, n), x)
      BY <2>2
    <3>2. Len(q) # 0 /\ q[Len(q)] = x
      BY <1>2, <3>1
    <3>3. QED
      BY <1>1, <3>1, <3>2
  <2>3. QED
    BY <2>1, <2>2
<1> HIDE DEF was
<1>7. QED
  BY <1>4, <1>5, <1>6 DEF Store!OneWord, was

LEMMA ComputeStep ==
  ASSUME NEW v \in VMs, StepOf(v), file' = file, Asked'[v] = Asked[v], NEW d, NEW e,
         Memory[v] = d, Memory'[v] = e, Store!OneWord(d, e)
  PROVE  Store!Compute(v)
<1>1. Memory' = [Memory EXCEPT ![v] = Memory'[v]] /\ Asked' = Asked
  BY OthersStay DEF Asked
<1>2. Store!OneWord(Memory[v], Memory'[v])
  BY DEF Store!OneWord
<1>3. QED
  BY <1>1, <1>2 DEF Store!Compute, Memory, Asked

LEMMA ProgramComputes ==
  ASSUME IInv, NEW v \in VMs, Program(v)
  PROVE  Store!Compute(v)
<1> DEFINE old == vm[v]
<1>1. frames[v] = <<>> /\ frames' = frames /\ file' = file /\ Edit(v)
  BY DEF Program
<1>2. PICK e \in VmData : vm' = [vm EXCEPT ![v] = e]
  BY <1>1, EditTyped
<1>3. PICK d \in VmData : vm[v] = d
  BY DEF IInv, TypeInv
<1>4. vm \in [VMs -> VmData] /\ vm'[v] = e
  BY <1>2 DEF IInv, TypeInv
<1>5. Memory[v] = d /\ Memory'[v] = e /\ Asked'[v] = Asked[v]
  BY <1>1, <1>3, <1>4, MappedVm DEF MemoryOf, LoadingIn
<1>6. StepOf(v)
  BY <1>1, <1>2, <1>4 DEF StepOf
<1>7. Store!OneWord(d, e)
  <2>1. CASE \E n \in Names, y \in Bodies : vm' = [vm EXCEPT ![v].lambdas = Bind(@, n, y)]
    <3>1. PICK n \in Names, y \in Bodies : vm' = [vm EXCEPT ![v].lambdas = Bind(@, n, y)]
      BY <2>1
    <3>2. e = [d EXCEPT !.lambdas = Bind(@, n, y)]
      BY <1>3, <1>4, <3>1
    <3>3. QED
      BY <3>2, BindIsOneWord
  <2>2. CASE \E n, m \in Names : n # m /\ vm' = [vm EXCEPT ![v].aliases = Bind(@, n, m)]
    <3>1. PICK n \in Names, m \in Names : vm' = [vm EXCEPT ![v].aliases = Bind(@, n, m)]
      BY <2>2
    <3>2. e = [d EXCEPT !.aliases = Bind(@, n, m)]
      BY <1>3, <1>4, <3>1
    <3>3. QED
      BY <3>2, BindIsOneWord
  <2>3. CASE \E n \in DOMAIN vm[v].aliases : vm' = [vm EXCEPT ![v].aliases = Without(@, n)]
    <3>1. PICK n \in DOMAIN d.aliases : vm' = [vm EXCEPT ![v].aliases = Without(@, n)]
      BY <1>3, <2>3
    <3>2. e = [d EXCEPT !.aliases = Without(@, n)]
      BY <1>3, <1>4, <3>1
    <3>3. QED
      BY <3>2, WithoutIsOneWord
  <2>4. CASE \E n \in StackNames, x \in Values : vm' = [vm EXCEPT ![v].stacks = Bind(@, n, Append(ItemsOf(vm[v], n), x))]
    <3>1. PICK n \in StackNames, x \in Values : vm' = [vm EXCEPT ![v].stacks = Bind(@, n, Append(ItemsOf(vm[v], n), x))]
      BY <2>4
    <3>2. e = [d EXCEPT !.stacks = Bind(@, n, Append(ItemsOf(d, n), x))]
      BY <1>3, <1>4, <3>1
    <3>3. x \in Held
      BY DEF Held
    <3>4. QED
      BY <3>2, <3>3, PushIsOneWord
  <2>5. CASE \E n \in StackNames : vm' = [vm EXCEPT ![v].stacks = Bind(@, n, ItemsOf(vm[v], n))]
    <3>1. PICK n \in StackNames : vm' = [vm EXCEPT ![v].stacks = Bind(@, n, ItemsOf(vm[v], n))]
      BY <2>5
    <3>2. e = [d EXCEPT !.stacks = Bind(@, n, ItemsOf(d, n))]
      BY <1>3, <1>4, <3>1
    <3>3. QED
      BY <3>2, PushIsOneWord
  <2>6. CASE \E n \in DOMAIN vm[v].stacks :
               DOMAIN vm[v].stacks # {n} /\ vm' = [vm EXCEPT ![v].stacks = Without(@, n)]
    <3>1. PICK n \in DOMAIN d.stacks : vm' = [vm EXCEPT ![v].stacks = Without(@, n)]
      BY <1>3, <2>6
    <3>2. e = [d EXCEPT !.stacks = Without(@, n)]
      BY <1>3, <1>4, <3>1
    <3>3. QED
      BY <3>2, WithoutIsOneWord
  <2>7. QED
    BY <1>1, <2>1, <2>2, <2>3, <2>4, <2>5, <2>6 DEF Edit
<1>8. QED
  BY <1>1, <1>5, <1>6, <1>7, ComputeStep

(* A word that fails, when its VM has loaded nothing.                      *)
LEMMA FailAsks ==
  ASSUME IInv, NEW v \in VMs, Fail(v), vm' = vm, ~LoadingIn(frames[v])
  PROVE  Store!Ask(v)
<1>1. frames' = [frames EXCEPT ![v] = <<>>] /\ file' = file
  BY DEF Fail
<1>2. frames'[v] = <<>> /\ StepOf(v)
  BY <1>1 DEF IInv, TypeInv, StepOf
<1>3. Memory[v] = vm[v] /\ Memory'[v] = vm[v]
  BY <1>2, MappedVm DEF MemoryOf, LoadingIn
<1>4. QED
  BY <1>1, <1>2, <1>3, AskStep

(* A word that is not at a family, and goes on to g, not at one either.    *)
LEMMA OnAsIs ==
  ASSUME IInv, NEW v \in VMs, frames[v] # <<>>, ~LoadingIn(frames[v]), NEW g, g.word = Top(v).word,
         frames' = [frames EXCEPT ![v] = [frames[v] EXCEPT ![Len(frames[v])] = g]],
         g.todo = <<>> \/ Head(g.todo) \notin Families, \A w \in VMs \ {v} : vm'[w] = vm[w]
  PROVE  StepOf(v) /\ Memory[v] = vm[v] /\ Memory'[v] = vm'[v] /\ Asked'[v] = Asked[v]
<1>1. /\ frames'[v] # <<>> /\ frames'[v][Len(frames'[v])] = g /\ Asked'[v] = Asked[v]
      /\ \A w \in VMs \ {v} : frames'[w] = frames[w]
  BY MappedOn DEF IInv
<1>2. Memory[v] = vm[v] /\ Memory'[v] = vm'[v]
  BY <1>1, MappedVm DEF MemoryOf, LoadingIn
<1>3. QED
  BY <1>1, <1>2 DEF StepOf

LEMMA LastOn ==
  ASSUME IInv, NEW v \in VMs, frames[v] # <<>>, ~LoadingIn(frames[v]), Advance(v), Tail(Top(v).todo) = <<>>,
         \A w \in VMs \ {v} : vm'[w] = vm[w]
  PROVE  StepOf(v) /\ Memory[v] = vm[v] /\ Memory'[v] = vm'[v] /\ Asked'[v] = Asked[v]
<1>1. Top(v) \in Frame
  BY Tops DEF IInv
<1>2. frames' = [frames EXCEPT ![v] = [frames[v] EXCEPT ![Len(frames[v])] = Advanced(v)]]
  BY DEF Advance, Advanced, Top
<1>3. Advanced(v).word = Top(v).word /\ Advanced(v).todo = <<>>
  BY <1>1 DEF Advanced, Frame
<1>4. QED
  BY <1>2, <1>3, OnAsIs

LEMMA NotAtFamily ==
  ASSUME NEW v \in VMs, NEW steps, At(v, steps), steps \cap Families = {}
  PROVE  frames[v] # <<>> /\ Top(v).todo # <<>> /\ Head(Top(v).todo) \in steps /\ ~LoadingIn(frames[v])
BY DEF At, Step, LoadingIn, Top

LEMMA ReadModelsLoads ==
  ASSUME IInv, NEW v \in VMs, ReadModels(v), NEW f \in Files, f = Top(v).file
  PROVE  Store!LoadModels(v, f)
<1> DEFINE t == Top(v)
           b == file[f]
           q == Readable(ModelRows(b))
           all == ModelRows(b) # <<>> /\ Decodes("stacks", ModelRows(b))
<1>1. frames[v] # <<>> /\ t.todo # <<>> /\ Head(t.todo) = "models" /\ ~LoadingIn(frames[v])
  BY NotAtFamily DEF ReadModels, Families
<1>2. t \in Frame /\ b \in Tables /\ At1(t, vm[v], b)
  BY <1>1, Tops DEF IInv, Where
<1>3. /\ PushEach(v, q) /\ file' = file
      /\ IF all THEN Advance(v) ELSE frames' = [frames EXCEPT ![v] = <<>>]
  BY DEF ReadModels, ModelRows, Fail
<1>4. q \in Seq(Held)
  BY <1>2, RowsTyped
<1>5. PICK n \in DOMAIN vm[v].stacks : vm' = [vm EXCEPT ![v] = Pushed(v, n, q)]
  BY <1>3, <1>4, PushTyped
<1>6. vm'[v] = Pushed(v, n, q) /\ \A w \in VMs \ {v} : vm'[w] = vm[w]
  BY <1>5 DEF IInv, TypeInv
<1>7. t.word = "load.model" /\ Tail(t.todo) = <<>>
  <2> HIDE DEF t, b
  <2>1. t.word \in Loaders
    BY <1>1, <1>2, LoaderSteps DEF Frame
  <2>2. QED
    BY <1>1, <1>2, <2>1, LoaderWhere, WaysOn
<1>8. StepOf(v) /\ Memory[v] = vm[v] /\ Memory'[v] = vm'[v] /\ Asked'[v] = IF all THEN Asked[v] ELSE <<>>
  <2>1. CASE all
    <3>1. Advance(v)
      BY <1>3, <2>1
    <3>2. QED
      BY <1>1, <1>6, <1>7, <2>1, <3>1, LastOn
  <2>2. CASE ~all
    <3>1. frames'[v] = <<>> /\ StepOf(v)
      BY <1>3, <1>6, <2>2 DEF IInv, TypeInv, StepOf
    <3>2. Memory[v] = vm[v] /\ Memory'[v] = vm'[v]
      BY <1>1, <3>1, MappedVm DEF MemoryOf, LoadingIn
    <3>3. QED
      BY <2>2, <3>1, <3>2, MappedVm, NothingAsked
  <2>3. QED
    BY <2>1, <2>2
<1>9. n \in DOMAIN Memory[v].stacks /\ Memory'[v] = [Memory[v] EXCEPT !.stacks[n] = @ \o q]
  BY <1>6, <1>8 DEF Pushed
<1>10. Memory' = [Memory EXCEPT ![v] = [Memory[v] EXCEPT !.stacks[n] = @ \o q]]
  BY <1>8, <1>9, OthersStay
<1>11. Memory' = [Memory EXCEPT ![v].stacks[n] = @ \o q]
  BY <1>10
<1>12. Asked' = IF all THEN Asked ELSE [Asked EXCEPT ![v] = <<>>]
  <2>1. all \in BOOLEAN
    BY DEF Decodes
  <2> HIDE DEF all
  <2>2. QED
    BY <1>8, <2>1, Failing
<1>13. Store!Within(v, {"load.model"})
  BY <1>1, <1>7, WithinIs DEF IInv
<1> DEFINE rows == IF Store!Has(file[f].models) THEN Store!In(file[f].models) ELSE <<>>
<1>14. ModelRows(b) = rows
  BY StoreIn DEF ModelRows
<1>15. Store!Readable(rows) = q
  BY <1>14, StoreData
<1>16. Store!Decodes("stacks", rows) = Decodes("stacks", ModelRows(b))
  BY <1>14, StoreData
<1>17. Store!FailUnless(v, rows # <<>> /\ Store!Decodes("stacks", rows))
  BY <1>12, <1>14, <1>16 DEF Store!FailUnless, Asked
<1> HIDE DEF q
<1>18. \E k \in DOMAIN Memory[v].stacks : Memory' = [Memory EXCEPT ![v].stacks[k] = @ \o Store!Readable(rows)]
  BY <1>9, <1>11, <1>15
<1>19. Store!LoadModels(v, f)
  BY <1>3, <1>13, <1>17, <1>18 DEF Store!LoadModels, Memory
<1>20. QED
  BY <1>19

LEMMA FetchScriptComputes ==
  ASSUME IInv, NEW v \in VMs, FetchScript(v)
  PROVE  Store!Ask(v) \/ Store!Compute(v)
<1> DEFINE t == Top(v)
           b == file[t.file]
<1>1. frames[v] # <<>> /\ t.todo # <<>> /\ Head(t.todo) = "fetch" /\ ~LoadingIn(frames[v])
  BY NotAtFamily DEF FetchScript, Families
<1>2. t \in Frame /\ b \in Tables /\ At1(t, vm[v], b)
  BY <1>1, Tops DEF IInv, Where
<1>3. PICK n \in ScriptNames :
        IF Has(b.scripts) /\ n \in DOMAIN In(b.scripts)
        THEN PushEach(v, <<In(b.scripts)[n]>>) /\ Advance(v) /\ UNCHANGED <<file, whole>>
        ELSE Fail(v) /\ UNCHANGED vm
  BY DEF FetchScript
<1>4. CASE ~(Has(b.scripts) /\ n \in DOMAIN In(b.scripts))
  BY <1>1, <1>3, <1>4, FailAsks
<1>5. CASE Has(b.scripts) /\ n \in DOMAIN In(b.scripts)
  <2>1. In(b.scripts) \in Partial(ScriptNames, Texts)
    BY <1>2, <1>5, InIn DEF Tables, Scripts
  <2>2. In(b.scripts)[n] \in Held
    BY <1>5, <2>1, PartialIs DEF Held
  <2>3. PICK x \in Held : x = In(b.scripts)[n]
    BY <2>2
  <2>4. PushEach(v, <<x>>) /\ Advance(v) /\ file' = file /\ <<x>> \in Seq(Held)
    BY <1>3, <1>5, <2>3
  <2>5. PICK m \in DOMAIN vm[v].stacks :
          vm' = [vm EXCEPT ![v] = Pushed(v, m, <<x>>)] /\ Pushed(v, m, <<x>>) \in VmData
    BY <2>4, PushTyped
  <2>6. vm \in [VMs -> VmData]
    BY DEF IInv, TypeInv
  <2>7. vm'[v] = Pushed(v, m, <<x>>) /\ \A w \in VMs \ {v} : vm'[w] = vm[w]
    BY <2>5, <2>6
  <2>8. Tail(t.todo) = <<>>
    <3> HIDE DEF t, b
    <3>1. t.word \in Loaders
      BY <1>1, <1>2, LoaderSteps DEF Frame
    <3>2. QED
      BY <1>1, <1>2, <3>1, LoaderWhere, WaysOn
  <2>9. StepOf(v) /\ Memory[v] = vm[v] /\ Memory'[v] = vm'[v] /\ Asked'[v] = Asked[v]
    BY <1>1, <2>4, <2>7, <2>8, LastOn
  <2>10. PICK d \in VmData : vm[v] = d
    BY <2>6
  <2>11. PICK e : e = vm'[v]
    OBVIOUS
  <2>12. e = [d EXCEPT !.stacks = Bind(@, m, Append(ItemsOf(d, m), x))]
    <3>1. d.stacks \in [DOMAIN d.stacks -> Seq(Held)] /\ m \in DOMAIN d.stacks
      BY <2>5, <2>10, PartialIs DEF VmData, Stacks
    <3>2. d.stacks[m] \o <<x>> = Append(d.stacks[m], x) /\ ItemsOf(d, m) = d.stacks[m]
      BY <3>1 DEF ItemsOf
    <3>3. [d.stacks EXCEPT ![m] = Append(d.stacks[m], x)] = Bind(d.stacks, m, Append(ItemsOf(d, m), x))
      BY <3>1, <3>2 DEF Bind
    <3>4. e = [d EXCEPT !.stacks = [d.stacks EXCEPT ![m] = d.stacks[m] \o <<x>>]]
      BY <2>7, <2>10, <2>11 DEF Pushed
    <3>5. QED
      BY <3>2, <3>3, <3>4
  <2>13. Store!OneWord(d, e)
    BY <2>12, PushIsOneWord
  <2>14. QED
    BY <2>4, <2>9, <2>10, <2>11, <2>13, ComputeStep
<1>6. QED
  BY <1>4, <1>5

LEMMA ReadScriptsAsks ==
  ASSUME IInv, NEW v \in VMs, ReadScripts(v)
  PROVE  Store!Ask(v)
<1> DEFINE t == Top(v)
           b == file[t.file]
           c == In(b.scripts)
<1>1. frames[v] # <<>> /\ t.todo # <<>> /\ Head(t.todo) = "scripts" /\ ~LoadingIn(frames[v]) /\ vm' = vm
  <2>1. At(v, {"scripts"}) /\ vm' = vm
    BY DEF ReadScripts
  <2>2. QED
    BY <2>1, NotAtFamily DEF Families
<1>2. t \in Frame /\ b \in Tables /\ At1(t, vm[v], b)
  BY <1>1, Tops DEF IInv, Where
<1>3. CASE ~Has(b.scripts)
  BY <1>1, <1>3, FailAsks DEF ReadScripts
<1>4. CASE Has(b.scripts)
  <2>1. file' = file
    BY <1>4 DEF ReadScripts
  <2>2. PICK q \in Listed(c) :
          frames' = [frames EXCEPT ![v][Len(frames[v])] =
            [Top(v) EXCEPT !.todo = Tail(@), !.texts = [i \in DOMAIN q |-> c[q[i]]]]]
    BY <1>4 DEF ReadScripts
  <2> DEFINE txt == [i \in DOMAIN q |-> c[q[i]]]
             g == [t EXCEPT !.todo = Tail(@), !.texts = txt]
  <2>3. frames' = [frames EXCEPT ![v] = [frames[v] EXCEPT ![Len(frames[v])] = g]]
    BY <2>2
  <2> HIDE DEF txt
  <2>4. Tail(t.todo) = ToRun
    <3> HIDE DEF t, b
    <3>1. t.word \in Loaders
      BY <1>1, <1>2, LoaderSteps DEF Frame
    <3>2. QED
      BY <1>1, <1>2, <3>1, LoaderWhere, WaysOn
  <2>5. g.word = t.word /\ g.todo = ToRun
    BY <1>2, <2>4 DEF Frame
  <2>6. Head(g.todo) \notin Families
    BY <2>5, WaysOn DEF Families
  <2> HIDE DEF g
  <2>7. StepOf(v) /\ Memory[v] = vm[v] /\ Memory'[v] = vm'[v]
    BY <1>1, <2>3, <2>5, <2>6, OnAsIs
  <2>8. QED
    BY <1>1, <2>1, <2>7, AskStep
<1>5. QED
  BY <1>3, <1>4

LEMMA OpenAsks ==
  ASSUME IInv, NEW v \in VMs, NEW fs, Calling(v, fs), NEW word \in Words, NEW f \in Files,
         OpenWorld(v, fs, word, f), vm' = vm, file' = file, ~LoadingIn(frames[v])
  PROVE  Store!Ask(v)
<1>1. frames'[v] # <<>> => frames'[v][Len(frames'[v])] = Called(v, word, f)
  BY Opened DEF Top
<1>2. StepOf(v)
  BY DEF OpenWorld, StepOf, IInv, TypeInv
<1>3. Called(v, word, f).word = word /\ (word \notin Savers => Called(v, word, f).before = vm[v])
  BY DEF Called
<1>4. word \in Loaders => word \notin Savers
  BY DEF Loaders, Savers
<1>5. Memory[v] = vm[v] /\ Memory'[v] = vm[v]
  <2>1. CASE frames'[v] = <<>>
    BY <2>1, MappedVm DEF MemoryOf, LoadingIn
  <2>2. CASE frames'[v] # <<>> /\ word \in Loaders
    BY <1>1, <1>3, <1>4, <2>2, MappedVm DEF MemoryOf
  <2>3. CASE frames'[v] # <<>> /\ word \notin Loaders
    BY <1>1, <1>3, <2>3, MappedVm DEF MemoryOf, LoadingIn
  <2>4. QED
    BY <2>1, <2>2, <2>3
<1>6. QED
  BY <1>2, <1>5, AskStep

LEMMA CallAsks ==
  ASSUME IInv, NEW v \in VMs, Call(v)
  PROVE  Store!Ask(v)
<1>1. PICK word \in Words, f \in Files : OpenWorld(v, <<>>, word, f)
  BY DEF Call
<1>2. vm' = vm /\ file' = file /\ frames[v] = <<>>
  BY DEF Call
<1>3. Calling(v, <<>>) /\ ~LoadingIn(frames[v])
  BY <1>2 DEF Calling, LoadingIn
<1>4. QED
  BY <1>1, <1>2, <1>3, OpenAsks

LEMMA ReturnAsks ==
  ASSUME IInv, NEW v \in VMs, Return(v)
  PROVE  Store!Ask(v)
<1>1. vm' = vm /\ file' = file /\ ~LoadingIn(frames[v]) /\ StepOf(v)
  BY DEF Return, LoadingIn, Top, StepOf, IInv, TypeInv
<1>2. frames'[v] # <<>> => frames'[v][Len(frames'[v])].todo = ToRun
  BY Popped DEF Top
<1>3. ~LoadingIn(frames'[v])
  BY <1>2, WaysOn DEF LoadingIn, Families
<1>4. Memory[v] = vm[v] /\ Memory'[v] = vm[v]
  BY <1>1, <1>3, MappedVm DEF MemoryOf
<1>5. QED
  BY <1>1, <1>4, AskStep

LEMMA RunScriptComputes ==
  ASSUME IInv, NEW v \in VMs, RunScript(v)
  PROVE  Store!Ask(v) \/ Store!Compute(v)
<1> DEFINE t == Top(v)
           next == Does(Head(t.texts))
<1>1. At(v, {"run"}) /\ file' = file
  BY DEF RunScript
<1>2. frames[v] # <<>> /\ t.todo # <<>> /\ Head(t.todo) = "run" /\ ~LoadingIn(frames[v])
  BY <1>1, NotAtFamily DEF Families
<1>3. CASE t.texts = <<>> /\ Advance(v) /\ vm' = vm
  <2>1. t \in Frame /\ At1(t, vm[v], file[t.file])
    BY <1>2, Tops DEF IInv, Where
  <2>2. Tail(t.todo) = <<>>
    <3> HIDE DEF t
    <3>1. t.word \in Loaders
      BY <1>2, <2>1, LoaderSteps DEF Frame
    <3>2. QED
      BY <1>2, <2>1, <3>1, LoaderWhere, WaysOn
  <2>3. StepOf(v) /\ Memory[v] = vm[v] /\ Memory'[v] = vm'[v]
    BY <1>2, <1>3, <2>2, LastOn
  <2>4. QED
    BY <1>1, <1>3, <2>3, AskStep
<1>4. CASE /\ t.texts # <<>> /\ next.word = "edit"
           /\ vm' = [vm EXCEPT ![v].lambdas = Bind(@, next.name, next.body)]
           /\ frames' = [frames EXCEPT ![v] = Rest(v)]
  <2>1. PICK d \in VmData : vm[v] = d
    BY DEF IInv, TypeInv
  <2>2. PICK n, y : n = next.name /\ y = next.body
    OBVIOUS
  <2>3. PICK e : e = vm'[v]
    OBVIOUS
  <2>4. e = [d EXCEPT !.lambdas = Bind(@, n, y)] /\ \A w \in VMs \ {v} : vm'[w] = vm[w]
    <3>1. vm \in [VMs -> VmData]
      BY DEF IInv, TypeInv
    <3> HIDE DEF next
    <3>2. QED
      BY <1>4, <2>1, <2>2, <2>3, <3>1
  <2>5. Store!OneWord(d, e)
    BY <2>4, BindIsOneWord
  <2>6. /\ ScriptTaken(v).word = t.word /\ ScriptTaken(v).todo = ToRun
        /\ Rest(v) = [frames[v] EXCEPT ![Len(frames[v])] = ScriptTaken(v)]
    <3>1. t \in Frame
      BY <1>2, Tops DEF IInv
    <3>2. ScriptTaken(v).word = t.word
      BY <3>1 DEF ScriptTaken, Frame
    <3>3. QED
      BY <1>1, <1>4, <3>2, TakenRight
  <2>7. Head(ScriptTaken(v).todo) \notin Families
    BY <2>6, WaysOn DEF Families
  <2>8. StepOf(v) /\ Memory[v] = vm[v] /\ Memory'[v] = vm'[v] /\ Asked'[v] = Asked[v]
    BY <1>2, <1>4, <2>4, <2>6, <2>7, OnAsIs
  <2>9. QED
    BY <1>1, <2>1, <2>3, <2>5, <2>8, ComputeStep
<1>5. CASE t.texts # <<>> /\ next.word = "fail" /\ frames' = [frames EXCEPT ![v] = <<>>] /\ vm' = vm
  <2>1. Fail(v)
    BY <1>5 DEF Fail, RunScript
  <2>2. QED
    BY <1>2, <1>5, <2>1, FailAsks
<1>6. CASE /\ t.texts # <<>> /\ next.word \in Words
           /\ OpenWorld(v, Rest(v), next.word, next.file) /\ vm' = vm
  <2>1. next.word # "edit"
    BY <1>6 DEF Words, Savers, Loaders
  <2>2. PICK word \in Words, f \in Files : word = next.word /\ f = next.file
    BY <1>1, <1>6, <2>1, DoesRight
  <2>3. PICK fs : fs = Rest(v)
    OBVIOUS
  <2>4. Calling(v, fs) /\ OpenWorld(v, fs, word, f)
    BY <1>1, <1>6, <2>2, <2>3, TakenRight DEF OpenWorld, Calling
  <2>5. QED
    BY <1>1, <1>2, <1>6, <2>4, OpenAsks
<1>7. QED
  BY <1>3, <1>4, <1>5, <1>6 DEF RunScript, Rest

LEMMA StoreInit == Init => Store!Init
<1> SUFFICES ASSUME Init PROVE Store!Init
  OBVIOUS
<1>1. Memory = [v \in VMs |-> NewVm] /\ Asked = [v \in VMs |-> <<>>]
  BY DEF Init, Memory, Asked, Loading, At
<1>2. QED
  BY <1>1, StoreData DEF Init, Store!Init, Memory, Asked

LEMMA CrashRestarts == Crash => Store!Restart
<1> SUFFICES ASSUME Crash PROVE Store!Restart
  OBVIOUS
<1>1. Memory' = [v \in VMs |-> NewVm] /\ Asked' = [v \in VMs |-> <<>>]
  BY DEF Crash, Memory, Asked, Loading, At
<1>2. QED
  BY <1>1, StoreData DEF Crash, Store!Restart, Memory, Asked

LEMMA StoreStep == IInv /\ [Next]_vars => [Store!Next]_<<Memory, file, Asked>>
<1> SUFFICES ASSUME IInv, [Next]_vars PROVE [Store!Next]_<<Memory, file, Asked>>
  OBVIOUS
<1>1. CASE Crash
  BY <1>1, CrashRestarts DEF Store!Next
<1>2. ASSUME NEW v \in VMs, Store!Ask(v) \/ Store!Compute(v) PROVE Store!Next
  BY <1>2 DEF Store!Next
<1>3. ASSUME NEW v \in VMs, Program(v) \/ Call(v) PROVE Store!Next
  BY <1>2, <1>3, ProgramComputes, CallAsks
<1>4. ASSUME NEW v \in VMs, InWord(v) PROVE Store!Next
  <2>1. CASE WriteFamily(v) \/ PrimeBootstrap(v) \/ IsPrimed(v) \/ WriteScript(v) \/ WriteModel(v)
    BY <1>2, <2>1, DraftsUnseen
  <2>2. CASE Commit(v) \/ ReadFamily(v) \/ ReadModels(v)
    <3>1. frames[v] # <<>>
      BY <2>2 DEF Commit, ReadFamily, ReadModels, At
    <3>2. Top(v).file \in Files
      BY <3>1, Tops DEF IInv, Frame
    <3>3. PICK f \in Files : f = Top(v).file
      BY <3>2
    <3>4. CASE Commit(v)
      <4>1. \/ Store!Save(v, f) \/ Store!SaveScript(v, f) \/ Store!SaveModel(v, f)
            \/ \E family \in Store!Families : Store!SaveFamily(v, f, family)
        BY <3>3, <3>4, CommitSaves
      <4>2. QED
        BY <4>1 DEF Store!Next
    <3>5. CASE ReadFamily(v)
      <4>1. PICK x : x = Step(v)
        OBVIOUS
      <4>2. \/ Store!Ask(v) \/ Store!Load(v, f)
            \/ \E family \in Store!Families : Store!LoadFamily(v, f, family)
        BY <3>3, <3>5, <4>1, ReadFamilyLoads
      <4>3. QED
        BY <4>2 DEF Store!Next
    <3>6. CASE ReadModels(v)
      <4>1. Store!LoadModels(v, f)
        BY <3>3, <3>6, ReadModelsLoads
      <4>2. QED
        BY <4>1 DEF Store!Next
    <3>7. QED
      BY <2>2, <3>4, <3>5, <3>6
  <2>3. CASE FetchScript(v) \/ ReadScripts(v) \/ RunScript(v) \/ Return(v)
    BY <1>2, <2>3, FetchScriptComputes, ReadScriptsAsks, RunScriptComputes, ReturnAsks
  <2>4. QED
    BY <1>4, <2>1, <2>2, <2>3 DEF InWord
<1>5. CASE UNCHANGED vars
  BY <1>5 DEF vars, Memory, Asked, Loading, At, Step, Top
<1>6. QED
  BY <1>1, <1>3, <1>4, <1>5 DEF Next

(* Each word reads or writes its world in one step, however many VMs and   *)
(* files there are and whatever interleaves, fails or crashes: a save that *)
(* does not commit changes nothing, and a load takes its families from one *)
(* version of the world, up to the first row that does not decode          *)
(* (save_world, load_families, load_model; D167).                          *)
THEOREM AlwaysAtOnce == Spec => ReadsAndWritesAtOnce
<1>1. Init => Store!Init
  BY StoreInit
<1>2. IInv /\ [Next]_vars => [Store!Next]_<<Memory, file, Asked>>
  BY StoreStep
<1>3. QED
  BY <1>1, <1>2, WorldInductive, PTL DEF Spec, ReadsAndWritesAtOnce, Store!Spec, Memory, Asked
=============================================================================
