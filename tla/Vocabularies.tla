---------------------------- MODULE Vocabularies ----------------------------
(***************************************************************************)
(* Two interpreters on one thread, and the calls that go between them (the *)
(* call memo: Interner in crates/bund2-api/src/lib.rs, Interp::apply_step  *)
(* in crates/bund2-interp/src/lib.rs, HeapValue in                         *)
(* crates/bund2-value/src/lib.rs).                                         *)
(*                                                                         *)
(* A CALL value keeps the symbol an interpreter found its name to be.  A   *)
(* symbol means nothing to another interpreter, so the memo carries the    *)
(* key of the vocabulary it was made with.  The first interpreter is that  *)
(* of Words; of the second its vocabulary is enough.                       *)
(***************************************************************************)
EXTENDS Words

CONSTANTS
  Calls,      \* the CALL values
  NameOf, SigilOf,  \* for each its name, and whether it is written with the sigil
  MyKey,      \* the first interpreter's key, 0 if it keeps no memos
  OtherNames, \* the names the second interpreter binds
  MaxKey      \* the first key that does not fit a memo, 2^31

ASSUME VocabulariesAssumption ==
  /\ NameOf \in [Calls -> Names] /\ SigilOf \in [Calls -> BOOLEAN]
  /\ MyKey \in Nat
  /\ OtherNames \subseteq Names
  /\ MaxKey \in Nat \ {0}

VARIABLES
  other,      \* the vocabulary of the second: [names, key]
  fresh,      \* the next key
  memo        \* for each value {} or the singleton of [key, sym, sigil]

vocabularies == <<other, fresh, memo>>
allVars == <<vars, vocabularies>>

-----------------------------------------------------------------------------
(* Keys are handed out in order, and then no more.                         *)
Key == IF fresh < MaxKey THEN fresh ELSE 0
Hands == fresh' = IF fresh < MaxKey THEN fresh + 1 ELSE fresh

Vocabulary == [names |-> table.names, key |-> MyKey]

LookupCall(v, c) ==
  IF Interned(v, NameOf[c])
  THEN {[sym |-> SymbolOf(v, NameOf[c]), sigil |-> SigilOf[c]]} ELSE {}

FromMemo(v, m) == {[sym |-> x.sym, sigil |-> x.sigil] : x \in {y \in m : y.key = v.key}}

(* A vocabulary without a key leaves an empty memo.                        *)
MemoFor(v, f) == IF v.key = 0 THEN {} ELSE {[key |-> v.key, sym |-> f.sym, sigil |-> f.sigil]}

(* What v takes the value to call, and what memo it leaves there.          *)
Found(v, c) == IF FromMemo(v, memo[c]) # {} THEN FromMemo(v, memo[c]) ELSE LookupCall(v, c)

Left(v, c) ==
  IF FromMemo(v, memo[c]) # {} \/ LookupCall(v, c) = {} THEN memo[c]
  ELSE UNION {MemoFor(v, f) : f \in LookupCall(v, c)}

-----------------------------------------------------------------------------
VocabulariesInit ==
  /\ Init
  /\ other = [names |-> <<>>, key |-> 0] /\ fresh = MyKey + 1
  /\ memo = [c \in Calls |-> {}]

(* The first interpreter goes on otherwise.                                *)
Words_ == Next /\ UNCHANGED vocabularies

(* It applies a CALL value.                                                *)
Applies ==
  \E c \in Calls : \E f \in Found(Vocabulary, c) :
    /\ Writes(Remember(table, f.sym, f.sigil))
    /\ memo' = [memo EXCEPT ![c] = Left(Vocabulary, c)]
    /\ UNCHANGED <<other, fresh>>

(* The second does, binds a name, is made anew, or as a copy of the first. *)
OtherApplies ==
  \E c \in Calls :
    /\ memo' = [memo EXCEPT ![c] = Left(other, c)]
    /\ UNCHANGED <<vars, other, fresh>>

OtherInterns ==
  \E n \in OtherNames : other' = Intern(other, n) /\ UNCHANGED <<vars, fresh, memo>>

OtherStarts ==
  /\ other' = [names |-> <<>>, key |-> Key] /\ Hands
  /\ UNCHANGED <<vars, memo>>

(* Mutated: the copy has the key of what it copies.                        *)
Copied_SameKey == [names |-> table.names, key |-> MyKey]

Copied == [names |-> table.names, key |-> Key]

OtherCopies == other' = Copied /\ Hands /\ UNCHANGED <<vars, memo>>

(* A copy of a value has its memo.                                         *)
Dup ==
  \E c, d \in Calls :
    /\ c # d /\ NameOf[c] = NameOf[d] /\ SigilOf[c] = SigilOf[d]
    /\ memo' = [memo EXCEPT ![d] = memo[c]]
    /\ UNCHANGED <<vars, other, fresh>>

VocabulariesNext ==
  \/ Words_ \/ Applies \/ OtherApplies \/ OtherInterns \/ OtherStarts \/ OtherCopies \/ Dup

VocabulariesSpec == VocabulariesInit /\ [][VocabulariesNext]_allVars

-----------------------------------------------------------------------------
(* A CALL value means what its name means, now and in the interpreter that *)
(* applies it: whoever applied it before, whatever was bound since, and    *)
(* whichever vocabulary is a copy of which.  Neither the memo nor the      *)
(* answer kept on the slot makes a difference.                             *)
CalledByName ==
  \A c \in Calls :
    /\ Found(other, c) = LookupCall(other, c)
    /\ {ResolveTo(table, f.sym, f.sigil) : f \in Found(Vocabulary, c)}
         = {Resolve(table, f.sym, f.sigil) : f \in LookupCall(Vocabulary, c)}
=============================================================================
