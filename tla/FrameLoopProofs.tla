--------------------------- MODULE FrameLoopProofs ---------------------------
(***************************************************************************)
(* Proofs about FrameLoop, for any number of stacks, frames, values and    *)
(* calls: no request outlives a failure or is overwritten (RequestKept), a *)
(* call finds its frames as it left them (OwnFrames), an exit stops the    *)
(* natives that wait for a body (ExitStops), and a call on another stack   *)
(* ends on the one it came from (BackAgain).                               *)
(*                                                                         *)
(* Everything rests on how the Rust calls may sit on one another: a native *)
(* on a call that applies a value, a call on a native or on a compiled     *)
(* body, a compiled body on a call that starts one.  Their floors rise, so *)
(* what the innermost leaves alone the others find.  The shadow frame is   *)
(* the frame above the floor of the innermost compiled body that has       *)
(* called out, so a cursor is never written below a floor.  And a request  *)
(* waits only on the way from the native that filed it to the loop, the    *)
(* call or the compiled body's entry that takes it.                        *)
(***************************************************************************)
EXTENDS FrameLoop, SequenceTheorems, WellFoundedInduction, TLAPS

FrameSet == [left : Bodies, exit : Names \cup {None}]
CompiledSet == [kind : {"compiled"}, left : Bodies, tail : BOOLEAN, floor : Nat, outer : Nat]
Places == {"next", "value", "body", "loop", "step", "push"}
CallSet ==
  [kind : {"program", "apply", "eval", "filing"}, at : Places, floor : Nat, back : {None}]
    \cup [kind : {"scoped"}, at : Places, floor : Nat, back : Names]
Entries == Natives \cup CompiledSet \cup CallSet

IsCompiled(x) == x.kind = "compiled"
HasFloor(x) == x.kind # "native"

(* A call that has had a value applied.                                    *)
Applier(x) ==
  \/ x.kind \in {"program", "apply", "filing"} /\ x.at = "value"
  \/ x.kind \in Calls /\ x.at = "step"

(* What may sit on what.                                                   *)
Sits(x, y) ==
  /\ y.kind # "program"
  /\ y.kind = "native" => Applier(x)
  /\ y.kind \in {"eval", "scoped"} => x.kind = "native"
  /\ y.kind = "apply" => x.kind = "native" \/ IsCompiled(x)
  /\ y.kind = "filing" => IsCompiled(x) /\ x.left = 0
  /\ IsCompiled(y) => x.kind \in Calls /\ x.at \in {"body", "push"}

Below(c, n) == \A i \in DOMAIN c : HasFloor(c[i]) => c[i].floor <= n

(* s is the shadow of the innermost compiled body among the first n.       *)
ShadowIs(c, n, s) ==
  \/ s = 0 /\ \A k \in 1..n : ~IsCompiled(c[k])
  \/ \E j \in 1..n : /\ IsCompiled(c[j]) /\ s = c[j].floor + 1
                     /\ \A k \in (j + 1)..n : ~IsCompiled(c[k])

WellNested(c) ==
  /\ c \in Seq(Entries)
  /\ c # <<>> => c[1].kind = "program"
  /\ \A i \in 2..Len(c) : Sits(c[i - 1], c[i])
  /\ \A i, j \in DOMAIN c : i < j /\ HasFloor(c[i]) /\ HasFloor(c[j]) => c[i].floor <= c[j].floor
  /\ \A i \in DOMAIN c : IsCompiled(c[i]) =>
       c[i].floor < MaxFrames /\ ShadowIs(c, i - 1, c[i].outer)

(* A compiled body that has not called out has no frame, and nothing above *)
(* its floor.                                                              *)
Silent(c, list, s) ==
  c # <<>> /\ IsCompiled(Last(c)) /\ s = 0 /\ Len(list) = Last(c).floor

Fits(c, list, s) ==
  /\ WellNested(c) /\ list \in Seq(FrameSet) /\ Len(list) <= MaxFrames
  /\ Below(c, Len(list))
  /\ ShadowIs(c, Len(c), s) \/ Silent(c, list, s)

(* Where a request may wait.                                               *)
Waits ==
  /\ rust # <<>>
  /\ \/ Top = Native(TRUE)
     \/ Applier(Top) /\ answer = "ok"
     \/ IsCompiled(Top) /\ Top.left = 0

RequestInv ==
  /\ pending \in Seq(Bodies) /\ Len(pending) <= 1 /\ MirrorTrue
  /\ pending # <<>> => Waits

Rest ==
  /\ current \in Names /\ exiting \in BOOLEAN /\ answer \in {None, "ok", "err"}

IInv == Fits(rust, frames, shadow) /\ RequestInv /\ Rest

-----------------------------------------------------------------------------
(* The Rust calls as a sequence.                                           *)

LEMMA EntryKinds ==
  ASSUME NEW x \in Entries
  PROVE  /\ x.kind \in {"native", "compiled", "filing"} \cup Calls
         /\ x.kind = "native" => x \in Natives
         /\ IsCompiled(x) => x \in CompiledSet
         /\ HasFloor(x) => x.floor \in Nat
         /\ x.kind \in Calls \cup {"filing"} => x \in CallSet
  BY DEF Entries, Natives, Native, CompiledSet, CallSet, Calls, IsCompiled, HasFloor

LEMMA FrontFacts ==
  ASSUME NEW S, NEW c \in Seq(S), c # <<>>
  PROVE  /\ Len(c) \in Nat /\ Len(c) >= 1
         /\ Front(c) \in Seq(S) /\ Len(Front(c)) = Len(c) - 1
         /\ \A i \in 1..(Len(c) - 1) : Front(c)[i] = c[i]
         /\ Last(c) = c[Len(c)] /\ Last(c) \in S
<1>1. Len(c) \in Nat /\ Len(c) >= 1 /\ \A i \in 1..Len(c) : c[i] \in S
  OBVIOUS
<1> DEFINE m == Len(c) - 1
           q == SubSeq(c, 1, m)
<1>2. m \in Int /\ m >= 0 /\ 1 \in Int /\ \A i \in 1..m : c[i] \in S
  BY <1>1
<1>3. /\ q \in Seq(S) /\ Len(q) = IF 1 <= m THEN m - 1 + 1 ELSE 0
      /\ \A i \in 1..(m - 1 + 1) : q[i] = c[1 + i - 1]
  BY <1>2, SubSeqProperties
<1>4. q = Front(c)
  BY DEF Front
<1> HIDE DEF q
<1>5. /\ Len(q) = m /\ \A i \in 1..m : q[i] = c[i]
  <2>1. \A i \in 1..m : 1 + i - 1 = i /\ i \in 1..(m - 1 + 1)
    BY <1>2
  <2> HIDE DEF m
  <2>2. Len(q) = m
    BY <1>2, <1>3
  <2>3. QED
    BY <1>3, <2>1, <2>2
<1>6. QED
  BY <1>1, <1>3, <1>4, <1>5 DEF Last

LEMMA AppendFacts ==
  ASSUME NEW S, NEW c \in Seq(S), NEW x \in S
  PROVE  /\ Append(c, x) \in Seq(S) /\ Len(Append(c, x)) = Len(c) + 1 /\ Append(c, x) # <<>>
         /\ \A i \in 1..Len(c) : Append(c, x)[i] = c[i]
         /\ Append(c, x)[Len(c) + 1] = x /\ Last(Append(c, x)) = x
  BY DEF Last

LEMMA ReplaceFacts ==
  ASSUME NEW S, NEW c \in Seq(S), c # <<>>, NEW x \in S, NEW d, d = Append(Front(c), x)
  PROVE  /\ d \in Seq(S) /\ d # <<>> /\ Len(d) = Len(c)
         /\ \A i \in 1..(Len(c) - 1) : d[i] = c[i]
         /\ d[Len(c)] = x /\ Last(d) = x
<1>1. Front(c) \in Seq(S) /\ Len(Front(c)) = Len(c) - 1 /\ Len(c) \in Nat
      /\ \A i \in 1..(Len(c) - 1) : Front(c)[i] = c[i]
  BY FrontFacts
<1>2. QED
  BY <1>1, AppendFacts

LEMMA ShadowSame ==
  ASSUME NEW c, NEW d, NEW n \in Nat, NEW s, ShadowIs(c, n, s),
         \A k \in 1..n : /\ IsCompiled(d[k]) <=> IsCompiled(c[k])
                         /\ IsCompiled(c[k]) => d[k].floor = c[k].floor
  PROVE  ShadowIs(d, n, s)
  BY DEF ShadowIs

(* A call that returns.                                                    *)
LEMMA PopNests ==
  ASSUME NEW c, WellNested(c), c # <<>>
  PROVE  /\ WellNested(Front(c)) /\ Front(c) \in Seq(Entries)
         /\ HasFloor(Last(c)) => Below(Front(c), Last(c).floor)
         /\ IsCompiled(Last(c)) => ShadowIs(Front(c), Len(Front(c)), Last(c).outer)
         /\ Len(c) > 1 => Front(c) # <<>> /\ Sits(Last(Front(c)), Last(c))
<1> DEFINE d == Front(c)
           n == Len(c)
<1>1. c \in Seq(Entries)
  BY DEF WellNested
<1>2. /\ n \in Nat /\ n >= 1 /\ d \in Seq(Entries) /\ Len(d) = n - 1
      /\ \A i \in 1..(n - 1) : d[i] = c[i]
      /\ Last(c) = c[n]
  BY <1>1, FrontFacts
<1> HIDE DEF d, n
<1>3. d # <<>> => n > 1 /\ d[1].kind = "program"
  BY <1>2 DEF WellNested, n
<1>4. ASSUME NEW i \in 2..Len(d) PROVE Sits(d[i - 1], d[i])
  <2>1. i \in 2..n /\ i \in 1..(n - 1) /\ i - 1 \in 1..(n - 1)
    BY <1>2
  <2>2. Sits(c[i - 1], c[i])
    BY <2>1 DEF WellNested, n
  <2>3. QED
    BY <1>2, <2>1, <2>2
<1>5. ASSUME NEW i \in DOMAIN d, NEW j \in DOMAIN d, i < j, HasFloor(d[i]), HasFloor(d[j])
      PROVE  d[i].floor <= d[j].floor
  <2>1. \A k, l \in 1..n : k < l /\ HasFloor(c[k]) /\ HasFloor(c[l]) => c[k].floor <= c[l].floor
    BY <1>1 DEF WellNested, n
  <2>2. i \in 1..n /\ j \in 1..n /\ d[i] = c[i] /\ d[j] = c[j]
    BY <1>2
  <2>3. QED
    BY <1>5, <2>1, <2>2
<1>6. ASSUME NEW i \in 1..n, IsCompiled(c[i])
      PROVE  c[i].floor < MaxFrames /\ ShadowIs(d, i - 1, c[i].outer)
  <2>1. c[i].floor < MaxFrames /\ ShadowIs(c, i - 1, c[i].outer)
    BY <1>1, <1>2, <1>6 DEF WellNested, n
  <2>2. i - 1 \in Nat /\ \A k \in 1..(i - 1) : d[k] = c[k]
    BY <1>2
  <2>3. QED
    BY <2>1, <2>2, ShadowSame
<1>7. \A i \in DOMAIN d : IsCompiled(d[i]) => d[i].floor < MaxFrames /\ ShadowIs(d, i - 1, d[i].outer)
  BY <1>2, <1>6
<1>8. WellNested(d)
  BY <1>2, <1>3, <1>4, <1>5, <1>7 DEF WellNested
<1>9. ASSUME HasFloor(Last(c)), NEW i \in DOMAIN d, HasFloor(d[i])
      PROVE  d[i].floor <= Last(c).floor
  <2>1. i \in 1..(n - 1) /\ d[i] = c[i] /\ i < n /\ i \in 1..n /\ n \in 1..n
    BY <1>2
  <2>2. \A k, j \in 1..n : k < j /\ HasFloor(c[k]) /\ HasFloor(c[j]) => c[k].floor <= c[j].floor
    BY <1>1 DEF WellNested, n
  <2>3. QED
    BY <1>2, <1>9, <2>1, <2>2
<1>10. IsCompiled(Last(c)) => ShadowIs(d, Len(d), Last(c).outer)
  BY <1>2, <1>6
<1>11. n > 1 => d # <<>> /\ Sits(Last(d), Last(c))
  BY <1>1, <1>2, FrontFacts DEF WellNested, n, Last
<1>12. QED
  BY <1>2, <1>8, <1>9, <1>10, <1>11 DEF Below, d, n

(* The innermost call goes on.                                             *)
LEMMA ReplaceNests ==
  ASSUME NEW c, WellNested(c), c # <<>>, NEW x \in Entries, x.kind = Last(c).kind,
         HasFloor(x) => x.floor = Last(c).floor,
         IsCompiled(x) => x.outer = Last(c).outer
  PROVE  LET d == Append(Front(c), x)
         IN  /\ WellNested(d) /\ d # <<>> /\ Len(d) = Len(c) /\ Last(d) = x
             /\ \A n : Below(c, n) => Below(d, n)
             /\ \A s : ShadowIs(c, Len(c), s) => ShadowIs(d, Len(d), s)
<1> DEFINE d == Append(Front(c), x)
           n == Len(c)
<1>1. c \in Seq(Entries)
  BY DEF WellNested
<1>2. /\ n \in Nat /\ n >= 1 /\ d \in Seq(Entries) /\ d # <<>> /\ Len(d) = n
      /\ \A i \in 1..(n - 1) : d[i] = c[i]
      /\ Last(c) = c[n] /\ Last(d) = x /\ d[n] = x
  <2>1. n \in Nat /\ n >= 1 /\ Last(c) = c[n]
    BY <1>1, FrontFacts
  <2>2. /\ Front(c) \in Seq(Entries) /\ Len(Front(c)) = n - 1
        /\ \A i \in 1..(n - 1) : Front(c)[i] = c[i]
    BY <1>1, FrontFacts
  <2>3. /\ d \in Seq(Entries) /\ Len(d) = Len(Front(c)) + 1 /\ d # <<>>
        /\ \A i \in 1..Len(Front(c)) : d[i] = Front(c)[i]
        /\ d[Len(Front(c)) + 1] = x /\ Last(d) = x
    BY <2>2, AppendFacts
  <2> HIDE DEF d, n
  <2>4. QED
    BY <2>1, <2>2, <2>3
<1> HIDE DEF d, n
<1>3. \A i \in 1..n : /\ d[i].kind = c[i].kind
                      /\ HasFloor(d[i]) <=> HasFloor(c[i])
                      /\ IsCompiled(d[i]) <=> IsCompiled(c[i])
                      /\ HasFloor(c[i]) => d[i].floor = c[i].floor
                      /\ IsCompiled(c[i]) => d[i].outer = c[i].outer /\ d[i].floor = c[i].floor
  BY <1>2 DEF HasFloor, IsCompiled
<1>4. \A i \in 2..n : Sits(c[i - 1], c[i])
  BY <1>1 DEF WellNested, n
<1>5. ASSUME NEW i \in 2..n PROVE Sits(d[i - 1], d[i])
  BY <1>2, <1>3, <1>4 DEF Sits, IsCompiled
<1>6. \A i, j \in 1..n : i < j /\ HasFloor(d[i]) /\ HasFloor(d[j]) => d[i].floor <= d[j].floor
  BY <1>1, <1>3 DEF WellNested, n
<1>7. ASSUME NEW s, NEW m \in 0..n, ShadowIs(c, m, s) PROVE ShadowIs(d, m, s)
  BY <1>2, <1>3, <1>7, ShadowSame
<1>8. ASSUME NEW i \in 1..n, IsCompiled(d[i])
      PROVE  d[i].floor < MaxFrames /\ ShadowIs(d, i - 1, d[i].outer)
  <2>1. c[i].floor < MaxFrames /\ ShadowIs(c, i - 1, c[i].outer)
    BY <1>1, <1>3, <1>8 DEF WellNested, n
  <2>2. i - 1 \in 0..n
    BY <1>2
  <2>3. QED
    BY <2>1, <2>2, <1>3, <1>7, <1>8
<1>9. WellNested(d)
  <2>1. c[1].kind = "program"
    BY DEF WellNested
  <2>2. d[1].kind = "program"
    BY <1>2, <1>3, <2>1
  <2>3. DOMAIN d = 1..n
    BY <1>2
  <2>4. QED
    BY <1>2, <1>5, <1>6, <1>8, <2>2, <2>3 DEF WellNested
<1>10. ASSUME NEW m, Below(c, m) PROVE Below(d, m)
  BY <1>1, <1>2, <1>3, <1>10 DEF Below, n
<1>11. ASSUME NEW s, ShadowIs(c, n, s) PROVE ShadowIs(d, n, s)
  BY <1>2, <1>7, <1>11
<1>12. QED
  BY <1>2, <1>9, <1>10, <1>11 DEF d, n

(* A call begins.                                                          *)
LEMMA PushNests ==
  ASSUME NEW c, WellNested(c), c # <<>>, NEW x \in Entries, Sits(Last(c), x),
         HasFloor(x) => Below(c, x.floor),
         IsCompiled(x) => x.floor < MaxFrames /\ ShadowIs(c, Len(c), x.outer)
  PROVE  LET d == Append(c, x)
         IN  /\ WellNested(d) /\ d # <<>> /\ Last(d) = x
             /\ \A n : Below(c, n) /\ (HasFloor(x) => x.floor <= n) => Below(d, n)
             /\ \A s : ~IsCompiled(x) /\ ShadowIs(c, Len(c), s) => ShadowIs(d, Len(d), s)
<1> DEFINE d == Append(c, x)
           n == Len(c)
<1>1. c \in Seq(Entries)
  BY DEF WellNested
<1>2. /\ n \in Nat /\ n >= 1 /\ d \in Seq(Entries) /\ d # <<>> /\ Len(d) = n + 1
      /\ \A i \in 1..n : d[i] = c[i]
      /\ Last(c) = c[n] /\ Last(d) = x /\ d[n + 1] = x
  <2>1. n \in Nat /\ n >= 1 /\ Last(c) = c[n]
    BY <1>1, FrontFacts
  <2>2. /\ d \in Seq(Entries) /\ Len(d) = n + 1 /\ d # <<>>
        /\ \A i \in 1..n : d[i] = c[i]
        /\ d[n + 1] = x /\ Last(d) = x
    BY <1>1, AppendFacts
  <2>3. QED
    BY <2>1, <2>2
<1> HIDE DEF d, n
<1>3. d[1].kind = "program"
  BY <1>1, <1>2 DEF WellNested
<1>4. ASSUME NEW i \in 2..(n + 1) PROVE Sits(d[i - 1], d[i])
  <2>1. CASE i \in 2..n
    BY <1>1, <1>2, <2>1 DEF WellNested, n
  <2>2. CASE i = n + 1
    BY <1>2, <2>2
  <2>3. QED
    BY <1>2, <2>1, <2>2
<1>5. ASSUME NEW i \in 1..(n + 1), NEW j \in 1..(n + 1), i < j, HasFloor(d[i]), HasFloor(d[j])
      PROVE  d[i].floor <= d[j].floor
  <2>1. CASE j \in 1..n
    <3>1. \A k, l \in 1..n : k < l /\ HasFloor(c[k]) /\ HasFloor(c[l]) => c[k].floor <= c[l].floor
      BY <1>1 DEF WellNested, n
    <3>2. i \in 1..n /\ d[i] = c[i] /\ d[j] = c[j]
      BY <1>2, <1>5, <2>1
    <3>3. QED
      BY <1>5, <2>1, <3>1, <3>2
  <2>2. CASE j = n + 1
    <3>1. \A k \in 1..n : HasFloor(x) /\ HasFloor(c[k]) => c[k].floor <= x.floor
      BY <1>1 DEF Below, n
    <3>2. i \in 1..n /\ d[i] = c[i] /\ d[j] = x
      BY <1>2, <1>5, <2>2
    <3>3. QED
      BY <1>5, <3>1, <3>2
  <2>3. QED
    BY <1>2, <2>1, <2>2
<1>6. ASSUME NEW s, NEW m \in 0..n, ShadowIs(c, m, s) PROVE ShadowIs(d, m, s)
  BY <1>2, <1>6, ShadowSame
<1>7. ASSUME NEW i \in 1..(n + 1), IsCompiled(d[i])
      PROVE  d[i].floor < MaxFrames /\ ShadowIs(d, i - 1, d[i].outer)
  <2>1. CASE i \in 1..n
    <3>1. c[i].floor < MaxFrames /\ ShadowIs(c, i - 1, c[i].outer)
      BY <1>1, <1>2, <1>7, <2>1 DEF WellNested, n
    <3>2. QED
      BY <1>2, <1>6, <2>1, <3>1
  <2>2. CASE i = n + 1
    <3>1. x.floor < MaxFrames /\ ShadowIs(c, n, x.outer) /\ i - 1 = n /\ n \in 0..n
      BY <1>2, <1>7, <2>2 DEF n
    <3>2. QED
      BY <1>2, <1>6, <2>2, <3>1
  <2>3. QED
    BY <1>2, <2>1, <2>2
<1>8. WellNested(d)
  BY <1>2, <1>3, <1>4, <1>5, <1>7 DEF WellNested
<1>9. ASSUME NEW m, Below(c, m), HasFloor(x) => x.floor <= m PROVE Below(d, m)
  BY <1>1, <1>2, <1>9 DEF Below, n
<1>10. ASSUME NEW s, ~IsCompiled(x), ShadowIs(c, n, s) PROVE ShadowIs(d, n + 1, s)
  <2>1. ShadowIs(d, n, s)
    BY <1>2, <1>6, <1>10
  <2>2. /\ n + 1 \in 1..(n + 1) /\ ~IsCompiled(d[n + 1])
        /\ \A k \in 1..(n + 1) : k \in 1..n \/ k = n + 1
        /\ \A j \in 1..n :
             /\ j \in 1..(n + 1)
             /\ \A k \in (j + 1)..(n + 1) : k \in (j + 1)..n \/ k = n + 1
    BY <1>2, <1>10
  <2>3. QED
    BY <2>1, <2>2 DEF ShadowIs
<1>11. QED
  BY <1>2, <1>8, <1>9, <1>10 DEF d, n

-----------------------------------------------------------------------------
(* The Rust calls over the list of frames.                                 *)

LEMMA FitsReplace ==
  ASSUME NEW c, NEW list, NEW s, Fits(c, list, s), c # <<>>,
         NEW x \in Entries, x.kind = Last(c).kind,
         HasFloor(x) => x.floor = Last(c).floor,
         IsCompiled(x) => x.outer = Last(c).outer
  PROVE  LET d == Append(Front(c), x)
         IN  /\ Fits(d, list, s) /\ d # <<>> /\ Last(d) = x
             /\ ShadowIs(c, Len(c), s) => ShadowIs(d, Len(d), s)
<1> DEFINE d == Append(Front(c), x)
<1>1. /\ WellNested(d) /\ d # <<>> /\ Last(d) = x
      /\ \A n : Below(c, n) => Below(d, n)
      /\ \A t : ShadowIs(c, Len(c), t) => ShadowIs(d, Len(d), t)
  BY ReplaceNests DEF Fits
<1> HIDE DEF d
<1>2. Silent(c, list, s) => Silent(d, list, s)
  BY <1>1 DEF Silent, IsCompiled, HasFloor
<1>3. QED
  BY <1>1, <1>2 DEF Fits, d

(* A native, or a call whose floor is the present top of the list.         *)
LEMMA FitsPush ==
  ASSUME NEW c, NEW list, NEW s, Fits(c, list, s), ShadowIs(c, Len(c), s), c # <<>>,
         NEW x \in Entries, ~IsCompiled(x), Sits(Last(c), x),
         HasFloor(x) => x.floor = Len(list)
  PROVE  LET d == Append(c, x)
         IN  /\ Fits(d, list, s) /\ ShadowIs(d, Len(d), s) /\ d # <<>> /\ Last(d) = x
<1>1. Len(list) \in Nat /\ WellNested(c) /\ Below(c, Len(list))
  BY DEF Fits
<1>2. HasFloor(x) => Below(c, x.floor) /\ x.floor <= Len(list)
  BY <1>1
<1>3. QED
  BY <1>1, <1>2, PushNests DEF Fits

LEMMA FitsCompiled ==
  ASSUME NEW c, NEW list, NEW s, Fits(c, list, s), ShadowIs(c, Len(c), s), c # <<>>,
         Last(c).kind \in Calls, Last(c).at \in {"body", "push"}, Len(list) < MaxFrames,
         s \in Nat, NEW x \in CompiledSet, x.floor = Len(list), x.outer = s
  PROVE  LET d == Append(c, x)
         IN  Fits(d, list, 0) /\ d # <<>> /\ Last(d) = x
<1> DEFINE d == Append(c, x)
<1>1. Len(list) \in Nat /\ WellNested(c) /\ Below(c, Len(list))
  BY DEF Fits
<1>2. x \in Entries /\ IsCompiled(x) /\ HasFloor(x) /\ x.kind = "compiled"
  BY DEF Entries, CompiledSet, IsCompiled, HasFloor
<1>3. Sits(Last(c), x)
  BY <1>2 DEF Sits, Calls
<1>4. /\ WellNested(d) /\ d # <<>> /\ Last(d) = x
      /\ \A n : Below(c, n) /\ (HasFloor(x) => x.floor <= n) => Below(d, n)
  BY <1>1, <1>2, <1>3, PushNests
<1> HIDE DEF d
<1>5. Below(d, Len(list)) /\ Silent(d, list, 0)
  BY <1>1, <1>2, <1>4 DEF Silent
<1>6. QED
  BY <1>4, <1>5 DEF Fits, d

(* With the innermost call its own shadow goes, and that of the compiled   *)

(* body below it is back in force.                                         *)
LEMMA FitsPop ==
  ASSUME NEW c, NEW list, NEW s, Fits(c, list, s), c # <<>>,
         NEW list2 \in Seq(FrameSet), Len(list2) <= MaxFrames,
         Len(list2) >= (IF HasFloor(Last(c)) THEN Last(c).floor ELSE Len(list))
  PROVE  LET d == Front(c)
             t == IF IsCompiled(Last(c)) THEN Last(c).outer ELSE s
         IN  Fits(d, list2, t) /\ ShadowIs(d, Len(d), t)
<1> DEFINE d == Front(c)
           n == Len(c)
<1>1. WellNested(c) /\ c \in Seq(Entries) /\ Below(c, Len(list)) /\ Len(list) \in Nat
      /\ list \in Seq(FrameSet) /\ Len(list2) \in Nat
  BY DEF Fits, WellNested
<1>2. /\ n \in Nat /\ n >= 1 /\ d \in Seq(Entries) /\ Len(d) = n - 1
      /\ \A i \in 1..(n - 1) : d[i] = c[i]
      /\ Last(c) = c[n] /\ Last(c) \in Entries
  BY <1>1, FrontFacts
<1>3. /\ WellNested(d)
      /\ HasFloor(Last(c)) => Below(d, Last(c).floor)
      /\ IsCompiled(Last(c)) => ShadowIs(d, Len(d), Last(c).outer)
  BY <1>1, PopNests
<1> HIDE DEF d, n
<1>4. Below(d, Len(list2))
  <2>1. CASE HasFloor(Last(c))
    <3>1. Last(c).floor \in Nat /\ Last(c).floor <= Len(list2) /\ Below(d, Last(c).floor)
      BY <1>2, <1>3, <2>1, EntryKinds
    <3>2. \A i \in DOMAIN d : HasFloor(d[i]) => d[i].floor \in Nat
      BY <1>2, EntryKinds
    <3>3. QED
      BY <1>1, <3>1, <3>2 DEF Below
  <2>2. CASE ~HasFloor(Last(c))
    <3>1. Below(d, Len(list))
      BY <1>1, <1>2, SMTT(20) DEF Below, n
    <3>2. \A i \in DOMAIN d : HasFloor(d[i]) => d[i].floor \in Nat
      BY <1>2, EntryKinds
    <3>3. QED
      BY <1>1, <2>2, <3>1, <3>2 DEF Below
  <2>3. QED
    BY <2>1, <2>2
<1>5. ASSUME ~IsCompiled(Last(c)) PROVE ShadowIs(d, Len(d), s)
  <2>1. ShadowIs(c, n, s)
    BY <1>5 DEF Fits, Silent, n
  <2>2. CASE s = 0 /\ \A k \in 1..n : ~IsCompiled(c[k])
    BY <1>2, <2>2 DEF ShadowIs
  <2>3. CASE \E j \in 1..n : /\ IsCompiled(c[j]) /\ s = c[j].floor + 1
                             /\ \A k \in (j + 1)..n : ~IsCompiled(c[k])
    <3>1. PICK j \in 1..n : /\ IsCompiled(c[j]) /\ s = c[j].floor + 1
                            /\ \A k \in (j + 1)..n : ~IsCompiled(c[k])
      BY <2>3
    <3>2. j \in 1..(n - 1) /\ \A k \in (j + 1)..(n - 1) : ~IsCompiled(d[k])
      BY <1>2, <1>5, <3>1
    <3>3. IsCompiled(d[j]) /\ s = d[j].floor + 1
      BY <1>2, <3>1, <3>2
    <3>4. QED
      BY <1>2, <3>2, <3>3 DEF ShadowIs
  <2>4. QED
    BY <2>1, <2>2, <2>3 DEF ShadowIs
<1>6. QED
  BY <1>1, <1>3, <1>4, <1>5 DEF Fits, d

(* The list changes above the floors.                                      *)
LEMMA FitsList ==
  ASSUME NEW c, NEW list, NEW s, Fits(c, list, s), ShadowIs(c, Len(c), s), c # <<>>,
         NEW list2 \in Seq(FrameSet), Len(list2) <= MaxFrames,
         Len(list2) >= Len(list) \/ (HasFloor(Last(c)) /\ Len(list2) >= Last(c).floor)
  PROVE  Fits(c, list2, s)
<1>1. WellNested(c) /\ c \in Seq(Entries) /\ Below(c, Len(list)) /\ Len(list) \in Nat
      /\ Len(list2) \in Nat
  BY DEF Fits, WellNested
<1>2. Len(c) \in Nat /\ Len(c) >= 1 /\ Last(c) = c[Len(c)]
  BY <1>1, FrontFacts
<1>3. \A i \in DOMAIN c : HasFloor(c[i]) => c[i].floor \in Nat
  BY <1>1, EntryKinds
<1>4. Below(c, Len(list2))
  <2>1. CASE Len(list2) >= Len(list)
    BY <1>1, <1>3, <2>1 DEF Below
  <2>2. CASE HasFloor(Last(c)) /\ Len(list2) >= Last(c).floor
    <3>1. \A i \in 1..Len(c) : HasFloor(c[i]) => c[i].floor <= c[Len(c)].floor
      BY <1>1, <1>2, <1>3, <2>2 DEF WellNested
    <3>2. QED
      BY <1>1, <1>2, <1>3, <2>2, <3>1 DEF Below
  <2>3. QED
    BY <2>1, <2>2
<1>5. QED
  BY <1>1, <1>4 DEF Fits

-----------------------------------------------------------------------------
(* The steps handlers share.                                               *)

LEMMA MinIsLeast ==
  ASSUME NEW S \in SUBSET Nat, S # {}
  PROVE  Min(S) \in S /\ \A y \in S : Min(S) <= y
<1> DEFINE R == {p \in Nat \X Nat : p[1] < p[2]}
<1>1. IsWellFoundedOn(R, Nat)
  BY NatLessThanWellFounded DEF OpToRel
<1>2. PICK x \in S : \A y \in S : ~(<<y, x>> \in R)
  <2> HIDE DEF R
  <2> QED
    BY <1>1, WFMin
<1>3. ASSUME NEW y \in S PROVE x <= y
  <2>1. ~(<<y, x>> \in R) /\ x \in Nat /\ y \in Nat
    BY <1>2
  <2>2. ~(y < x)
    BY <2>1
  <2>3. QED
    BY <2>1, <2>2
<1>4. QED
  BY <1>3 DEF Min

LEMMA FirstFrames ==
  ASSUME NEW list \in Seq(FrameSet), NEW k \in Nat, k <= Len(list)
  PROVE  /\ SubSeq(list, 1, k) \in Seq(FrameSet) /\ Len(SubSeq(list, 1, k)) = k
         /\ \A i \in 1..k : SubSeq(list, 1, k)[i] = list[i]
<1> DEFINE q == SubSeq(list, 1, k)
<1>1. k \in Int /\ 1 \in Int /\ \A i \in 1..k : list[i] \in FrameSet
  OBVIOUS
<1>2. /\ q \in Seq(FrameSet) /\ Len(q) = IF 1 <= k THEN k - 1 + 1 ELSE 0
      /\ \A i \in 1..(k - 1 + 1) : q[i] = list[1 + i - 1]
  BY <1>1, SubSeqProperties
<1> HIDE DEF q
<1>3. \A i \in 1..k : 1 + i - 1 = i /\ i \in 1..(k - 1 + 1)
  OBVIOUS
<1>4. Len(q) = k
  BY <1>2
<1>5. QED
  BY <1>2, <1>3, <1>4 DEF q

LEMMA StackAfterName ==
  ASSUME frames \in Seq(FrameSet), current \in Names, NEW k \in Nat
  PROVE  StackAfter(k) \in Names
<1> DEFINE above == {i \in (k + 1)..Len(frames) : frames[i].exit # None}
<1>1. above \in SUBSET Nat /\ \A i \in above : frames[i] \in FrameSet /\ frames[i].exit # None
  OBVIOUS
<1>2. \A i \in above : frames[i].exit \in Names
  BY <1>1 DEF FrameSet
<1> HIDE DEF above
<1>3. above # {} => Min(above) \in above
  BY <1>1, MinIsLeast
<1>4. QED
  BY <1>2, <1>3 DEF StackAfter, above

LEMMA UnwindFacts ==
  ASSUME frames \in Seq(FrameSet), current \in Names, NEW k \in Nat, k <= Len(frames), Unwind(k)
  PROVE  /\ frames' \in Seq(FrameSet) /\ Len(frames') = k /\ current' \in Names
         /\ \A i \in 1..k : frames'[i] = frames[i]
<1>1. frames' = SubSeq(frames, 1, k) /\ current' = StackAfter(k)
  BY DEF Unwind
<1>2. QED
  BY <1>1, FirstFrames, StackAfterName

LEMMA ShadowNat ==
  ASSUME NEW c \in Seq(Entries), NEW n \in Nat, n <= Len(c), NEW s, ShadowIs(c, n, s)
  PROVE  s \in Nat
<1>1. \A j \in 1..n : c[j] \in Entries
  OBVIOUS
<1>2. \A j \in 1..n : IsCompiled(c[j]) => c[j].floor \in Nat
  BY <1>1, EntryKinds DEF IsCompiled, HasFloor
<1>3. QED
  BY <1>2 DEF ShadowIs

LEMMA AtEntry ==
  ASSUME NEW x \in CallSet, NEW place \in Places
  PROVE  LET y == [x EXCEPT !.at = place]
         IN  /\ y \in Entries /\ y.kind = x.kind /\ y.floor = x.floor /\ y.at = place
             /\ HasFloor(y) /\ ~IsCompiled(y) /\ HasFloor(x) /\ ~IsCompiled(x)
  BY DEF CallSet, Entries, HasFloor, IsCompiled

LEMMA RequestIs ==
  ASSUME NEW p \in Seq(Bodies), Len(p) <= 1, pending' = p, requested' = (p # <<>>),
         p # <<>> => Waits'
  PROVE  RequestInv'
<1>1. MirrorTrue'
  BY Zenon DEF MirrorTrue
<1>2. pending' \in Seq(Bodies) /\ Len(pending') <= 1
  BY Zenon
<1>3. pending' # <<>> => Waits'
  BY Zenon
<1>4. QED
  BY <1>1, <1>2, <1>3 DEF RequestInv

LEMMA NoRequest ==
  ASSUME pending' = <<>>, requested' = FALSE
  PROVE  RequestInv'
<1>1. <<>> \in Seq(Bodies) /\ Len(<<>>) <= 1
  OBVIOUS
<1>2. requested' = (<<>> # <<>>)
  BY Zenon
<1>3. QED
  BY <1>1, <1>2, RequestIs

LEMMA OneRequest ==
  ASSUME NEW n \in Bodies, pending' = <<n>>, requested' = TRUE, Waits'
  PROVE  RequestInv'
<1>1. <<n>> \in Seq(Bodies) /\ Len(<<n>>) <= 1 /\ <<n>> # <<>>
  OBVIOUS
<1>2. requested' = (<<n>> # <<>>)
  BY <1>1
<1>3. QED
  BY <1>1, <1>2, RequestIs

LEMMA StillNoRequest ==
  ASSUME RequestInv, pending = <<>>, KeepRequest
  PROVE  RequestInv'
  BY NoRequest DEF RequestInv, MirrorTrue, KeepRequest

(* One value applied: what it files waits where it was applied.            *)
LEMMA ApplyStepFits ==
  ASSUME NEW c, NEW list, NEW s, Fits(c, list, s), ShadowIs(c, Len(c), s), c # <<>>,
         Applier(Last(c)), RequestInv, pending = <<>>, Rest, ApplyStep(c)
  PROVE  Fits(rust', list, s) /\ RequestInv' /\ Rest'
<1>1. rust' \in {c, Append(c, Native(FALSE))}
  BY DEF ApplyStep
<1>2. Fits(Append(c, Native(FALSE)), list, s)
  <2>1. Native(FALSE) \in Entries /\ Native(FALSE).kind = "native"
    BY DEF Entries, Natives, Native
  <2>2. Sits(Last(c), Native(FALSE)) /\ ~IsCompiled(Native(FALSE)) /\ ~HasFloor(Native(FALSE))
    BY <2>1 DEF Sits, IsCompiled, HasFloor
  <2>3. QED
    BY <2>1, <2>2, FitsPush
<1>3. Rest'
  BY DEF ApplyStep, Rest
<1>4. CASE KeepRequest
  BY <1>1, <1>2, <1>3, <1>4, StillNoRequest
<1>5. CASE \E n \in Bodies : Request(n) /\ rust' = c /\ answer' = "ok"
  <2>1. PICK n \in Bodies : pending' = <<n>> /\ requested' = TRUE
    BY <1>5 DEF Request
  <2>2. Waits'
    BY <1>5 DEF Waits, Top
  <2>3. RequestInv'
    BY <2>1, <2>2, OneRequest
  <2>4. QED
    BY <1>3, <1>5, <2>3
<1>6. QED
  BY <1>4, <1>5 DEF ApplyStep

(* A body started, by a call that waits for that.                          *)
LEMMA PushFrameFits ==
  ASSUME NEW c, NEW list, NEW s, Fits(c, list, s), ShadowIs(c, Len(c), s), c # <<>>,
         Last(c).kind \in Calls, Last(c).at \in {"body", "push"},
         NEW n \in Bodies, NEW exit \in Names \cup {None}, PushFrame(c, list, s, n, exit)
  PROVE  Fits(rust', frames', shadow') /\ answer' \in {None, "ok", "err"}
<1>1. c \in Seq(Entries) /\ list \in Seq(FrameSet) /\ Len(list) \in Nat
  BY DEF Fits, WellNested
<1>2. s \in Nat
  BY <1>1, ShadowNat
<1>3. CASE answer' = "err" /\ rust' = c /\ frames' = list /\ shadow' = s
  BY <1>3
<1>4. CASE /\ Len(list) < MaxFrames
           /\ \E tail \in BOOLEAN :
                rust' = Append(c, [kind |-> "compiled", left |-> n, tail |-> tail,
                                   floor |-> Len(list), outer |-> s])
           /\ answer' = None /\ frames' = list /\ shadow' = 0
  <2>1. PICK x \in CompiledSet : rust' = Append(c, x) /\ x.floor = Len(list) /\ x.outer = s
    BY <1>1, <1>2, <1>4 DEF CompiledSet
  <2>2. QED
    BY <1>2, <1>4, <2>1, FitsCompiled
<1>5. CASE /\ Len(list) < MaxFrames
           /\ frames' = Append(list, Frame(n, exit))
           /\ answer' = "ok" /\ rust' = c /\ shadow' = s
  <2>1. Frame(n, exit) \in FrameSet
    BY DEF Frame, FrameSet
  <2>2. frames' \in Seq(FrameSet) /\ Len(frames') = Len(list) + 1
    BY <1>1, <1>5, <2>1, AppendFacts
  <2>3. Len(frames') <= MaxFrames /\ Len(frames') >= Len(list)
    BY <1>1, <1>5, <2>2, FrameLoopAssumption
  <2>4. QED
    BY <1>5, <2>2, <2>3, FitsList
<1>6. QED
  BY <1>3, <1>4, <1>5 DEF PushFrame

LEMMA TakePendingFits ==
  ASSUME NEW c, Fits(c, frames, shadow), ShadowIs(c, Len(c), shadow), c # <<>>,
         Last(c).kind \in Calls, Last(c).at \in {"body", "push"}, RequestInv, TakePending(c)
  PROVE  Fits(rust', frames', shadow') /\ RequestInv' /\ answer' \in {None, "ok", "err"}
<1>1. CASE /\ pending = <<>>
           /\ answer' = "ok" /\ rust' = c /\ KeepRequest /\ UNCHANGED <<frames, shadow>>
  BY <1>1, StillNoRequest
<1>2. CASE /\ pending # <<>> /\ ClearRequest
           /\ PushFrame(c, frames, shadow, Head(pending), None)
  <2>1. Head(pending) \in Bodies /\ None \in Names \cup {None}
    BY <1>2 DEF RequestInv
  <2>2. Fits(rust', frames', shadow') /\ answer' \in {None, "ok", "err"}
    BY <1>2, <2>1, PushFrameFits
  <2>3. QED
    BY <1>2, <2>2, NoRequest DEF ClearRequest
<1>3. QED
  BY <1>1, <1>2 DEF TakePending

(* What is known where a call goes on.                                     *)
LEMMA Going ==
  ASSUME IInv, NEW kinds \in SUBSET (Calls \cup {"filing"}), NEW places \in SUBSET Places,
         Drives(kinds, places)
  PROVE  /\ rust # <<>> /\ rust \in Seq(Entries) /\ Top \in CallSet
         /\ Top.kind \in kinds /\ Top.at \in places /\ Top.floor \in Nat
         /\ Top.floor <= Len(frames) /\ Len(frames) \in Nat /\ frames \in Seq(FrameSet)
         /\ HasFloor(Top) /\ ~IsCompiled(Top) /\ ShadowIs(rust, Len(rust), shadow)
<1>1. rust # <<>> /\ Top.kind \in kinds /\ Top.at \in places
  BY DEF Drives
<1>2. rust \in Seq(Entries) /\ frames \in Seq(FrameSet) /\ Below(rust, Len(frames))
      /\ (ShadowIs(rust, Len(rust), shadow) \/ Silent(rust, frames, shadow))
  BY DEF IInv, Fits, WellNested
<1>3. Len(rust) >= 1 /\ Len(rust) \in Nat /\ Top = rust[Len(rust)] /\ Top \in Entries
  BY <1>1, <1>2, FrontFacts DEF Top
<1>4. Top.kind \in Calls \cup {"filing"}
  BY <1>1
<1>5. Top \in CallSet /\ HasFloor(Top) /\ ~IsCompiled(Top) /\ Top.floor \in Nat
  BY <1>3, <1>4, EntryKinds DEF Calls, HasFloor, IsCompiled
<1>6. Top.floor <= Len(frames)
  BY <1>2, <1>3, <1>5 DEF Below
<1>7. ShadowIs(rust, Len(rust), shadow)
  BY <1>2, <1>5 DEF Silent, Top
<1>8. QED
  BY <1>1, <1>2, <1>5, <1>6, <1>7

LEMMA AtFits ==
  ASSUME IInv, NEW kinds \in SUBSET (Calls \cup {"filing"}), NEW places \in SUBSET Places,
         Drives(kinds, places), NEW place \in Places
  PROVE  /\ Fits(At(place), frames, shadow) /\ At(place) # <<>>
         /\ ShadowIs(At(place), Len(At(place)), shadow)
         /\ Last(At(place)).kind = Top.kind /\ Last(At(place)).at = place
         /\ Last(At(place)).floor = Top.floor /\ HasFloor(Last(At(place)))
<1> DEFINE x == [Top EXCEPT !.at = place]
<1>1. /\ rust # <<>> /\ Top \in CallSet /\ ShadowIs(rust, Len(rust), shadow)
      /\ Fits(rust, frames, shadow)
  BY Going DEF IInv
<1>2. /\ x \in Entries /\ x.kind = Top.kind /\ x.floor = Top.floor /\ x.at = place
      /\ HasFloor(x) /\ ~IsCompiled(x)
  BY <1>1, AtEntry
<1>3. At(place) = Append(Front(rust), x)
  BY DEF At
<1> HIDE DEF x
<1>4. /\ Fits(At(place), frames, shadow) /\ At(place) # <<>> /\ Last(At(place)) = x
      /\ (ShadowIs(rust, Len(rust), shadow) => ShadowIs(At(place), Len(At(place)), shadow))
  BY <1>1, <1>2, <1>3, FitsReplace DEF Top
<1>5. QED
  BY <1>1, <1>2, <1>4

(* A call that returns, over a list that still reaches its floor.          *)
LEMMA ReturnFits ==
  ASSUME IInv, rust # <<>>, frames' \in Seq(FrameSet), Len(frames') <= MaxFrames,
         Len(frames') >= (IF HasFloor(Top) THEN Top.floor ELSE Len(frames)),
         shadow' = (IF IsCompiled(Top) THEN Top.outer ELSE shadow), rust' = Front(rust)
  PROVE  Fits(rust', frames', shadow')
  BY FitsPop DEF IInv, Top

(* However a call fails, what is left fits.                                *)
LEMMA FailsFits ==
  ASSUME IInv, NEW places \in SUBSET Places, Drives(Calls, places), Fails,
         frames' \in Seq(FrameSet), Len(frames') <= MaxFrames, Len(frames') >= Top.floor,
         shadow' = shadow
  PROVE  Fits(rust', frames', shadow') /\ answer' \in {None, "ok", "err"}
<1>1. /\ rust # <<>> /\ Top.kind \in Calls /\ HasFloor(Top) /\ ~IsCompiled(Top)
      /\ rust \in Seq(Entries) /\ Top \in CallSet /\ Top.floor \in Nat /\ WellNested(rust)
  <2>1. Calls \in SUBSET (Calls \cup {"filing"})
    OBVIOUS
  <2>2. QED
    BY <2>1, Going DEF IInv, Fits
<1>2. ASSUME rust' = Front(rust) PROVE Fits(rust', frames', shadow')
  BY <1>1, <1>2, ReturnFits
<1>3. CASE Top.kind # "program"
  BY <1>2, <1>3 DEF Fails, Return
<1>4. CASE Top.kind = "program" /\ exiting
  <2>1. Len(rust) = 1
    <3>1. Len(rust) \in Nat /\ Len(rust) >= 1 /\ Top = rust[Len(rust)]
      BY <1>1, FrontFacts DEF Top
    <3>2. ~Sits(rust[Len(rust) - 1], rust[Len(rust)])
      BY <1>4, <3>1 DEF Sits
    <3>3. Len(rust) \in 2..Len(rust) => Sits(rust[Len(rust) - 1], rust[Len(rust)])
      BY <1>1 DEF WellNested
    <3>4. \A n \in Nat : n >= 1 /\ n \notin 2..n => n = 1
      OBVIOUS
    <3>5. Len(rust) \notin 2..Len(rust)
      BY <3>2, <3>3
    <3>6. QED
      BY <3>1, <3>4, <3>5, Zenon
  <2>2. Front(rust) = <<>>
    BY <1>1, <2>1, FrontFacts, EmptySeq
  <2>3. rust' = <<>> /\ answer' = None
    BY <1>4 DEF Fails
  <2>4. QED
    BY <1>2, <2>2, <2>3
<1>5. CASE Top.kind = "program" /\ ~exiting
  <2>1. rust' = At("next") /\ answer' = None
    BY <1>5 DEF Fails
  <2>2. /\ Fits(At("next"), frames, shadow) /\ At("next") # <<>>
        /\ ShadowIs(At("next"), Len(At("next")), shadow)
        /\ Last(At("next")).floor = Top.floor /\ HasFloor(Last(At("next")))
    BY AtFits DEF Places
  <2>3. QED
    BY <2>1, <2>2, FitsList
<1>6. QED
  BY <1>3, <1>4, <1>5 DEF Fails, Return

(* No request waits where a handler is about to apply or start something,  *)
(* or has been told of a failure.                                          *)
LEMMA NothingWaits ==
  ASSUME IInv, rust # <<>>, Top \in CallSet, ~Applier(Top) \/ answer # "ok"
  PROVE  pending = <<>>
<1>1. Top # Native(TRUE) /\ ~IsCompiled(Top)
  BY DEF CallSet, Native, IsCompiled
<1>2. ~Waits
  BY <1>1 DEF Waits
<1>3. QED
  BY <1>2 DEF IInv, RequestInv

-----------------------------------------------------------------------------
(* The calls that run bodies.                                              *)

LEMMA StepProgramStep ==
  ASSUME IInv, ProgramStep
  PROVE  IInv'
<1>1. Drives({"program"}, {"next"}) /\ ApplyStep(At("value")) /\ UNCHANGED <<frames, shadow>>
  BY DEF ProgramStep
<1>2. {"program"} \in SUBSET (Calls \cup {"filing"}) /\ {"next"} \in SUBSET Places
      /\ "value" \in Places
  BY DEF Calls, Places
<1>3. /\ rust # <<>> /\ Top \in CallSet /\ Top.kind = "program" /\ Top.at = "next"
  BY <1>1, <1>2, Going
<1>4. pending = <<>>
  BY <1>3, NothingWaits DEF Applier
<1>5. /\ Fits(At("value"), frames, shadow) /\ At("value") # <<>>
      /\ ShadowIs(At("value"), Len(At("value")), shadow)
      /\ Applier(Last(At("value")))
  BY <1>1, <1>2, <1>3, AtFits DEF Applier
<1>6. Fits(rust', frames, shadow) /\ RequestInv' /\ Rest'
  BY <1>1, <1>4, <1>5, ApplyStepFits DEF IInv
<1>7. QED
  BY <1>1, <1>6 DEF IInv

(* A call that waited for an answer starts what was filed, and waits on.   *)
LEMMA TakesPending ==
  ASSUME IInv, NEW places \in SUBSET Places, Drives(Calls, places),
         NEW place \in {"body", "push"}, TakePending(At(place)), UNCHANGED <<current, exiting>>
  PROVE  IInv'
<1>1. Calls \in SUBSET (Calls \cup {"filing"}) /\ place \in Places
  BY DEF Places
<1>2. /\ Fits(At(place), frames, shadow) /\ At(place) # <<>>
      /\ ShadowIs(At(place), Len(At(place)), shadow)
      /\ Last(At(place)).kind \in Calls /\ Last(At(place)).at \in {"body", "push"}
  BY <1>1, AtFits, Going
<1>3. Fits(rust', frames', shadow') /\ RequestInv' /\ answer' \in {None, "ok", "err"}
  BY <1>2, TakePendingFits DEF IInv
<1>4. QED
  BY <1>3 DEF IInv, Rest

(* A call that fails, with its stacks and frames put right.                *)
LEMMA CallFails ==
  ASSUME IInv, NEW places \in SUBSET Places, Drives(Calls, places), answer = "err", Fails,
         frames' \in Seq(FrameSet), Len(frames') <= MaxFrames, Len(frames') >= Top.floor,
         KeepRequest, UNCHANGED <<exiting, shadow>>, current' \in Names
  PROVE  IInv'
<1>1. Calls \in SUBSET (Calls \cup {"filing"})
  OBVIOUS
<1>2. rust # <<>> /\ Top \in CallSet
  BY <1>1, Going
<1>3. RequestInv'
  BY <1>2, NothingWaits, StillNoRequest DEF IInv
<1>4. Fits(rust', frames', shadow') /\ answer' \in {None, "ok", "err"}
  BY FailsFits
<1>5. QED
  BY <1>3, <1>4 DEF IInv, Rest

LEMMA StepApplied ==
  ASSUME IInv, Applied
  PROVE  IInv'
<1>1. {"program", "apply"} \in SUBSET (Calls \cup {"filing"}) /\ {"value"} \in SUBSET Places
      /\ Drives({"program", "apply"}, {"value"}) /\ Drives(Calls, {"value"})
      /\ UNCHANGED <<current, exiting>>
  BY DEF Applied, Drives, Calls, Places
<1>2. CASE answer = "ok" /\ TakePending(At("body"))
  BY <1>1, <1>2, TakesPending
<1>3. CASE answer = "err" /\ Fails /\ KeepRequest /\ UNCHANGED <<frames, shadow>>
  <2>1. Top.floor <= Len(frames) /\ frames \in Seq(FrameSet) /\ Len(frames) <= MaxFrames
        /\ Top.floor \in Nat /\ Len(frames) \in Nat
    BY <1>1, Going DEF IInv, Fits
  <2>2. current' \in Names
    BY <1>1 DEF IInv, Rest
  <2>3. QED
    BY <1>1, <1>3, <2>1, <2>2, CallFails
<1>4. QED
  BY <1>2, <1>3 DEF Applied

(* What the last value filed is left to the compiled body it came from.    *)
LEMMA StepAppliedLast ==
  ASSUME IInv, AppliedLast
  PROVE  IInv'
<1>1. {"filing"} \in SUBSET (Calls \cup {"filing"}) /\ {"value"} \in SUBSET Places
      /\ Drives({"filing"}, {"value"})
  BY DEF AppliedLast, Calls, Places
<1>2. /\ rust # <<>> /\ rust \in Seq(Entries) /\ Top \in CallSet /\ Top.kind = "filing"
      /\ HasFloor(Top) /\ ~IsCompiled(Top) /\ Top.floor <= Len(frames)
      /\ Top.floor \in Nat /\ Len(frames) \in Nat /\ frames \in Seq(FrameSet)
  BY <1>1, Going
<1>3. rust' = Front(rust) /\ frames' = frames /\ shadow' = shadow /\ KeepRequest
      /\ answer' \in {"ok", "err"} /\ UNCHANGED <<current, exiting>>
  BY DEF AppliedLast, Return, ExitGate
<1>4. Fits(rust', frames', shadow')
  BY <1>2, <1>3, ReturnFits DEF IInv, Fits
<1>5. rust' # <<>> /\ IsCompiled(Top') /\ Top'.left = 0
  <2>1. WellNested(rust)
    BY DEF IInv, Fits
  <2>2. Len(rust) > 1
    <3>1. Len(rust) \in Nat /\ Len(rust) >= 1 /\ Top = rust[Len(rust)]
      BY <1>2, FrontFacts DEF Top
    <3>2. rust[1].kind = "program"
      BY <1>2, <2>1 DEF WellNested
    <3>3. QED
      BY <1>2, <3>1, <3>2
  <2>3. Front(rust) # <<>> /\ Sits(Last(Front(rust)), Top)
    BY <1>2, <2>1, <2>2, PopNests DEF Top
  <2>4. QED
    BY <1>2, <1>3, <2>3 DEF Sits, Top
<1>6. Waits'
  BY <1>5 DEF Waits
<1>7. RequestInv'
  BY <1>3, <1>6 DEF IInv, RequestInv, MirrorTrue, KeepRequest
<1>8. QED
  BY <1>3, <1>4, <1>7 DEF IInv, Rest

LEMMA StepStarted ==
  ASSUME IInv, Started
  PROVE  IInv'
<1>1. Drives(Calls, {"body", "push"}) /\ rust' = At("loop") /\ answer' = None /\ KeepRequest
      /\ UNCHANGED <<frames, current, exiting, shadow>>
  BY DEF Started
<1>2. Calls \in SUBSET (Calls \cup {"filing"}) /\ {"body", "push"} \in SUBSET Places
      /\ "loop" \in Places
  BY DEF Places
<1>3. Fits(At("loop"), frames, shadow) /\ rust # <<>> /\ Top \in CallSet /\ ~Applier(Top)
  BY <1>1, <1>2, AtFits, Going DEF Applier
<1>4. RequestInv'
  BY <1>1, <1>3, NothingWaits, StillNoRequest DEF IInv
<1>5. QED
  BY <1>1, <1>3, <1>4 DEF IInv, Rest

LEMMA StepNotStarted ==
  ASSUME IInv, NotStarted
  PROVE  IInv'
<1>1. Calls \in SUBSET (Calls \cup {"filing"}) /\ {"body"} \in SUBSET Places
      /\ Drives(Calls, {"body"}) /\ answer = "err" /\ Fails /\ KeepRequest
      /\ UNCHANGED <<exiting, shadow>>
  BY DEF NotStarted, Places
<1>2. Top.floor <= Len(frames) /\ frames \in Seq(FrameSet) /\ Len(frames) <= MaxFrames
      /\ Top.floor \in Nat /\ Len(frames) \in Nat /\ Top \in CallSet /\ current \in Names
      /\ MaxFrames \in Nat
  BY <1>1, Going, FrameLoopAssumption DEF IInv, Fits, Rest
<1>3. frames' \in Seq(FrameSet) /\ Len(frames') <= MaxFrames /\ Len(frames') >= Top.floor
      /\ current' \in Names
  <2>1. CASE Top.kind \in {"program", "eval"} /\ UNCHANGED <<frames, current>>
    BY <1>2, <2>1
  <2>2. CASE Top.kind = "apply" /\ Unwind(Top.floor)
    BY <1>2, <2>2, UnwindFacts
  <2>3. CASE Top.kind = "scoped" /\ frames' = SubSeq(frames, 1, Top.floor) /\ current' = Top.back
    <3>1. current' \in Names
      BY <1>2, <2>3 DEF CallSet
    <3>2. QED
      BY <1>2, <2>3, <3>1, FirstFrames
  <2>4. QED
    BY <2>1, <2>2, <2>3 DEF NotStarted
<1>4. QED
  BY <1>1, <1>3, CallFails

(* What the list is after one value of its last frame.                     *)
LEMMA SteppedFrames ==
  ASSUME frames \in Seq(FrameSet), Len(frames) > 0, Last(frames).left > 0,
         frames' = [frames EXCEPT ![Len(frames)].left = @ - 1]
  PROVE  /\ frames' \in Seq(FrameSet) /\ Len(frames') = Len(frames)
         /\ \A i \in 1..(Len(frames) - 1) : frames'[i] = frames[i]
         /\ \A i \in 1..Len(frames) : frames'[i].exit = frames[i].exit
<1> DEFINE n == Len(frames)
           f == frames[n]
           g == [f EXCEPT !.left = @ - 1]
<1>1. n \in Nat /\ n >= 1 /\ f \in FrameSet /\ f.left > 0 /\ n \in 1..Len(frames)
  BY DEF Last
<1>2. g \in FrameSet
  <2>1. f.left \in Nat /\ f.left <= MaxBody /\ f.exit \in Names \cup {None} /\ MaxBody \in Nat
    BY <1>1, FrameLoopAssumption DEF FrameSet, Bodies
  <2>2. f.left - 1 \in Bodies
    BY <1>1, <2>1 DEF Bodies
  <2>3. f \in FrameSet
    BY <1>1
  <2> HIDE DEF f
  <2>4. [f EXCEPT !.left = f.left - 1] \in FrameSet
    BY <2>2, <2>3 DEF FrameSet
  <2>5. QED
    BY <2>4
<1>3. frames' = [frames EXCEPT ![n] = g] /\ f = frames[n]
  OBVIOUS
<1>4. g.exit = f.exit
  BY <1>1 DEF FrameSet
<1> HIDE DEF n, f, g
<1>5. QED
  BY <1>1, <1>2, <1>3, <1>4, ExceptSeq DEF n

LEMMA StepFrameStep ==
  ASSUME IInv, FrameStep
  PROVE  IInv'
<1>1. /\ Calls \in SUBSET (Calls \cup {"filing"}) /\ {"loop"} \in SUBSET Places
      /\ "step" \in Places
      /\ Drives(Calls, {"loop"}) /\ Len(frames) > Top.floor /\ Last(frames).left > 0
      /\ frames' = [frames EXCEPT ![Len(frames)].left = @ - 1]
      /\ ApplyStep(At("step")) /\ UNCHANGED shadow
  BY DEF FrameStep, Places
<1>2. rust # <<>> /\ Top \in CallSet /\ Top.kind \in Calls /\ Top.at = "loop"
      /\ Top.floor \in Nat /\ Len(frames) \in Nat /\ frames \in Seq(FrameSet)
  BY <1>1, Going
<1>3. pending = <<>>
  BY <1>2, NothingWaits DEF Applier
<1>4. frames' \in Seq(FrameSet) /\ Len(frames') = Len(frames)
  BY <1>1, <1>2, SteppedFrames
<1>5. /\ Fits(At("step"), frames, shadow) /\ At("step") # <<>>
      /\ ShadowIs(At("step"), Len(At("step")), shadow) /\ Applier(Last(At("step")))
  BY <1>1, <1>2, AtFits DEF Applier
<1>6. Fits(At("step"), frames', shadow)
  BY <1>2, <1>4, <1>5, FitsList DEF IInv, Fits
<1>7. Fits(rust', frames', shadow) /\ RequestInv' /\ Rest'
  BY <1>1, <1>3, <1>5, <1>6, ApplyStepFits DEF IInv
<1>8. QED
  BY <1>1, <1>7 DEF IInv

LEMMA StepFrameDone ==
  ASSUME IInv, FrameDone
  PROVE  IInv'
<1>1. /\ Calls \in SUBSET (Calls \cup {"filing"}) /\ {"loop"} \in SUBSET Places
      /\ Drives(Calls, {"loop"}) /\ Len(frames) > Top.floor
      /\ Unwind(Len(frames) - 1) /\ KeepRequest /\ UNCHANGED <<exiting, rust, answer, shadow>>
  BY DEF FrameDone, Places
<1>2. /\ rust # <<>> /\ Top \in CallSet /\ Top.at = "loop" /\ HasFloor(Top)
      /\ Top.floor \in Nat /\ Len(frames) \in Nat /\ frames \in Seq(FrameSet)
      /\ ShadowIs(rust, Len(rust), shadow) /\ Len(frames) <= MaxFrames /\ current \in Names
  BY <1>1, Going DEF IInv, Fits, Rest
<1>3. Len(frames) - 1 \in Nat /\ Len(frames) - 1 >= Top.floor
  BY <1>1, <1>2
<1>4. frames' \in Seq(FrameSet) /\ Len(frames') = Len(frames) - 1 /\ current' \in Names
  BY <1>1, <1>2, <1>3, UnwindFacts
<1>5. Len(frames') <= MaxFrames /\ Len(frames') >= Top.floor
  BY <1>2, <1>3, <1>4, FrameLoopAssumption
<1>6. Fits(rust, frames', shadow)
  BY <1>2, <1>4, <1>5, FitsList DEF IInv, Top
<1>7. RequestInv'
  BY <1>1, <1>2, NothingWaits, StillNoRequest DEF IInv, Applier
<1>8. QED
  BY <1>1, <1>4, <1>6, <1>7 DEF IInv, Rest

LEMMA StepStepped ==
  ASSUME IInv, Stepped
  PROVE  IInv'
<1>1. {"step"} \in SUBSET Places /\ Drives(Calls, {"step"}) /\ TakePending(At("push"))
      /\ UNCHANGED <<current, exiting>>
  BY DEF Stepped, Places
<1>2. QED
  BY <1>1, TakesPending

LEMMA StepStepFailed ==
  ASSUME IInv, StepFailed
  PROVE  IInv'
<1>1. Calls \in SUBSET (Calls \cup {"filing"}) /\ {"step", "push"} \in SUBSET Places
      /\ Drives(Calls, {"step", "push"}) /\ answer = "err" /\ Unwind(Top.floor) /\ Fails
      /\ KeepRequest /\ UNCHANGED <<exiting, shadow>>
  BY DEF StepFailed, Places
<1>2. Top.floor <= Len(frames) /\ frames \in Seq(FrameSet) /\ Len(frames) <= MaxFrames
      /\ Top.floor \in Nat /\ Len(frames) \in Nat /\ current \in Names /\ MaxFrames \in Nat
  BY <1>1, Going, FrameLoopAssumption DEF IInv, Fits, Rest
<1>3. frames' \in Seq(FrameSet) /\ Len(frames') = Top.floor /\ current' \in Names
  BY <1>1, <1>2, UnwindFacts
<1>4. Len(frames') <= MaxFrames /\ Len(frames') >= Top.floor
  BY <1>2, <1>3
<1>5. QED
  BY <1>1, <1>3, <1>4, CallFails

LEMMA StepLoopEnds ==
  ASSUME IInv, LoopEnds
  PROVE  IInv'
<1>1. /\ Calls \in SUBSET (Calls \cup {"filing"}) /\ {"loop"} \in SUBSET Places
      /\ "next" \in Places /\ Drives(Calls, {"loop"}) /\ KeepRequest
      /\ UNCHANGED <<frames, current, exiting, shadow>>
  BY DEF LoopEnds, Places
<1>2. /\ rust # <<>> /\ Top \in CallSet /\ Top.at = "loop" /\ HasFloor(Top) /\ ~IsCompiled(Top)
      /\ Top.floor \in Nat /\ Len(frames) \in Nat /\ frames \in Seq(FrameSet)
      /\ Top.floor <= Len(frames) /\ Len(frames) <= MaxFrames
  BY <1>1, Going DEF IInv, Fits
<1>3. RequestInv'
  BY <1>1, <1>2, NothingWaits, StillNoRequest DEF IInv, Applier
<1>4. CASE rust' = At("next") /\ answer' = None
  BY <1>1, <1>3, <1>4, AtFits DEF IInv, Rest
<1>5. CASE Return(ExitGate)
  <2>1. Fits(rust', frames', shadow')
    BY <1>1, <1>2, <1>5, ReturnFits DEF Return
  <2>2. QED
    BY <1>1, <1>3, <1>5, <2>1 DEF IInv, Rest, Return, ExitGate
<1>6. QED
  BY <1>4, <1>5 DEF LoopEnds

-----------------------------------------------------------------------------
(* Natives.                                                                *)

LEMMA NativeFacts ==
  ASSUME IInv, Runs("native")
  PROVE  /\ rust # <<>> /\ rust \in Seq(Entries) /\ Top \in Natives /\ Top \in Entries
         /\ ~HasFloor(Top) /\ ~IsCompiled(Top) /\ ShadowIs(rust, Len(rust), shadow)
         /\ Len(frames) \in Nat /\ frames \in Seq(FrameSet) /\ Len(frames) <= MaxFrames
         /\ Works => pending = <<>>
<1>1. /\ rust # <<>> /\ Top.kind = "native" /\ rust \in Seq(Entries)
      /\ frames \in Seq(FrameSet) /\ Len(frames) <= MaxFrames
      /\ ShadowIs(rust, Len(rust), shadow) \/ Silent(rust, frames, shadow)
  BY DEF IInv, Fits, WellNested, Runs
<1>2. Top \in Entries
  BY <1>1, FrontFacts DEF Top
<1>3. Top \in Natives /\ ~HasFloor(Top) /\ ~IsCompiled(Top)
  BY <1>1, <1>2, EntryKinds DEF HasFloor, IsCompiled
<1>4. ASSUME Works PROVE pending = <<>>
  <2>1. Top # Native(TRUE) /\ ~Applier(Top)
    BY <1>1, <1>4 DEF Works, Native, Applier, Calls
  <2>2. QED
    BY <1>3, <2>1 DEF IInv, RequestInv, Waits
<1>5. QED
  BY <1>1, <1>2, <1>3, <1>4 DEF Silent, Top

LEMMA StepFiles ==
  ASSUME IInv, Files
  PROVE  IInv'
<1>1. /\ Runs("native") /\ rust' = Append(Front(rust), Native(TRUE)) /\ answer' = None
      /\ UNCHANGED <<frames, current, exiting, shadow>>
  BY DEF Files, Works
<1>2. /\ Native(TRUE) \in Entries /\ Native(TRUE).kind = Top.kind
      /\ ~HasFloor(Native(TRUE)) /\ ~IsCompiled(Native(TRUE))
  BY <1>1 DEF Entries, Natives, Native, Runs, HasFloor, IsCompiled
<1>3. Fits(rust', frames, shadow) /\ rust' # <<>> /\ Top' = Native(TRUE)
  BY <1>1, <1>2, NativeFacts, FitsReplace DEF IInv, Top
<1>4. PICK n \in Bodies : pending' = <<n>> /\ requested' = TRUE
  BY DEF Files, Request
<1>5. RequestInv'
  <2>1. Waits'
    BY <1>3 DEF Waits
  <2>2. QED
    BY <1>4, <2>1, OneRequest
<1>6. QED
  BY <1>1, <1>3, <1>5 DEF IInv, Rest

(* A native that stays as it is.                                           *)
LEMMA StepNativeStays ==
  ASSUME IInv, Switches \/ RequestsExit \/ CallRefused
  PROVE  IInv'
<1>1. /\ Runs("native") /\ Works /\ KeepRequest /\ UNCHANGED <<frames, rust, shadow>>
      /\ current' \in Names /\ exiting' \in BOOLEAN /\ answer' \in {None, "ok", "err"}
  BY DEF Switches, RequestsExit, CallRefused, Works, IInv, Rest
<1>2. RequestInv'
  BY <1>1, NativeFacts, StillNoRequest DEF IInv
<1>3. QED
  BY <1>1, <1>2 DEF IInv, Rest

(* A call that begins, on a native or on a compiled body.                  *)
LEMMA CallBegins ==
  ASSUME NEW c, NEW list, NEW s, Fits(c, list, s), ShadowIs(c, Len(c), s), c # <<>>,
         NEW kind, NEW at \in Places, NEW back,
         \/ kind \in {"eval", "apply"} /\ back = None /\ Last(c).kind = "native"
         \/ kind = "scoped" /\ back \in Names /\ Last(c).kind = "native"
         \/ kind = "apply" /\ back = None /\ IsCompiled(Last(c))
         \/ kind = "filing" /\ back = None /\ IsCompiled(Last(c)) /\ Last(c).left = 0
  PROVE  LET x == Call(kind, at, Len(list), back)
             d == Append(c, x)
         IN  Fits(d, list, s) /\ ShadowIs(d, Len(d), s) /\ d # <<>> /\ Last(d) = x
<1> DEFINE x == Call(kind, at, Len(list), back)
<1>1. Len(list) \in Nat
  BY DEF Fits
<1>2. x \in CallSet /\ x.kind = kind /\ x.floor = Len(list)
  BY <1>1 DEF CallSet, Call
<1>3. x \in Entries /\ ~IsCompiled(x)
  BY <1>2 DEF Entries, IsCompiled
<1>4. Sits(Last(c), x)
  BY <1>2 DEF Sits, IsCompiled
<1> HIDE DEF x
<1>5. QED
  BY <1>2, <1>3, <1>4, FitsPush DEF x

LEMMA StepEvalLambda ==
  ASSUME IInv, EvalLambda
  PROVE  IInv'
<1> DEFINE x == Call("eval", "body", Len(frames), None)
           c == Append(rust, x)
<1>1. Runs("native") /\ Works /\ KeepRequest /\ UNCHANGED <<current, exiting>>
  BY DEF EvalLambda, Works
<1>2. PICK n \in Bodies : PushFrame(c, frames, shadow, n, None)
  BY DEF EvalLambda
<1>3. "body" \in Places /\ Top.kind = "native" /\ x.kind = "eval" /\ x.at = "body"
  BY <1>1 DEF Places, Runs, Call
<1>4. Fits(c, frames, shadow) /\ ShadowIs(c, Len(c), shadow) /\ c # <<>> /\ Last(c) = x
  BY <1>1, <1>3, NativeFacts, CallBegins DEF IInv, Top
<1>5. Last(c).kind \in Calls /\ Last(c).at \in {"body", "push"}
  BY <1>3, <1>4 DEF Calls
<1> HIDE DEF c, x
<1>6. Fits(rust', frames', shadow') /\ answer' \in {None, "ok", "err"}
  BY <1>2, <1>4, <1>5, PushFrameFits
<1>7. RequestInv'
  BY <1>1, NativeFacts, StillNoRequest DEF IInv
<1>8. QED
  BY <1>1, <1>6, <1>7 DEF IInv, Rest

LEMMA StepScopedCall ==
  ASSUME IInv, ScopedCall
  PROVE  IInv'
<1> DEFINE x == Call("scoped", "body", Len(frames), current)
           c == Append(rust, x)
<1>1. Runs("native") /\ Works /\ KeepRequest /\ UNCHANGED exiting /\ current' \in Names
      /\ current \in Names
  BY DEF ScopedCall, Works, IInv, Rest
<1>2. PICK n \in Bodies : PushFrame(c, frames, shadow, n, current)
  BY DEF ScopedCall
<1>3. "body" \in Places /\ Top.kind = "native" /\ x.kind = "scoped" /\ x.at = "body"
  BY <1>1 DEF Places, Runs, Call
<1>4. Fits(c, frames, shadow) /\ ShadowIs(c, Len(c), shadow) /\ c # <<>> /\ Last(c) = x
  BY <1>1, <1>3, NativeFacts, CallBegins DEF IInv, Top
<1>5. Last(c).kind \in Calls /\ Last(c).at \in {"body", "push"}
  BY <1>3, <1>4 DEF Calls
<1> HIDE DEF c, x
<1>6. Fits(rust', frames', shadow') /\ answer' \in {None, "ok", "err"}
  BY <1>1, <1>2, <1>4, <1>5, PushFrameFits
<1>7. RequestInv'
  BY <1>1, NativeFacts, StillNoRequest DEF IInv
<1>8. QED
  BY <1>1, <1>6, <1>7 DEF IInv, Rest

LEMMA StepApply ==
  ASSUME IInv, Apply
  PROVE  IInv'
<1> DEFINE x == Call("apply", "value", Len(frames), None)
           c == Append(rust, x)
<1>1. Runs("native") /\ Works /\ ApplyStep(c) /\ UNCHANGED <<frames, shadow>>
  BY DEF Apply, Works
<1>2. "value" \in Places /\ Top.kind = "native" /\ x.kind = "apply" /\ x.at = "value"
  BY <1>1 DEF Places, Runs, Call
<1>3. Fits(c, frames, shadow) /\ ShadowIs(c, Len(c), shadow) /\ c # <<>> /\ Last(c) = x
  BY <1>1, <1>2, NativeFacts, CallBegins DEF IInv, Top
<1>4. Applier(Last(c)) /\ pending = <<>>
  BY <1>1, <1>2, <1>3, NativeFacts DEF Applier
<1> HIDE DEF c, x
<1>5. Fits(rust', frames, shadow) /\ RequestInv' /\ Rest'
  BY <1>1, <1>3, <1>4, ApplyStepFits DEF IInv
<1>6. QED
  BY <1>1, <1>5 DEF IInv

(* A native that returns: what it filed waits where it was applied.        *)
LEMMA StepReturns ==
  ASSUME IInv, Returns
  PROVE  IInv'
<1>1. /\ Runs("native") /\ rust' = Front(rust) /\ answer' = "ok" /\ KeepRequest
      /\ UNCHANGED <<frames, current, exiting, shadow>>
  BY DEF Returns, Return
<1>2. Fits(rust', frames', shadow')
  BY <1>1, NativeFacts, ReturnFits
<1>3. rust' # <<>> /\ Applier(Top')
  <2>1. WellNested(rust) /\ rust # <<>> /\ rust \in Seq(Entries) /\ Top.kind = "native"
    BY <1>1, NativeFacts DEF IInv, Fits, Runs
  <2>2. Len(rust) > 1
    <3>1. Len(rust) \in Nat /\ Len(rust) >= 1 /\ Top = rust[Len(rust)]
      BY <2>1, FrontFacts DEF Top
    <3>2. rust[1].kind = "program"
      BY <2>1 DEF WellNested
    <3>3. QED
      BY <2>1, <3>1, <3>2
  <2>3. Front(rust) # <<>> /\ Sits(Last(Front(rust)), Top)
    BY <2>1, <2>2, PopNests DEF Top
  <2>4. QED
    BY <1>1, <2>1, <2>3 DEF Sits, Top
<1>4. Waits'
  BY <1>1, <1>3 DEF Waits
<1>5. RequestInv'
  BY <1>1, <1>4 DEF IInv, RequestInv, MirrorTrue, KeepRequest
<1>6. QED
  BY <1>1, <1>2, <1>5 DEF IInv, Rest

LEMMA StepNativeFails ==
  ASSUME IInv, NativeFails
  PROVE  IInv'
<1>1. /\ Runs("native") /\ rust' = Front(rust) /\ answer' = "err" /\ ClearRequest
      /\ UNCHANGED <<frames, current, exiting, shadow>>
  BY DEF NativeFails, Return
<1>2. Fits(rust', frames', shadow')
  BY <1>1, NativeFacts, ReturnFits
<1>3. QED
  BY <1>1, <1>2, NoRequest DEF IInv, Rest, ClearRequest

-----------------------------------------------------------------------------
(* Compiled bodies.                                                        *)

LEMMA CompiledFacts ==
  ASSUME IInv, Runs("compiled")
  PROVE  /\ rust # <<>> /\ rust \in Seq(Entries) /\ Top \in CompiledSet /\ Top \in Entries
         /\ HasFloor(Top) /\ IsCompiled(Top) /\ Top.kind = "compiled"
         /\ Top.floor \in Nat /\ Top.floor < MaxFrames /\ Top.floor <= Len(frames)
         /\ Len(frames) \in Nat /\ frames \in Seq(FrameSet) /\ Len(frames) <= MaxFrames
         /\ \/ shadow = Top.floor + 1
            \/ shadow = 0 /\ Len(frames) = Top.floor
         /\ Top.left > 0 => pending = <<>>
<1>1. /\ rust # <<>> /\ Top.kind = "compiled" /\ rust \in Seq(Entries) /\ WellNested(rust)
      /\ frames \in Seq(FrameSet) /\ Len(frames) <= MaxFrames /\ Below(rust, Len(frames))
      /\ ShadowIs(rust, Len(rust), shadow) \/ Silent(rust, frames, shadow)
  BY DEF IInv, Fits, WellNested, Runs
<1>2. Top \in Entries /\ Top = rust[Len(rust)] /\ Len(rust) \in Nat /\ Len(rust) >= 1
  BY <1>1, FrontFacts DEF Top
<1>3. Top \in CompiledSet /\ HasFloor(Top) /\ IsCompiled(Top) /\ Top.floor \in Nat
  BY <1>1, <1>2, EntryKinds DEF HasFloor, IsCompiled
<1>4. Top.floor < MaxFrames /\ Top.floor <= Len(frames)
  BY <1>1, <1>2, <1>3 DEF WellNested, Below
<1>5. ShadowIs(rust, Len(rust), shadow) => shadow = Top.floor + 1
  BY <1>2, <1>3 DEF ShadowIs
<1>6. Silent(rust, frames, shadow) => shadow = 0 /\ Len(frames) = Top.floor
  BY DEF Silent, Top
<1>7. ASSUME Top.left > 0 PROVE pending = <<>>
  <2>1. Top # Native(TRUE) /\ ~Applier(Top) /\ Top.left # 0
    BY <1>1, <1>3, <1>7, FrameLoopAssumption DEF Native, Applier, Calls, CompiledSet, Bodies
  <2>2. QED
    BY <2>1 DEF IInv, RequestInv, Waits
<1>8. QED
  BY <1>1, <1>2, <1>3, <1>4, <1>5, <1>6, <1>7

(* The body's own state changes, and nothing else of it.                   *)
LEMMA CompiledEntry ==
  ASSUME NEW x \in CompiledSet, NEW left \in Bodies, NEW tail \in BOOLEAN
  PROVE  LET y == [[x EXCEPT !.left = left] EXCEPT !.tail = tail]
         IN  /\ y \in Entries /\ y.kind = x.kind /\ y.floor = x.floor /\ y.outer = x.outer
             /\ y.left = left /\ IsCompiled(y) /\ HasFloor(y)
  BY DEF CompiledSet, Entries, IsCompiled, HasFloor

LEMMA OneLess ==
  ASSUME NEW x \in CompiledSet, x.left > 0
  PROVE  LET y == [x EXCEPT !.left = @ - 1]
         IN  /\ y \in Entries /\ y.kind = x.kind /\ y.floor = x.floor /\ y.outer = x.outer
             /\ y.left = x.left - 1 /\ IsCompiled(y) /\ HasFloor(y)
             /\ x.left - 1 \in Bodies
  BY FrameLoopAssumption DEF CompiledSet, Bodies, Entries, IsCompiled, HasFloor

LEMMA StepInlined ==
  ASSUME IInv, Inlined
  PROVE  IInv'
<1>1. /\ Runs("compiled") /\ Top.left > 0 /\ KeepRequest
      /\ rust' = Append(Front(rust), [Top EXCEPT !.left = @ - 1])
      /\ UNCHANGED <<frames, current, exiting, answer, shadow>>
  BY DEF Inlined
<1>2. Fits(rust', frames, shadow)
  BY <1>1, CompiledFacts, OneLess, FitsReplace DEF IInv, Top
<1>3. RequestInv'
  BY <1>1, CompiledFacts, StillNoRequest DEF IInv
<1>4. QED
  BY <1>1, <1>2, <1>3 DEF IInv, Rest

LEMMA StepResidual ==
  ASSUME IInv, Residual
  PROVE  IInv'
<1> DEFINE x == [Top EXCEPT !.tail = FALSE]
<1>1. /\ Runs("compiled") /\ KeepRequest /\ answer = None
      /\ rust' = Append(Front(rust), x)
      /\ UNCHANGED <<frames, current, exiting, answer, shadow>>
  BY DEF Residual
<1>2. /\ x \in Entries /\ x.kind = Top.kind /\ x.floor = Top.floor /\ x.outer = Top.outer
      /\ x.left = Top.left /\ IsCompiled(x) /\ HasFloor(x)
  BY <1>1, CompiledFacts DEF CompiledSet, Entries, IsCompiled, HasFloor
<1> HIDE DEF x
<1>3. Fits(rust', frames, shadow) /\ rust' # <<>> /\ Top' = x
  BY <1>1, <1>2, CompiledFacts, FitsReplace DEF IInv, Top
<1>4. ASSUME pending # <<>> PROVE Waits'
  <2>1. Top.left = 0
    BY <1>1, <1>4, CompiledFacts, FrameLoopAssumption DEF CompiledSet, Bodies
  <2>2. QED
    BY <1>2, <1>3, <2>1 DEF Waits
<1>5. RequestInv'
  BY <1>1, <1>4 DEF IInv, RequestInv, MirrorTrue, KeepRequest
<1>6. QED
  BY <1>1, <1>3, <1>5 DEF IInv, Rest

(* The list changes above the floor of the innermost body, which gets a    *)

(* frame.                                                                  *)
LEMMA FitsFramed ==
  ASSUME IInv, Runs("compiled"), NEW list \in Seq(FrameSet), Len(list) <= MaxFrames,
         Len(list) >= Len(frames)
  PROVE  /\ Fits(rust, list, Top.floor + 1)
         /\ ShadowIs(rust, Len(rust), Top.floor + 1)
<1>1. /\ rust # <<>> /\ rust \in Seq(Entries) /\ WellNested(rust) /\ Below(rust, Len(frames))
      /\ IsCompiled(Top) /\ Len(frames) \in Nat
  BY CompiledFacts DEF IInv, Fits
<1>2. Len(rust) \in Nat /\ Len(rust) >= 1 /\ Top = rust[Len(rust)]
  BY <1>1, FrontFacts DEF Top
<1>3. Below(rust, Len(list))
  <2>1. \A i \in DOMAIN rust : HasFloor(rust[i]) => rust[i].floor \in Nat
    BY <1>1, EntryKinds
  <2>2. Len(list) \in Nat
    OBVIOUS
  <2>3. QED
    BY <1>1, <2>1, <2>2 DEF Below
<1>4. ShadowIs(rust, Len(rust), Top.floor + 1)
  <2>1. Len(rust) \in 1..Len(rust) /\ \A k \in (Len(rust) + 1)..Len(rust) : FALSE
    BY <1>2
  <2>2. QED
    BY <1>1, <1>2, <2>1 DEF ShadowIs
<1>5. QED
  BY <1>1, <1>3, <1>4 DEF Fits

(* The body has its frame, above its floor, before it calls out.           *)
LEMMA Framed ==
  ASSUME IInv, Runs("compiled"), Top.left > 0,
         shadow' = (IF shadow = 0 THEN Len(frames) + 1 ELSE shadow),
         frames' = (IF shadow = 0 THEN Append(frames, Frame(Top.left - 1, None))
                    ELSE [frames EXCEPT ![shadow].left = Top.left - 1])
  PROVE  /\ frames' \in Seq(FrameSet) /\ Len(frames') <= MaxFrames /\ Len(frames') >= Len(frames)
         /\ \A i \in 1..Top.floor : frames'[i] = frames[i]
         /\ shadow' = Top.floor + 1
<1>1. Top.left - 1 \in Bodies
  BY CompiledFacts, OneLess
<1>2. CASE shadow = 0
  <2>1. Frame(Top.left - 1, None) \in FrameSet
    BY <1>1 DEF Frame, FrameSet
  <2>2. /\ frames' \in Seq(FrameSet) /\ Len(frames') = Len(frames) + 1
        /\ \A i \in 1..Len(frames) : frames'[i] = frames[i]
    BY <1>2, <2>1, CompiledFacts, AppendFacts
  <2>3. Len(frames) = Top.floor /\ shadow' = Top.floor + 1 /\ Top.floor < MaxFrames
        /\ Top.floor \in Nat /\ MaxFrames \in Nat
    BY <1>2, CompiledFacts, FrameLoopAssumption
  <2>4. QED
    BY <2>2, <2>3
<1>3. CASE shadow # 0
  <2>1. shadow = Top.floor + 1 /\ shadow' = shadow /\ Top.floor \in Nat /\ Len(frames) \in Nat
        /\ frames \in Seq(FrameSet) /\ Len(frames) <= MaxFrames /\ Top.floor <= Len(frames)
    BY <1>3, CompiledFacts
  <2>2. frames' = [frames EXCEPT ![shadow].left = Top.left - 1]
    BY <1>3
  <2>3. CASE shadow \in 1..Len(frames)
    <3> DEFINE g == [frames[shadow] EXCEPT !.left = Top.left - 1]
    <3>1. frames[shadow] \in FrameSet
      BY <2>1, <2>3
    <3>2. g \in FrameSet
      BY <1>1, <3>1 DEF FrameSet
    <3>3. frames' = [frames EXCEPT ![shadow] = g]
      BY <2>2
    <3> HIDE DEF g
    <3>4. frames' \in Seq(FrameSet) /\ Len(frames') = Len(frames)
          /\ \A i \in 1..Len(frames) : i # shadow => frames'[i] = frames[i]
      BY <2>1, <2>3, <3>2, <3>3, ExceptSeq
    <3>5. QED
      BY <2>1, <3>4
  <2>4. CASE shadow \notin 1..Len(frames)
    <3>1. frames' = frames
      BY <2>1, <2>2, <2>4
    <3>2. \A i \in 1..Top.floor : frames'[i] = frames[i]
      BY <3>1
    <3>3. Len(frames') = Len(frames) /\ frames' \in Seq(FrameSet)
      BY <2>1, <3>1
    <3>4. QED
      BY <2>1, <3>2, <3>3
  <2>5. QED
    BY <2>3, <2>4
<1>4. QED
  BY <1>2, <1>3

LEMMA StepApplies ==
  ASSUME IInv, Applies
  PROVE  IInv'
<1> DEFINE x == [Top EXCEPT !.left = @ - 1]
           calls == Append(Front(rust), x)
           kind == IF LastValue THEN "filing" ELSE "apply"
           y == Call(kind, "value", Len(frames'), None)
<1>1. /\ Runs("compiled") /\ Top.left > 0
      /\ shadow' = (IF shadow = 0 THEN Len(frames) + 1 ELSE shadow)
      /\ frames' = (IF shadow = 0 THEN Append(frames, Frame(Top.left - 1, None))
                    ELSE [frames EXCEPT ![shadow].left = Top.left - 1])
      /\ \/ ApplyStep(Append(calls, y))
         \/ rust' = calls /\ answer' = "err" /\ KeepRequest /\ UNCHANGED <<current, exiting>>
  BY DEF Applies
<1>2. /\ frames' \in Seq(FrameSet) /\ Len(frames') <= MaxFrames /\ Len(frames') >= Len(frames)
      /\ shadow' = Top.floor + 1
  BY <1>1, Framed
<1>3. Fits(rust, frames', shadow') /\ ShadowIs(rust, Len(rust), shadow')
  BY <1>1, <1>2, FitsFramed
<1>4. /\ x \in Entries /\ x.kind = Top.kind /\ x.floor = Top.floor /\ x.outer = Top.outer
      /\ x.left = Top.left - 1 /\ IsCompiled(x) /\ HasFloor(x)
      /\ rust # <<>> /\ pending = <<>> /\ Top.left \in Nat
  BY <1>1, CompiledFacts, OneLess DEF CompiledSet, Bodies
<1> HIDE DEF x
<1>5. /\ Fits(calls, frames', shadow') /\ calls # <<>> /\ Last(calls) = x
      /\ ShadowIs(calls, Len(calls), shadow')
  BY <1>3, <1>4, FitsReplace DEF Top
<1> HIDE DEF calls
<1>6. CASE rust' = calls /\ answer' = "err" /\ KeepRequest /\ UNCHANGED <<current, exiting>>
  <2>1. RequestInv'
    BY <1>4, <1>6, StillNoRequest DEF IInv
  <2>2. QED
    BY <1>5, <1>6, <2>1 DEF IInv, Rest
<1>7. CASE ApplyStep(Append(calls, y))
  <2>1. \/ kind = "apply"
        \/ kind = "filing" /\ x.left = 0
    BY <1>4 DEF LastValue
  <2>2. "value" \in Places
    BY DEF Places
  <2> HIDE DEF kind
  <2>3. /\ Fits(Append(calls, y), frames', shadow') /\ Append(calls, y) # <<>>
        /\ ShadowIs(Append(calls, y), Len(Append(calls, y)), shadow')
        /\ Last(Append(calls, y)) = y
    BY <1>4, <1>5, <2>1, <2>2, CallBegins
  <2>4. Applier(Last(Append(calls, y)))
    BY <2>1, <2>3 DEF Applier, Call
  <2> HIDE DEF y
  <2>5. Fits(rust', frames', shadow') /\ RequestInv' /\ Rest'
    BY <1>4, <1>7, <2>3, <2>4, ApplyStepFits DEF IInv
  <2>6. QED
    BY <2>5 DEF IInv
<1>8. QED
  BY <1>1, <1>6, <1>7

LEMMA StepGoesOn ==
  ASSUME IInv, GoesOn
  PROVE  IInv'
<1>1. /\ Runs("compiled") /\ answer = "ok" /\ answer' = None
      /\ KeepRequest /\ UNCHANGED <<frames, current, exiting, rust, shadow>>
  BY DEF GoesOn
<1>2. Fits(rust', frames', shadow')
  BY <1>1 DEF IInv
<1>3. Top' = Top /\ rust # <<>> /\ Top.kind = "compiled"
  BY <1>1, CompiledFacts DEF Top
<1>4. ASSUME pending # <<>> PROVE Waits'
  <2>1. Top # Native(TRUE) /\ ~Applier(Top)
    BY <1>3 DEF Native, Applier, Calls
  <2>2. IsCompiled(Top) /\ Top.left = 0
    BY <1>4, <2>1 DEF IInv, RequestInv, Waits
  <2>3. QED
    BY <1>1, <1>3, <2>2 DEF Waits
<1>5. RequestInv'
  BY <1>1, <1>4 DEF IInv, RequestInv, MirrorTrue, KeepRequest
<1>6. QED
  BY <1>1, <1>2, <1>5 DEF IInv, Rest

(* Without its shadow the list is what the body found.                     *)
LEMMA Unshadowed ==
  ASSUME IInv, Runs("compiled")
  PROVE  /\ WithoutShadow \in Seq(FrameSet) /\ Len(WithoutShadow) = Top.floor
         /\ \A i \in 1..Top.floor : WithoutShadow[i] = frames[i]
<1>1. /\ frames \in Seq(FrameSet) /\ Top.floor \in Nat /\ Top.floor <= Len(frames)
      /\ shadow = Top.floor + 1 \/ (shadow = 0 /\ Len(frames) = Top.floor)
  BY CompiledFacts
<1>2. CASE shadow = 0
  BY <1>1, <1>2 DEF WithoutShadow
<1>3. CASE shadow # 0
  <2>1. WithoutShadow = SubSeq(frames, 1, Top.floor)
    BY <1>3 DEF WithoutShadow
  <2>2. QED
    BY <1>1, <2>1, FirstFrames
<1>4. QED
  BY <1>2, <1>3

LEMMA StepCompiledFails ==
  ASSUME IInv, CompiledFails
  PROVE  IInv'
<1>1. /\ Runs("compiled") /\ ClearRequest /\ rust' = Front(rust) /\ answer' = "err"
      /\ frames' = WithoutShadow /\ shadow' = Top.outer /\ UNCHANGED <<current, exiting>>
  BY DEF CompiledFails, Return
<1>2. /\ rust # <<>> /\ HasFloor(Top) /\ IsCompiled(Top) /\ Top.floor \in Nat
      /\ Top.floor < MaxFrames /\ MaxFrames \in Nat
  BY <1>1, CompiledFacts, FrameLoopAssumption
<1>3. frames' \in Seq(FrameSet) /\ Len(frames') = Top.floor
  BY <1>1, Unshadowed
<1>4. Fits(rust', frames', shadow')
  BY <1>1, <1>2, <1>3, ReturnFits
<1>5. RequestInv'
  BY <1>1, NoRequest DEF ClearRequest
<1>6. QED
  BY <1>1, <1>4, <1>5 DEF IInv, Rest

(* A body that falls off its end starts what its last value filed, for the *)

(* call that started it.                                                   *)
LEMMA StepCompiledEnds ==
  ASSUME IInv, CompiledEnds
  PROVE  IInv'
<1>1. Runs("compiled") /\ UNCHANGED <<current, exiting>>
  BY DEF CompiledEnds
<1>2. /\ rust # <<>> /\ rust \in Seq(Entries) /\ HasFloor(Top) /\ IsCompiled(Top)
      /\ Top.floor \in Nat /\ Top.floor < MaxFrames /\ Top.floor <= Len(frames)
      /\ frames \in Seq(FrameSet) /\ Len(frames) <= MaxFrames /\ MaxFrames \in Nat
      /\ WellNested(rust)
  BY <1>1, CompiledFacts, FrameLoopAssumption DEF IInv, Fits
<1>3. CASE /\ pending # <<>> /\ ClearRequest
           /\ PushFrame(Front(rust), frames, Top.outer, Head(pending), None)
  <2>1. Fits(Front(rust), frames, Top.outer) /\ ShadowIs(Front(rust), Len(Front(rust)), Top.outer)
    BY <1>2, FitsPop DEF IInv, Top
  <2>2. Len(rust) > 1
    <3>1. Len(rust) \in Nat /\ Len(rust) >= 1 /\ Top = rust[Len(rust)]
      BY <1>2, FrontFacts DEF Top
    <3>2. rust[1].kind = "program" /\ Top.kind = "compiled"
      BY <1>2 DEF WellNested, IsCompiled
    <3>3. QED
      BY <3>1, <3>2
  <2>3. Front(rust) # <<>> /\ Sits(Last(Front(rust)), Top)
    BY <1>2, <2>2, PopNests DEF Top
  <2>4. Last(Front(rust)).kind \in Calls /\ Last(Front(rust)).at \in {"body", "push"}
    BY <1>2, <2>3 DEF Sits
  <2>5. Head(pending) \in Bodies /\ None \in Names \cup {None}
    BY <1>3 DEF IInv, RequestInv
  <2>6. Fits(rust', frames', shadow') /\ answer' \in {None, "ok", "err"}
    BY <1>3, <2>1, <2>3, <2>4, <2>5, PushFrameFits
  <2>7. RequestInv'
    BY <1>3, NoRequest DEF ClearRequest
  <2>8. QED
    BY <1>1, <2>6, <2>7 DEF IInv, Rest
<1>4. CASE /\ pending = <<>> /\ Return("ok") /\ KeepRequest
           /\ frames' = WithoutShadow /\ shadow' = Top.outer
  <2>1. frames' \in Seq(FrameSet) /\ Len(frames') = Top.floor
    BY <1>1, <1>4, Unshadowed
  <2>2. Fits(rust', frames', shadow')
    BY <1>2, <1>4, <2>1, ReturnFits DEF Return
  <2>3. RequestInv'
    BY <1>4, StillNoRequest DEF IInv
  <2>4. QED
    BY <1>1, <1>4, <2>2, <2>3 DEF IInv, Rest, Return
<1>5. QED
  BY <1>3, <1>4 DEF CompiledEnds

-----------------------------------------------------------------------------
(* The invariant holds throughout.                                         *)

LEMMA Initially ==
  ASSUME Init
  PROVE  IInv
<1>1. /\ frames = <<>> /\ pending = <<>> /\ requested = FALSE /\ current \in Names
      /\ exiting = FALSE /\ rust = <<Program>> /\ answer = None /\ shadow = 0
  BY DEF Init
<1>2. /\ Program \in Entries /\ Program.kind = "program" /\ Program.floor = 0
      /\ ~IsCompiled(Program)
  BY DEF Program, Call, Entries, CallSet, Places, IsCompiled
<1>3. /\ rust \in Seq(Entries) /\ rust # <<>> /\ Len(rust) = 1 /\ DOMAIN rust = {1}
      /\ rust[1] = Program
  BY <1>1, <1>2
<1>4. WellNested(rust)
  BY <1>2, <1>3 DEF WellNested
<1>5. frames \in Seq(FrameSet) /\ Len(frames) = 0
  BY <1>1
<1>6. Below(rust, 0) /\ ShadowIs(rust, Len(rust), shadow)
  BY <1>1, <1>2, <1>3 DEF Below, ShadowIs
<1>7. Fits(rust, frames, shadow)
  BY <1>4, <1>5, <1>6, FrameLoopAssumption DEF Fits
<1>8. pending \in Seq(Bodies) /\ Len(pending) <= 1
  BY <1>1
<1>9. MirrorTrue /\ (pending # <<>> => Waits)
  BY <1>1 DEF MirrorTrue
<1>10. QED
  BY <1>1, <1>7, <1>8, <1>9 DEF IInv, RequestInv, Rest

LEMMA StutterKeeps ==
  ASSUME IInv, UNCHANGED vars
  PROVE  IInv'
<1>1. /\ frames' = frames /\ pending' = pending /\ requested' = requested
      /\ current' = current /\ exiting' = exiting /\ rust' = rust /\ answer' = answer
      /\ shadow' = shadow
  BY DEF vars
<1>2. Top' = Top
  BY <1>1 DEF Top
<1>3. Waits => Waits'
  BY <1>1, <1>2 DEF Waits
<1>4. RequestInv'
  BY <1>1, <1>3 DEF IInv, RequestInv, MirrorTrue
<1>5. QED
  BY <1>1, <1>4 DEF IInv, Rest

LEMMA EveryStep ==
  ASSUME IInv, [Next]_vars
  PROVE  IInv'
<1>1. CASE ProgramStep  BY <1>1, StepProgramStep
<1>2. CASE Applied  BY <1>2, StepApplied
<1>3. CASE AppliedLast  BY <1>3, StepAppliedLast
<1>4. CASE Started  BY <1>4, StepStarted
<1>5. CASE NotStarted  BY <1>5, StepNotStarted
<1>6. CASE FrameStep  BY <1>6, StepFrameStep
<1>7. CASE FrameDone  BY <1>7, StepFrameDone
<1>8. CASE Stepped  BY <1>8, StepStepped
<1>9. CASE StepFailed  BY <1>9, StepStepFailed
<1>10. CASE LoopEnds  BY <1>10, StepLoopEnds
<1>11. CASE Files  BY <1>11, StepFiles
<1>12. CASE Switches \/ RequestsExit \/ CallRefused  BY <1>12, StepNativeStays
<1>13. CASE EvalLambda  BY <1>13, StepEvalLambda
<1>14. CASE ScopedCall  BY <1>14, StepScopedCall
<1>15. CASE Apply  BY <1>15, StepApply
<1>16. CASE Returns  BY <1>16, StepReturns
<1>17. CASE NativeFails  BY <1>17, StepNativeFails
<1>18. CASE Inlined  BY <1>18, StepInlined
<1>19. CASE Residual  BY <1>19, StepResidual
<1>20. CASE Applies  BY <1>20, StepApplies
<1>21. CASE GoesOn  BY <1>21, StepGoesOn
<1>22. CASE CompiledFails  BY <1>22, StepCompiledFails
<1>23. CASE CompiledEnds  BY <1>23, StepCompiledEnds
<1>24. CASE UNCHANGED vars  BY <1>24, StutterKeeps
<1>25. QED
  BY <1>1, <1>2, <1>3, <1>4, <1>5, <1>6, <1>7, <1>8, <1>9, <1>10, <1>11, <1>12, <1>13,
     <1>14, <1>15, <1>16, <1>17, <1>18, <1>19, <1>20, <1>21, <1>22, <1>23, <1>24 DEF Next

(* How the calls nest, where the shadow frame is and where a request waits *)

(* are as described, in every state: every handler of the loop keeps them. *)
THEOREM Inductive == Spec => []IInv
<1>1. Init => IInv
  BY Initially
<1>2. IInv /\ [Next]_vars => IInv'
  BY EveryStep
<1>3. QED
  BY <1>1, <1>2, PTL DEF Spec

(* No request outlives a failure or is overwritten, and compiled code is   *)

(* told of a request exactly when there is one.                            *)
THEOREM RequestsKept == Spec => []RequestKept
<1>1. ASSUME IInv PROVE RequestKept
  <2>1. MirrorTrue
    BY <1>1 DEF IInv, RequestInv
  <2>2. CASE Drives(Calls, {"next", "loop"})
    <3>1. Calls \in SUBSET (Calls \cup {"filing"}) /\ {"next", "loop"} \in SUBSET Places
      BY DEF Places
    <3>2. rust # <<>> /\ Top \in CallSet /\ ~Applier(Top)
      BY <1>1, <2>2, <3>1, Going DEF Applier
    <3>3. QED
      BY <1>1, <2>1, <3>2, NothingWaits DEF RequestKept, NoneStale
  <2>3. CASE Works
    BY <1>1, <2>1, <2>3, NativeFacts DEF RequestKept, NoneStale, Works
  <2>4. CASE Runs("compiled") /\ answer = None /\ Top.left > 0
    BY <1>1, <2>1, <2>4, CompiledFacts DEF RequestKept, NoneStale
  <2>5. QED
    BY <2>1, <2>2, <2>3, <2>4 DEF RequestKept, NoneStale, Applying
<1>2. IInv => RequestKept
  BY <1>1
<1>3. QED
  BY <1>2, Inductive, PTL

(* The lists are lists of frames and calls, and the shadow a place on the  *)

(* list: the bounds of the state the loop works on.                        *)
THEOREM Typed == Spec => []TypeOK
<1>1. ASSUME IInv PROVE TypeOK
  <2>1. /\ rust \in Seq(Entries) /\ WellNested(rust) /\ frames \in Seq(FrameSet)
        /\ ShadowIs(rust, Len(rust), shadow) \/ shadow = 0
    BY <1>1 DEF IInv, Fits, Silent, WellNested
  <2>2. ASSUME NEW i \in DOMAIN rust
        PROVE  \/ rust[i] \in Natives
               \/ rust[i] \in [kind : {"compiled"}, left : Bodies, tail : BOOLEAN,
                               floor : Nat, outer : Nat]
               \/ rust[i] \in [kind : Calls \cup {"filing"}, floor : Nat,
                               back : Names \cup {None},
                               at : {"next", "value", "body", "loop", "step", "push"}]
    <3>1. rust[i] \in Entries
      BY <2>1
    <3>2. rust[i] \in CallSet =>
            rust[i] \in [kind : Calls \cup {"filing"}, floor : Nat, back : Names \cup {None},
                         at : {"next", "value", "body", "loop", "step", "push"}]
      BY DEF CallSet, Calls, Places
    <3>3. QED
      BY <3>1, <3>2 DEF Entries, CompiledSet
  <2>3. shadow \in 0..MaxFrames
    <3>1. \A j \in 1..Len(rust) : IsCompiled(rust[j]) =>
            rust[j].floor \in Nat /\ rust[j].floor + 1 <= MaxFrames
      <4>1. ASSUME NEW j \in 1..Len(rust), IsCompiled(rust[j])
            PROVE  rust[j].floor \in Nat /\ rust[j].floor < MaxFrames
        BY <2>1, <4>1, EntryKinds DEF WellNested, IsCompiled, HasFloor
      <4>2. QED
        BY <4>1, FrameLoopAssumption
    <3>2. CASE shadow = 0
      BY <3>2, FrameLoopAssumption
    <3>3. CASE ShadowIs(rust, Len(rust), shadow)
      BY <3>1, <3>3, FrameLoopAssumption DEF ShadowIs
    <3>4. QED
      BY <2>1, <3>2, <3>3
  <2>4. requested \in BOOLEAN
    BY <1>1 DEF IInv, RequestInv, MirrorTrue
  <2>5. frames \in Seq([left : Bodies, exit : Names \cup {None}])
    BY <2>1 DEF FrameSet
  <2>6. QED
    BY <1>1, <2>2, <2>3, <2>4, <2>5 DEF TypeOK, IInv, RequestInv, Rest
<1>2. IInv => TypeOK
  BY <1>1
<1>3. QED
  BY <1>2, Inductive, PTL

-----------------------------------------------------------------------------
(* A call finds its frames as it left them.                                *)

Keeps(m) == m <= Len(frames') /\ \A k \in 1..m : frames'[k] = frames[k]
Untouched == \E m \in Nat : Below(rust, m) /\ Keeps(m)

LEMMA GrowsOnly ==
  ASSUME IInv, Keeps(Len(frames))
  PROVE  Untouched
  BY DEF Untouched, IInv, Fits

LEMMA SameFrames ==
  ASSUME IInv, frames' = frames
  PROVE  Untouched
<1>1. Len(frames) \in Nat
  BY DEF IInv, Fits
<1>2. Keeps(Len(frames))
  BY <1>1 DEF Keeps
<1>3. QED
  BY <1>2, GrowsOnly

(* Floors rise, so nothing below the innermost's is anyone's to lose.      *)
LEMMA AboveFloor ==
  ASSUME IInv, rust # <<>>, HasFloor(Top), Keeps(Top.floor)
  PROVE  Untouched
<1>1. WellNested(rust) /\ rust \in Seq(Entries)
  BY DEF IInv, Fits, WellNested
<1>2. Len(rust) \in Nat /\ Len(rust) >= 1 /\ Top = rust[Len(rust)] /\ Top \in Entries
  BY <1>1, FrontFacts DEF Top
<1>3. Top.floor \in Nat
  BY <1>2, EntryKinds
<1>4. ASSUME NEW i \in DOMAIN rust, HasFloor(rust[i])
      PROVE  rust[i].floor <= Top.floor
  <2>1. i \in 1..Len(rust)
    BY <1>1
  <2>2. CASE i = Len(rust)
    BY <1>2, <1>3, <2>2
  <2>3. CASE i < Len(rust)
    <3>1. Len(rust) \in DOMAIN rust
      BY <1>1, <1>2
    <3>2. QED
      BY <1>1, <1>2, <1>4, <2>3, <3>1 DEF WellNested
  <2>4. QED
    BY <1>2, <2>1, <2>2, <2>3
<1>5. Below(rust, Top.floor)
  BY <1>4 DEF Below
<1>6. QED
  BY <1>3, <1>5 DEF Untouched

LEMMA PushFrameKeeps ==
  ASSUME IInv, NEW c, NEW s, NEW n \in Bodies, NEW exit \in Names \cup {None},
         PushFrame(c, frames, s, n, exit)
  PROVE  Untouched
<1>1. frames \in Seq(FrameSet) /\ Len(frames) \in Nat
  BY DEF IInv, Fits
<1>2. CASE frames' = frames
  BY <1>2, SameFrames
<1>3. CASE frames' = Append(frames, Frame(n, exit))
  <2>1. Frame(n, exit) \in FrameSet
    BY DEF Frame, FrameSet
  <2>2. Len(frames') = Len(frames) + 1 /\ \A i \in 1..Len(frames) : frames'[i] = frames[i]
    BY <1>1, <1>3, <2>1, AppendFacts
  <2>3. Keeps(Len(frames))
    BY <1>1, <2>2 DEF Keeps
  <2>4. QED
    BY <2>3, GrowsOnly
<1>4. QED
  BY <1>2, <1>3 DEF PushFrame

LEMMA TakePendingKeeps ==
  ASSUME IInv, NEW c, TakePending(c)
  PROVE  Untouched
<1>1. CASE frames' = frames
  BY <1>1, SameFrames
<1>2. CASE pending # <<>> /\ PushFrame(c, frames, shadow, Head(pending), None)
  <2>1. Head(pending) \in Bodies /\ None \in Names \cup {None}
    BY <1>2 DEF IInv, RequestInv
  <2>2. QED
    BY <1>2, <2>1, PushFrameKeeps
<1>3. QED
  BY <1>1, <1>2 DEF TakePending

LEMMA UnwindKeeps ==
  ASSUME IInv, NEW kinds \in SUBSET Calls, NEW places \in SUBSET Places, Drives(kinds, places),
         NEW k \in Nat, k >= Top.floor, k <= Len(frames),
         frames' = SubSeq(frames, 1, k)
  PROVE  Untouched
<1>1. kinds \in SUBSET (Calls \cup {"filing"})
  OBVIOUS
<1>2. rust # <<>> /\ HasFloor(Top) /\ Top.floor \in Nat /\ frames \in Seq(FrameSet)
  BY <1>1, Going
<1>3. Len(frames') = k /\ \A i \in 1..k : frames'[i] = frames[i]
  BY <1>2, FirstFrames
<1>4. Keeps(Top.floor)
  BY <1>2, <1>3 DEF Keeps
<1>5. QED
  BY <1>2, <1>4, AboveFloor

LEMMA EveryStepKeeps ==
  ASSUME IInv, [Next]_vars
  PROVE  Untouched
<1>1. Calls \in SUBSET Calls /\ Calls \in SUBSET (Calls \cup {"filing"}) /\ Places \in SUBSET Places
      /\ {"loop"} \in SUBSET Places /\ {"body"} \in SUBSET Places
      /\ {"step", "push"} \in SUBSET Places
  BY DEF Places
<1>2. CASE \/ ProgramStep \/ AppliedLast \/ Started \/ LoopEnds \/ Files \/ Switches
           \/ RequestsExit \/ CallRefused \/ Apply \/ Returns \/ NativeFails \/ Inlined
           \/ Residual \/ GoesOn \/ UNCHANGED vars
  <2>1. frames' = frames
    BY <1>2 DEF ProgramStep, AppliedLast, Started, LoopEnds, Files, Switches, RequestsExit,
                CallRefused, Apply, Returns, NativeFails, Inlined, Residual, GoesOn, vars
  <2>2. QED
    BY <2>1, SameFrames
<1>3. CASE Applied
  <2>1. TakePending(At("body")) \/ frames' = frames
    BY <1>3 DEF Applied
  <2>2. QED
    BY <2>1, TakePendingKeeps, SameFrames
<1>4. CASE Stepped
  <2>1. TakePending(At("push"))
    BY <1>4 DEF Stepped
  <2>2. QED
    BY <2>1, TakePendingKeeps
<1>5. CASE NotStarted
  <2>1. Drives(Calls, {"body"}) /\ (frames' = frames \/ Unwind(Top.floor)
                                    \/ frames' = SubSeq(frames, 1, Top.floor))
    BY <1>5 DEF NotStarted
  <2>2. Top.floor \in Nat /\ Top.floor <= Len(frames) /\ Len(frames) \in Nat
    BY <1>1, <2>1, Going
  <2>3. Unwind(Top.floor) => frames' = SubSeq(frames, 1, Top.floor)
    BY <2>2 DEF Unwind
  <2>4. CASE frames' = frames
    BY <2>4, SameFrames
  <2>5. CASE frames' = SubSeq(frames, 1, Top.floor)
    <3>1. Top.floor >= Top.floor
      BY <2>2
    <3>2. QED
      BY <1>1, <2>1, <2>2, <2>5, <3>1, UnwindKeeps
  <2>6. QED
    BY <2>1, <2>3, <2>4, <2>5
<1>6. CASE StepFailed
  <2>1. Drives(Calls, {"step", "push"}) /\ Unwind(Top.floor)
    BY <1>6 DEF StepFailed
  <2>2. Top.floor \in Nat /\ Top.floor <= Len(frames) /\ Len(frames) \in Nat
    BY <1>1, <2>1, Going
  <2>3. frames' = SubSeq(frames, 1, Top.floor)
    BY <2>1, <2>2 DEF Unwind
  <2>4. QED
    BY <1>1, <2>1, <2>2, <2>3, UnwindKeeps
<1>7. CASE FrameDone
  <2>1. Drives(Calls, {"loop"}) /\ Unwind(Len(frames) - 1) /\ Len(frames) > Top.floor
    BY <1>7 DEF FrameDone
  <2>2. Top.floor \in Nat /\ Len(frames) \in Nat
    BY <1>1, <2>1, Going
  <2>3. Len(frames) - 1 \in Nat /\ Len(frames) - 1 >= Top.floor
        /\ Len(frames) - 1 <= Len(frames) /\ ~(Len(frames) < Len(frames) - 1)
    BY <2>1, <2>2
  <2>4. frames' = SubSeq(frames, 1, Len(frames) - 1)
    BY <2>1, <2>3 DEF Unwind
  <2>5. QED
    BY <1>1, <2>1, <2>3, <2>4, UnwindKeeps
<1>8. CASE FrameStep
  <2>1. /\ Drives(Calls, {"loop"}) /\ Len(frames) > Top.floor /\ Last(frames).left > 0
        /\ frames' = [frames EXCEPT ![Len(frames)].left = @ - 1]
    BY <1>8 DEF FrameStep
  <2>2. /\ rust # <<>> /\ HasFloor(Top) /\ Top.floor \in Nat /\ Len(frames) \in Nat
        /\ frames \in Seq(FrameSet)
    BY <1>1, <2>1, Going
  <2>3. Len(frames') = Len(frames) /\ \A i \in 1..(Len(frames) - 1) : frames'[i] = frames[i]
    BY <2>1, <2>2, SteppedFrames
  <2>4. Keeps(Top.floor)
    BY <2>1, <2>2, <2>3 DEF Keeps
  <2>5. QED
    BY <2>2, <2>4, AboveFloor
<1>9. CASE EvalLambda
  <2>1. PICK n \in Bodies :
          PushFrame(Append(rust, Call("eval", "body", Len(frames), None)), frames, shadow, n, None)
    BY <1>9 DEF EvalLambda
  <2>2. QED
    BY <2>1, PushFrameKeeps
<1>10. CASE ScopedCall
  <2>1. PICK n \in Bodies :
          PushFrame(Append(rust, Call("scoped", "body", Len(frames), current)),
                    frames, shadow, n, current)
    BY <1>10 DEF ScopedCall
  <2>2. current \in Names \cup {None}
    BY DEF IInv, Rest
  <2>3. QED
    BY <2>1, <2>2, PushFrameKeeps
<1>11. CASE Applies
  <2>1. /\ Runs("compiled") /\ Top.left > 0
        /\ shadow' = (IF shadow = 0 THEN Len(frames) + 1 ELSE shadow)
        /\ frames' = (IF shadow = 0 THEN Append(frames, Frame(Top.left - 1, None))
                      ELSE [frames EXCEPT ![shadow].left = Top.left - 1])
    BY <1>11 DEF Applies
  <2>2. /\ frames' \in Seq(FrameSet) /\ Len(frames') >= Len(frames)
        /\ \A i \in 1..Top.floor : frames'[i] = frames[i]
    BY <2>1, Framed
  <2>3. rust # <<>> /\ HasFloor(Top) /\ Top.floor \in Nat /\ Top.floor <= Len(frames)
        /\ Len(frames) \in Nat
    BY <2>1, CompiledFacts
  <2>4. Keeps(Top.floor)
    BY <2>2, <2>3 DEF Keeps
  <2>5. QED
    BY <2>3, <2>4, AboveFloor
<1>12. CASE CompiledFails \/ CompiledEnds
  <2>1. Runs("compiled")
    BY <1>12 DEF CompiledFails, CompiledEnds
  <2>2. CASE frames' = WithoutShadow
    <3>1. Len(frames') = Top.floor /\ \A i \in 1..Top.floor : frames'[i] = frames[i]
      BY <2>1, <2>2, Unshadowed
    <3>2. rust # <<>> /\ HasFloor(Top) /\ Top.floor \in Nat
      BY <2>1, CompiledFacts
    <3>3. Keeps(Top.floor)
      BY <3>1, <3>2 DEF Keeps
    <3>4. QED
      BY <3>2, <3>3, AboveFloor
  <2>3. CASE pending # <<>> /\ PushFrame(Front(rust), frames, Top.outer, Head(pending), None)
    <3>1. Head(pending) \in Bodies /\ None \in Names \cup {None}
      BY <2>3 DEF IInv, RequestInv
    <3>2. QED
      BY <2>3, <3>1, PushFrameKeeps
  <2>4. QED
    BY <1>12, <2>2, <2>3 DEF CompiledFails, CompiledEnds
<1>13. QED
  BY <1>2, <1>3, <1>4, <1>5, <1>6, <1>7, <1>8, <1>9, <1>10, <1>11, <1>12 DEF Next

(* However deep calls nest and however they end, each finds the frames it  *)

(* left: no step reaches below the floor of a call in progress.            *)
THEOREM FramesOwned == Spec => OwnFrames
<1>1. ASSUME IInv, [Next]_vars, NEW i \in DOMAIN rust, rust[i] \notin Natives
      PROVE  /\ Len(frames') >= rust[i].floor
             /\ \A k \in 1..rust[i].floor : frames'[k] = frames[k]
  <2>1. rust[i] \in Entries /\ frames' \in Seq(FrameSet)
    <3>1. rust \in Seq(Entries) /\ IInv'
      BY <1>1, EveryStep DEF IInv, Fits, WellNested
    <3>2. QED
      BY <1>1, <3>1 DEF IInv, Fits
  <2>2. HasFloor(rust[i]) /\ rust[i].floor \in Nat
    BY <1>1, <2>1, EntryKinds DEF HasFloor
  <2>3. PICK m \in Nat : Below(rust, m) /\ m <= Len(frames') /\ \A k \in 1..m : frames'[k] = frames[k]
    BY <1>1, EveryStepKeeps DEF Untouched, Keeps
  <2>4. rust[i].floor <= m /\ Len(frames') \in Nat
    BY <1>1, <2>1, <2>2, <2>3 DEF Below
  <2>5. QED
    BY <2>2, <2>3, <2>4
<1>2. IInv /\ [Next]_vars =>
        [\A i \in DOMAIN rust : rust[i] \notin Natives =>
           /\ Len(frames') >= rust[i].floor
           /\ \A k \in 1..rust[i].floor : frames'[k] = frames[k]]_vars
  BY <1>1
<1>3. QED
  BY <1>2, Inductive, PTL DEF Spec, OwnFrames

-----------------------------------------------------------------------------
(* An exit stops whoever waits for a body.                                 *)

LEMMA AtLength ==
  ASSUME IInv, NEW places \in SUBSET Places, Drives(Calls, places), NEW place \in Places
  PROVE  /\ Len(At(place)) = Len(rust) /\ Len(rust) \in Nat
         /\ \A x : Len(Append(At(place), x)) = Len(rust) + 1
<1>1. Calls \in SUBSET (Calls \cup {"filing"})
  OBVIOUS
<1>2. rust # <<>> /\ rust \in Seq(Entries) /\ Top \in CallSet
  BY <1>1, Going
<1>3. [Top EXCEPT !.at = place] \in Entries
  BY <1>2, AtEntry
<1>4. At(place) \in Seq(Entries) /\ Len(At(place)) = Len(rust) /\ Len(rust) \in Nat
  BY <1>2, <1>3, ReplaceFacts, FrontFacts DEF At
<1>5. QED
  BY <1>4

(* A step out of a call that runs a body either leaves the call where it   *)

(* is, or tells its caller something other than "ok".                      *)
LEMMA NotTold ==
  ASSUME IInv, [Next]_vars, Drives(Calls, {"body", "loop", "step", "push", "value"}), exiting'
  PROVE  ~(Len(rust') < Len(rust)) \/ answer' # "ok"
<1>1. /\ {"body", "loop", "step", "push", "value"} \in SUBSET Places
      /\ "body" \in Places /\ "push" \in Places /\ "loop" \in Places /\ "step" \in Places
  BY DEF Places
<1>2. /\ rust # <<>> /\ Top.kind \in Calls
      /\ Top.at \in {"body", "loop", "step", "push", "value"} /\ Len(rust) \in Nat
  BY <1>1, AtLength DEF Drives
<1>3. Fails => answer' # "ok"
  BY DEF Fails, Return, None
<1>4. ASSUME NEW place \in {"body", "push"}, TakePending(At(place))
      PROVE  ~(Len(rust') < Len(rust))
  <2>1. rust' = At(place) \/ \E x : rust' = Append(At(place), x)
    BY <1>4 DEF TakePending, PushFrame
  <2>2. QED
    BY <1>1, <1>2, <2>1, AtLength
<1>5. CASE Applied
  BY <1>3, <1>4, <1>5 DEF Applied
<1>6. CASE Stepped
  BY <1>4, <1>6 DEF Stepped
<1>7. CASE NotStarted \/ StepFailed
  BY <1>3, <1>7 DEF NotStarted, StepFailed
<1>8. CASE Started
  BY <1>8 DEF Started, None
<1>9. CASE FrameStep
  <2>1. rust' = At("step") \/ \E x : rust' = Append(At("step"), x)
    BY <1>9 DEF FrameStep, ApplyStep
  <2>2. QED
    BY <1>1, <1>2, <2>1, AtLength
<1>10. CASE LoopEnds
  BY <1>10 DEF LoopEnds, Return, ExitGate, None
<1>11. CASE FrameDone \/ UNCHANGED vars
  <2>1. rust' = rust
    BY <1>11 DEF FrameDone, vars
  <2>2. QED
    BY <1>2, <2>1
<1>12. CASE ProgramStep \/ AppliedLast
  BY <1>2, <1>12 DEF ProgramStep, AppliedLast, Drives, Calls
<1>13. CASE \/ Files \/ Switches \/ RequestsExit \/ CallRefused \/ EvalLambda \/ ScopedCall
            \/ Apply \/ Returns \/ NativeFails
  BY <1>2, <1>13 DEF Files, Switches, RequestsExit, CallRefused, EvalLambda, ScopedCall, Apply,
                     Returns, NativeFails, Works, Runs, Calls
<1>14. CASE Inlined \/ Residual \/ Applies \/ GoesOn \/ CompiledFails \/ CompiledEnds
  BY <1>2, <1>14 DEF Inlined, Residual, Applies, GoesOn, CompiledFails, CompiledEnds, Runs, Calls
<1>15. QED
  BY <1>5, <1>6, <1>7, <1>8, <1>9, <1>10, <1>11, <1>12, <1>13, <1>14 DEF Next

(* After an exit is requested no native is told that what it ran is done.  *)
THEOREM ExitsStop == Spec => ExitStops
<1>1. ASSUME IInv, [Next]_vars,
             Drives(Calls, {"body", "loop", "step", "push", "value"}), exiting',
             Len(rust') < Len(rust)
      PROVE  answer' # "ok"
  BY <1>1, NotTold
<1>2. IInv /\ [Next]_vars =>
        [Drives(Calls, {"body", "loop", "step", "push", "value"})
           /\ exiting' /\ Len(rust') < Len(rust) => answer' # "ok"]_vars
  BY <1>1
<1>3. QED
  BY <1>2, Inductive, PTL DEF Spec, ExitStops

-----------------------------------------------------------------------------
(* A call on another stack ends where it came from.  While its body runs,  *)
(* the frame above its floor is the one whose exit action returns there,   *)
(* and whatever runs on top of the call has a higher floor.                *)

Held(x, list) == x.floor < Len(list) /\ list[x.floor + 1].exit = x.back

Homes(c, list) ==
  \A i \in 1..(Len(c) - 1) : c[i].kind = "scoped" =>
    /\ c[i].at \in {"step", "push"} /\ Held(c[i], list)
    /\ \A j \in (i + 1)..Len(c) : HasFloor(c[j]) => c[i].floor < c[j].floor

Settled(c, list) ==
  /\ Homes(c, list)
  /\ c # <<>> /\ Last(c).kind = "scoped" => Last(c).at \in {"step", "push"} /\ Held(Last(c), list)

TopHome ==
  rust # <<>> /\ Top.kind = "scoped" =>
    \/ Top.at \in {"step", "push", "loop"} /\ Held(Top, frames)
    \/ Top.at = "body" /\ answer = "ok" /\ Held(Top, frames)
    \/ Top.at = "body" /\ answer = "err"
    \/ Top.at = "loop" /\ Len(frames) = Top.floor /\ current = Top.back

HomeInv == Homes(rust, frames) /\ TopHome

LEMMA HomesReplace ==
  ASSUME NEW c \in Seq(Entries), c # <<>>, NEW list, Homes(c, list), NEW x \in Entries,
         x.kind = Last(c).kind, HasFloor(x) => x.floor = Last(c).floor
  PROVE  Homes(Append(Front(c), x), list)
<1> DEFINE d == Append(Front(c), x)
           n == Len(c)
<1>1. n \in Nat /\ n >= 1 /\ Last(c) = c[n]
  BY FrontFacts
<1>2. d = Append(Front(c), x) /\ n = Len(c)
  OBVIOUS
<1> HIDE DEF d
<1>3. /\ Len(d) = n /\ \A i \in 1..(n - 1) : d[i] = c[i]
      /\ d[n] = x
  BY <1>2, ReplaceFacts
<1> HIDE DEF n
<1>4. ASSUME NEW i \in 1..(n - 1), d[i].kind = "scoped"
      PROVE  /\ d[i].at \in {"step", "push"} /\ Held(d[i], list)
             /\ \A j \in (i + 1)..n : HasFloor(d[j]) => d[i].floor < d[j].floor
  <2>1. /\ c[i].at \in {"step", "push"} /\ Held(c[i], list) /\ d[i] = c[i]
        /\ \A j \in (i + 1)..n : HasFloor(c[j]) => c[i].floor < c[j].floor
    BY <1>2, <1>3, <1>4 DEF Homes
  <2>2. \A j \in (i + 1)..n : (HasFloor(d[j]) => HasFloor(c[j]) /\ d[j].floor = c[j].floor)
    BY <1>1, <1>3 DEF HasFloor
  <2>3. QED
    BY <2>1, <2>2
<1>5. QED
  BY <1>3, <1>4 DEF Homes, d

LEMMA HomesPop ==
  ASSUME NEW c \in Seq(Entries), c # <<>>, NEW list, Homes(c, list)
  PROVE  Settled(Front(c), list)
<1> DEFINE d == Front(c)
           n == Len(c)
<1>1. /\ n \in Nat /\ n >= 1 /\ d \in Seq(Entries) /\ Len(d) = n - 1
      /\ \A i \in 1..(n - 1) : d[i] = c[i]
  BY FrontFacts
<1> HIDE DEF d
<1>2. ASSUME NEW i \in 1..(n - 1), d[i].kind = "scoped"
      PROVE  /\ d[i].at \in {"step", "push"} /\ Held(d[i], list)
             /\ \A j \in (i + 1)..(n - 1) : HasFloor(d[j]) => d[i].floor < d[j].floor
  <2>1. /\ c[i].at \in {"step", "push"} /\ Held(c[i], list) /\ d[i] = c[i]
        /\ \A j \in (i + 1)..n : HasFloor(c[j]) => c[i].floor < c[j].floor
    BY <1>1, <1>2 DEF Homes
  <2>2. \A j \in (i + 1)..(n - 1) : j \in (i + 1)..n /\ d[j] = c[j]
    BY <1>1
  <2>3. QED
    BY <2>1, <2>2
<1> HIDE DEF n
<1>3. Homes(d, list)
  <2>1. \A i \in 1..(Len(d) - 1) : i \in 1..(n - 1)
    BY <1>1
  <2>2. QED
    BY <1>1, <1>2, <2>1 DEF Homes
<1>4. ASSUME d # <<>>, Last(d).kind = "scoped"
      PROVE  Last(d).at \in {"step", "push"} /\ Held(Last(d), list)
  <2>1. Len(d) >= 1 /\ Last(d) = d[Len(d)]
    BY <1>1, <1>4, FrontFacts
  <2>2. n - 1 \in 1..(n - 1) /\ Last(d) = d[n - 1]
    BY <1>1, <2>1
  <2>3. QED
    BY <1>2, <1>4, <2>2
<1>5. QED
  BY <1>3, <1>4 DEF Settled, d

LEMMA HomesPush ==
  ASSUME NEW c \in Seq(Entries), c # <<>>, NEW list \in Seq(FrameSet), Settled(c, list),
         NEW x \in Entries, HasFloor(x) => x.floor = Len(list)
  PROVE  Homes(Append(c, x), list)
<1> DEFINE d == Append(c, x)
           n == Len(c)
<1>1. n \in Nat /\ n >= 1 /\ Last(c) = c[n]
  BY FrontFacts
<1>2. Len(d) = n + 1 /\ d[n + 1] = x /\ \A i \in 1..n : d[i] = c[i]
  BY AppendFacts
<1> HIDE DEF d
<1>3. ASSUME NEW i \in 1..n, d[i].kind = "scoped"
      PROVE  /\ d[i].at \in {"step", "push"} /\ Held(d[i], list)
             /\ \A j \in (i + 1)..n : HasFloor(c[j]) => c[i].floor < c[j].floor
  <2>1. CASE i \in 1..(n - 1)
    BY <1>2, <1>3, <2>1 DEF Settled, Homes
  <2>2. CASE i = n
    BY <1>1, <1>2, <1>3, <2>2 DEF Settled
  <2>3. QED
    BY <1>1, <2>1, <2>2
<1> HIDE DEF n
<1>4. ASSUME NEW i \in 1..n, d[i].kind = "scoped", NEW j \in (i + 1)..(n + 1), HasFloor(d[j])
      PROVE  d[i].floor < d[j].floor
  <2>1. CASE j \in (i + 1)..n
    BY <1>2, <1>3, <1>4, <2>1
  <2>2. CASE j = n + 1
    BY <1>2, <1>3, <1>4, <2>2 DEF Held
  <2>3. QED
    BY <1>1, <1>4, <2>1, <2>2
<1>5. \A i \in 1..(Len(d) - 1) : i \in 1..n
  BY <1>1, <1>2
<1>6. QED
  BY <1>2, <1>3, <1>4, <1>5 DEF Homes, d

(* The exit actions of the frames below m are as they were.                *)
SameExits(list, list2, m) ==
  m <= Len(list2) /\ \A k \in 1..m : list2[k].exit = list[k].exit

LEMMA HeldStays ==
  ASSUME NEW x \in CallSet, NEW list \in Seq(FrameSet), NEW list2 \in Seq(FrameSet), NEW m \in Nat,
         Held(x, list), x.floor < m, SameExits(list, list2, m)
  PROVE  Held(x, list2)
<1>1. x.floor \in Nat /\ x.floor + 1 \in 1..m /\ Len(list2) \in Nat
  BY DEF CallSet
<1>2. QED
  BY <1>1 DEF Held, SameExits

LEMMA HomesList ==
  ASSUME NEW c \in Seq(Entries), c # <<>>, NEW list \in Seq(FrameSet),
         NEW list2 \in Seq(FrameSet), Homes(c, list),
         SameExits(list, list2, IF HasFloor(Last(c)) THEN Last(c).floor ELSE Len(list))
  PROVE  Homes(c, list2)
<1> DEFINE n == Len(c)
           m == IF HasFloor(Last(c)) THEN Last(c).floor ELSE Len(list)
<1>1. n \in Nat /\ n >= 1 /\ Last(c) = c[n] /\ Last(c) \in Entries
  BY FrontFacts
<1>2. m \in Nat
  BY <1>1, EntryKinds
<1>3. ASSUME NEW i \in 1..(n - 1), c[i].kind = "scoped"
      PROVE  Held(c[i], list2)
  <2>1. /\ Held(c[i], list)
        /\ \A j \in (i + 1)..n : HasFloor(c[j]) => c[i].floor < c[j].floor
    BY <1>3 DEF Homes
  <2>2. c[i] \in CallSet
    BY <1>1, <1>3, EntryKinds DEF Calls
  <2>3. n \in (i + 1)..n
    BY <1>1
  <2>4. c[i].floor < m
    BY <1>1, <2>1, <2>3 DEF Held
  <2> HIDE DEF m
  <2>5. SameExits(list, list2, m)
    BY DEF m
  <2>6. QED
    BY <1>2, <2>1, <2>2, <2>4, <2>5, HeldStays
<1>4. QED
  BY <1>3 DEF Homes

LEMMA SettledGrows ==
  ASSUME NEW c \in Seq(Entries), c # <<>>, NEW list \in Seq(FrameSet), Settled(c, list),
         Below(c, Len(list)), NEW f \in FrameSet
  PROVE  Settled(c, Append(list, f))
<1> DEFINE list2 == Append(list, f)
<1>1. /\ list2 \in Seq(FrameSet) /\ Len(list2) = Len(list) + 1 /\ Len(list) \in Nat
      /\ \A i \in 1..Len(list) : list2[i] = list[i]
  BY AppendFacts
<1>2. Last(c) \in Entries /\ Last(c) = c[Len(c)] /\ Len(c) \in Nat /\ Len(c) >= 1
  BY FrontFacts
<1> HIDE DEF list2
<1>3. SameExits(list, list2, Len(list))
  BY <1>1 DEF SameExits
<1>4. HasFloor(Last(c)) => Last(c).floor \in Nat /\ Last(c).floor <= Len(list)
  BY <1>2, EntryKinds DEF Below
<1>5. SameExits(list, list2, IF HasFloor(Last(c)) THEN Last(c).floor ELSE Len(list))
  BY <1>1, <1>4 DEF SameExits
<1>6. Homes(c, list2)
  BY <1>1, <1>5, HomesList DEF Settled
<1>7. ASSUME Last(c).kind = "scoped"
      PROVE  Last(c).at \in {"step", "push"} /\ Held(Last(c), list2)
  <2>1. Last(c).at \in {"step", "push"} /\ Held(Last(c), list) /\ Last(c).floor < Len(list)
    BY <1>7 DEF Settled, Held
  <2>2. Last(c) \in CallSet
    BY <1>2, <1>7, EntryKinds DEF Calls
  <2>3. QED
    BY <1>1, <1>3, <2>1, <2>2, HeldStays
<1>8. QED
  BY <1>6, <1>7 DEF Settled, list2

(* What the steps handlers share does to it.                               *)
LEMMA SettledIsHome ==
  ASSUME Settled(rust', frames')
  PROVE  HomeInv'
<1>1. Homes(rust', frames')
  BY DEF Settled
<1>2. rust' # <<>> /\ Top'.kind = "scoped" => Top'.at \in {"step", "push"} /\ Held(Top', frames')
  BY DEF Settled, Top
<1>3. TopHome'
  BY <1>2 DEF TopHome
<1>4. QED
  BY <1>1, <1>3 DEF HomeInv

LEMMA HomeUnscoped ==
  ASSUME Homes(rust', frames'), Top'.kind # "scoped"
  PROVE  HomeInv'
  BY DEF HomeInv, TopHome

LEMMA ApplyHome ==
  ASSUME NEW c \in Seq(Entries), c # <<>>, frames' \in Seq(FrameSet), Settled(c, frames'),
         ApplyStep(c)
  PROVE  HomeInv'
<1>1. CASE rust' = c
  BY <1>1, SettledIsHome
<1>2. CASE rust' = Append(c, Native(FALSE))
  <2>1. Native(FALSE) \in Entries /\ ~HasFloor(Native(FALSE)) /\ Native(FALSE).kind = "native"
    BY DEF Entries, Natives, Native, HasFloor
  <2>2. Homes(rust', frames')
    BY <1>2, <2>1, HomesPush
  <2>3. Top' = Native(FALSE)
    BY <1>2, <2>1, AppendFacts DEF Top
  <2>4. QED
    BY <2>1, <2>2, <2>3, HomeUnscoped
<1>3. QED
  BY <1>1, <1>2 DEF ApplyStep

LEMMA PushFrameHome ==
  ASSUME NEW c \in Seq(Entries), c # <<>>, frames \in Seq(FrameSet), Settled(c, frames),
         Below(c, Len(frames)), NEW s \in Nat, NEW n \in Bodies, NEW exit \in Names \cup {None},
         PushFrame(c, frames, s, n, exit)
  PROVE  HomeInv'
<1>1. CASE rust' = c /\ frames' = frames
  BY <1>1, SettledIsHome
<1>2. CASE \E tail \in BOOLEAN :
             /\ rust' = Append(c, [kind |-> "compiled", left |-> n, tail |-> tail,
                                   floor |-> Len(frames), outer |-> s])
             /\ frames' = frames
  <2>1. PICK x \in CompiledSet : rust' = Append(c, x) /\ x.floor = Len(frames) /\ frames' = frames
    BY <1>2 DEF CompiledSet
  <2>2. x \in Entries /\ x.kind = "compiled"
    BY <2>1 DEF Entries, CompiledSet
  <2>3. Homes(rust', frames')
    BY <2>1, <2>2, HomesPush
  <2>4. Top' = x
    BY <2>1, <2>2, AppendFacts DEF Top
  <2>5. QED
    BY <2>2, <2>3, <2>4, HomeUnscoped
<1>3. CASE rust' = c /\ frames' = Append(frames, Frame(n, exit))
  <2>1. Frame(n, exit) \in FrameSet
    BY DEF Frame, FrameSet
  <2>2. QED
    BY <1>3, <2>1, SettledGrows, SettledIsHome
<1>4. QED
  BY <1>1, <1>2, <1>3 DEF PushFrame

LEMMA TakePendingHome ==
  ASSUME IInv, NEW c \in Seq(Entries), c # <<>>, Settled(c, frames), Below(c, Len(frames)),
         TakePending(c)
  PROVE  HomeInv'
<1>1. CASE rust' = c /\ frames' = frames
  BY <1>1, SettledIsHome
<1>2. CASE pending # <<>> /\ PushFrame(c, frames, shadow, Head(pending), None)
  <2>1. Head(pending) \in Bodies /\ None \in Names \cup {None}
    BY <1>2 DEF IInv, RequestInv
  <2>2. shadow \in Nat /\ frames \in Seq(FrameSet)
    <3>1. rust \in Seq(Entries) /\ (ShadowIs(rust, Len(rust), shadow) \/ shadow = 0)
      BY DEF IInv, Fits, WellNested, Silent
    <3>2. Len(rust) \in Nat /\ Len(rust) <= Len(rust)
      BY <3>1
    <3>3. QED
      BY <3>1, <3>2, ShadowNat DEF IInv, Fits
  <2>3. QED
    BY <1>2, <2>1, <2>2, PushFrameHome
<1>3. QED
  BY <1>1, <1>2 DEF TakePending

(* A call that returns.                                                    *)
LEMMA PopHome ==
  ASSUME IInv, HomeInv, rust # <<>>, frames' \in Seq(FrameSet), rust' = Front(rust),
         SameExits(frames, frames', IF HasFloor(Top) THEN Top.floor ELSE Len(frames))
  PROVE  HomeInv'
<1>1. rust \in Seq(Entries) /\ frames \in Seq(FrameSet) /\ Homes(rust, frames)
  BY DEF IInv, Fits, WellNested, HomeInv
<1>2. Homes(rust, frames')
  BY <1>1, HomesList DEF Top
<1>3. Settled(rust', frames')
  BY <1>1, <1>2, HomesPop
<1>4. QED
  BY <1>3, SettledIsHome

LEMMA SameFramesSameExits ==
  ASSUME IInv, frames' = frames, NEW m \in Nat, m <= Len(frames)
  PROVE  SameExits(frames, frames', m)
  BY DEF SameExits

(* A call that goes on somewhere else.                                     *)
LEMMA AtHome ==
  ASSUME IInv, HomeInv, NEW kinds \in SUBSET (Calls \cup {"filing"}),
         NEW places \in SUBSET Places, Drives(kinds, places), NEW place \in Places,
         NEW list \in Seq(FrameSet), SameExits(frames, list, Top.floor)
  PROVE  /\ At(place) \in Seq(Entries) /\ At(place) # <<>> /\ Homes(At(place), list)
         /\ Last(At(place)) = [Top EXCEPT !.at = place]
         /\ Last(At(place)).kind = Top.kind /\ Last(At(place)).at = place
         /\ Last(At(place)).floor = Top.floor /\ Last(At(place)).back = Top.back
         /\ Below(At(place), Len(frames))
<1> DEFINE x == [Top EXCEPT !.at = place]
<1>1. /\ rust # <<>> /\ rust \in Seq(Entries) /\ Top \in CallSet /\ HasFloor(Top)
      /\ frames \in Seq(FrameSet) /\ Homes(rust, frames)
  BY Going DEF HomeInv
<1>2. /\ x \in Entries /\ x.kind = Top.kind /\ x.floor = Top.floor /\ x.at = place
      /\ HasFloor(x)
  BY <1>1, AtEntry
<1>3. x.back = Top.back
  BY <1>1 DEF CallSet
<1>4. At(place) = Append(Front(rust), x)
  BY DEF At
<1>5. Homes(rust, list)
  BY <1>1, HomesList DEF Top
<1> HIDE DEF x
<1>6. Homes(At(place), list)
  BY <1>1, <1>2, <1>4, <1>5, HomesReplace DEF Top
<1>7. At(place) \in Seq(Entries) /\ At(place) # <<>> /\ Last(At(place)) = x
  <2>1. Front(rust) \in Seq(Entries)
    BY <1>1, FrontFacts
  <2>2. QED
    BY <1>2, <1>4, <2>1, AppendFacts
<1>8. Below(At(place), Len(frames))
  BY AtFits DEF Fits
<1>9. QED
  BY <1>2, <1>3, <1>6, <1>7, <1>8 DEF x

LEMMA FailsHome ==
  ASSUME IInv, HomeInv, NEW places \in SUBSET Places, Drives(Calls, places), Fails,
         frames' \in Seq(FrameSet), SameExits(frames, frames', Top.floor)
  PROVE  HomeInv'
<1>1. Calls \in SUBSET (Calls \cup {"filing"}) /\ "next" \in Places
  BY DEF Places
<1>2. rust # <<>> /\ HasFloor(Top)
  BY <1>1, Going
<1>3. CASE rust' = Front(rust)
  BY <1>2, <1>3, PopHome
<1>4. CASE rust' = <<>>
  BY <1>4 DEF HomeInv, Homes, TopHome
<1>5. CASE rust' = At("next") /\ Top.kind = "program"
  <2>1. Homes(rust', frames') /\ Top'.kind = Top.kind
    BY <1>1, <1>5, AtHome DEF Top
  <2>2. QED
    BY <1>5, <2>1, HomeUnscoped
<1>6. QED
  BY <1>3, <1>4, <1>5 DEF Fails, Return

(* The exit action of the frame just above k is the first to be run.       *)
LEMMA FirstExit ==
  ASSUME frames \in Seq(FrameSet), NEW k \in Nat, k < Len(frames), frames[k + 1].exit # None
  PROVE  StackAfter(k) = frames[k + 1].exit
<1> DEFINE above == {i \in (k + 1)..Len(frames) : frames[i].exit # None}
<1>1. Len(frames) \in Nat
  OBVIOUS
<1>2. above \in SUBSET Nat /\ k + 1 \in above /\ \A i \in above : k + 1 <= i
  BY <1>1
<1> HIDE DEF above
<1>3. Min(above) \in above /\ Min(above) <= k + 1
  BY <1>2, MinIsLeast
<1>4. Min(above) = k + 1
  <2>1. Min(above) \in Nat /\ k + 1 <= Min(above)
    BY <1>2, <1>3
  <2>2. QED
    BY <1>3, <2>1
<1>5. QED
  BY <1>2, <1>4 DEF StackAfter, above

LEMMA HeldReturns ==
  ASSUME frames \in Seq(FrameSet), Top \in CallSet, Top.kind = "scoped", Held(Top, frames)
  PROVE  StackAfter(Top.floor) = Top.back
<1>1. Top.floor \in Nat /\ Top.back \in Names
  BY DEF CallSet
<1>2. Top.back # None
  BY <1>1, FrameLoopAssumption
<1>3. Top.floor < Len(frames) /\ frames[Top.floor + 1].exit = Top.back
  BY DEF Held
<1>4. QED
  BY <1>1, <1>2, <1>3, FirstExit

(* The handlers that run bodies.                                           *)
LEMMA HomeProgramStep ==
  ASSUME IInv, HomeInv, ProgramStep
  PROVE  HomeInv'
<1>1. /\ {"program"} \in SUBSET (Calls \cup {"filing"}) /\ {"next"} \in SUBSET Places
      /\ "value" \in Places /\ Drives({"program"}, {"next"}) /\ ApplyStep(At("value"))
      /\ frames' = frames
  BY DEF ProgramStep, Calls, Places
<1>2. frames \in Seq(FrameSet) /\ SameExits(frames, frames, Top.floor) /\ Top.kind = "program"
  BY <1>1, Going DEF SameExits
<1>3. /\ At("value") \in Seq(Entries) /\ At("value") # <<>> /\ Homes(At("value"), frames)
      /\ Last(At("value")).kind = "program"
  BY <1>1, <1>2, AtHome
<1>4. Settled(At("value"), frames')
  BY <1>1, <1>3 DEF Settled
<1>5. QED
  BY <1>1, <1>2, <1>3, <1>4, ApplyHome

LEMMA HomeApplied ==
  ASSUME IInv, HomeInv, Applied
  PROVE  HomeInv'
<1>1. /\ {"program", "apply"} \in SUBSET (Calls \cup {"filing"}) /\ {"value"} \in SUBSET Places
      /\ "body" \in Places /\ Drives({"program", "apply"}, {"value"}) /\ Drives(Calls, {"value"})
  BY DEF Applied, Drives, Calls, Places
<1>2. /\ frames \in Seq(FrameSet) /\ SameExits(frames, frames, Top.floor)
      /\ Top.kind \in {"program", "apply"}
  BY <1>1, Going DEF SameExits
<1>3. CASE TakePending(At("body"))
  <2>1. /\ At("body") \in Seq(Entries) /\ At("body") # <<>> /\ Homes(At("body"), frames)
        /\ Last(At("body")).kind = Top.kind /\ Below(At("body"), Len(frames))
    BY <1>1, <1>2, AtHome
  <2>2. Settled(At("body"), frames)
    BY <1>2, <2>1 DEF Settled
  <2>3. QED
    BY <1>3, <2>1, <2>2, TakePendingHome
<1>4. CASE Fails /\ frames' = frames
  BY <1>1, <1>2, <1>4, FailsHome
<1>5. QED
  BY <1>3, <1>4 DEF Applied

LEMMA HomeAppliedLast ==
  ASSUME IInv, HomeInv, AppliedLast
  PROVE  HomeInv'
<1>1. /\ {"filing"} \in SUBSET (Calls \cup {"filing"}) /\ {"value"} \in SUBSET Places
      /\ Drives({"filing"}, {"value"}) /\ rust' = Front(rust) /\ frames' = frames
  BY DEF AppliedLast, Places, Return
<1>2. frames \in Seq(FrameSet) /\ SameExits(frames, frames', Top.floor) /\ HasFloor(Top)
      /\ rust # <<>>
  BY <1>1, Going DEF SameExits
<1>3. QED
  BY <1>1, <1>2, PopHome

LEMMA HomeStarted ==
  ASSUME IInv, HomeInv, Started
  PROVE  HomeInv'
<1>1. /\ Calls \in SUBSET (Calls \cup {"filing"}) /\ {"body", "push"} \in SUBSET Places
      /\ "loop" \in Places /\ Drives(Calls, {"body", "push"}) /\ answer = "ok"
      /\ rust' = At("loop") /\ frames' = frames
  BY DEF Started, Places
<1>2. /\ frames \in Seq(FrameSet) /\ SameExits(frames, frames, Top.floor)
      /\ Top.at \in {"body", "push"} /\ rust # <<>>
  BY <1>1, Going DEF SameExits
<1>3. /\ Homes(rust', frames') /\ Top'.kind = Top.kind /\ Top'.at = "loop"
      /\ Top'.floor = Top.floor /\ Top'.back = Top.back
  BY <1>1, <1>2, AtHome DEF Top
<1>4. ASSUME Top'.kind = "scoped" PROVE Held(Top', frames')
  BY <1>1, <1>2, <1>3, <1>4 DEF HomeInv, TopHome, Held
<1>5. TopHome'
  BY <1>3, <1>4 DEF TopHome
<1>6. QED
  BY <1>3, <1>5 DEF HomeInv

LEMMA HomeNotStarted ==
  ASSUME IInv, HomeInv, NotStarted
  PROVE  HomeInv'
<1>1. /\ Calls \in SUBSET (Calls \cup {"filing"}) /\ {"body"} \in SUBSET Places
      /\ Drives(Calls, {"body"}) /\ Fails
      /\ (frames' = frames \/ Unwind(Top.floor) \/ frames' = SubSeq(frames, 1, Top.floor))
  BY DEF NotStarted, Places
<1>2. /\ frames \in Seq(FrameSet) /\ Top.floor \in Nat /\ Top.floor <= Len(frames)
      /\ Len(frames) \in Nat
  BY <1>1, Going
<1>3. frames' \in Seq(FrameSet) /\ SameExits(frames, frames', Top.floor)
  <2>1. CASE frames' = frames
    BY <1>2, <2>1 DEF SameExits
  <2>2. CASE frames' = SubSeq(frames, 1, Top.floor)
    BY <1>2, <2>2, FirstFrames DEF SameExits
  <2>3. Unwind(Top.floor) => frames' = SubSeq(frames, 1, Top.floor)
    BY <1>2 DEF Unwind
  <2>4. QED
    BY <1>1, <2>1, <2>2, <2>3
<1>4. QED
  BY <1>1, <1>3, FailsHome

LEMMA HomeFrameStep ==
  ASSUME IInv, HomeInv, FrameStep
  PROVE  HomeInv'
<1>1. /\ Calls \in SUBSET (Calls \cup {"filing"}) /\ {"loop"} \in SUBSET Places
      /\ "step" \in Places
      /\ Drives(Calls, {"loop"}) /\ Len(frames) > Top.floor /\ Last(frames).left > 0
      /\ frames' = [frames EXCEPT ![Len(frames)].left = @ - 1]
      /\ ApplyStep(At("step"))
  BY DEF FrameStep, Places
<1>2. /\ frames \in Seq(FrameSet) /\ Top.floor \in Nat /\ Len(frames) \in Nat
      /\ Top.at = "loop" /\ rust # <<>> /\ Top \in CallSet
  BY <1>1, Going
<1>3. /\ frames' \in Seq(FrameSet) /\ Len(frames') = Len(frames)
      /\ \A i \in 1..Len(frames) : frames'[i].exit = frames[i].exit
  BY <1>1, <1>2, SteppedFrames
<1>4. SameExits(frames, frames', Top.floor) /\ SameExits(frames, frames', Len(frames))
  BY <1>1, <1>2, <1>3 DEF SameExits
<1>5. /\ At("step") \in Seq(Entries) /\ At("step") # <<>> /\ Homes(At("step"), frames')
      /\ Last(At("step")).kind = Top.kind /\ Last(At("step")).at = "step"
      /\ Last(At("step")).floor = Top.floor /\ Last(At("step")).back = Top.back
  BY <1>1, <1>2, <1>3, <1>4, AtHome
<1>6. ASSUME Top.kind = "scoped" PROVE Held(Top, frames')
  <2>1. Held(Top, frames)
    BY <1>1, <1>2, <1>6 DEF HomeInv, TopHome
  <2>2. QED
    BY <1>1, <1>2, <1>3, <1>4, <2>1, HeldStays
<1>7. Settled(At("step"), frames')
  BY <1>5, <1>6 DEF Settled, Held
<1>8. QED
  BY <1>1, <1>3, <1>5, <1>7, ApplyHome

LEMMA HomeFrameDone ==
  ASSUME IInv, HomeInv, FrameDone
  PROVE  HomeInv'
<1> DEFINE k == Len(frames) - 1
<1>1. /\ Calls \in SUBSET (Calls \cup {"filing"}) /\ {"loop"} \in SUBSET Places
      /\ Drives(Calls, {"loop"}) /\ Len(frames) > Top.floor /\ Unwind(k)
      /\ UNCHANGED <<rust, answer>>
  BY DEF FrameDone, Places
<1>2. /\ frames \in Seq(FrameSet) /\ Top.floor \in Nat /\ Len(frames) \in Nat
      /\ Top.at = "loop" /\ rust # <<>> /\ Top \in CallSet /\ HasFloor(Top)
      /\ rust \in Seq(Entries) /\ current \in Names
  BY <1>1, Going DEF IInv, Rest
<1>3. k \in Nat /\ k <= Len(frames) /\ k >= Top.floor /\ k + 1 = Len(frames)
  BY <1>1, <1>2
<1> HIDE DEF k
<1>4. /\ frames' \in Seq(FrameSet) /\ Len(frames') = k
      /\ \A i \in 1..k : frames'[i] = frames[i]
  BY <1>1, <1>2, <1>3, UnwindFacts
<1>5. SameExits(frames, frames', Top.floor) /\ SameExits(frames, frames', k)
  BY <1>2, <1>3, <1>4 DEF SameExits
<1>6. Homes(rust', frames')
  BY <1>1, <1>2, <1>4, <1>5, HomesList DEF HomeInv, Top
<1>7. ASSUME Top.kind = "scoped"
      PROVE  Held(Top, frames') \/ (Len(frames') = Top.floor /\ current' = Top.back)
  <2>1. Held(Top, frames)
    BY <1>1, <1>2, <1>7 DEF HomeInv, TopHome
  <2>2. CASE Top.floor < k
    BY <1>2, <1>3, <1>4, <1>5, <2>1, <2>2, HeldStays
  <2>3. CASE Top.floor = k
    <3>1. current' = StackAfter(k)
      BY <1>1 DEF Unwind
    <3>2. QED
      BY <1>2, <1>4, <1>7, <2>1, <2>3, <3>1, HeldReturns
  <2>4. QED
    BY <1>2, <1>3, <2>2, <2>3
<1>8. Top' = Top
  BY <1>1 DEF Top
<1>9. TopHome'
  BY <1>2, <1>7, <1>8 DEF TopHome
<1>10. QED
  BY <1>6, <1>9 DEF HomeInv

LEMMA HomeStepped ==
  ASSUME IInv, HomeInv, Stepped
  PROVE  HomeInv'
<1>1. /\ Calls \in SUBSET (Calls \cup {"filing"}) /\ {"step"} \in SUBSET Places
      /\ "push" \in Places /\ Drives(Calls, {"step"}) /\ TakePending(At("push"))
  BY DEF Stepped, Places
<1>2. /\ frames \in Seq(FrameSet) /\ SameExits(frames, frames, Top.floor)
      /\ Top.at = "step" /\ rust # <<>>
  BY <1>1, Going DEF SameExits
<1>3. /\ At("push") \in Seq(Entries) /\ At("push") # <<>> /\ Homes(At("push"), frames)
      /\ Last(At("push")).kind = Top.kind /\ Last(At("push")).at = "push"
      /\ Last(At("push")).floor = Top.floor /\ Last(At("push")).back = Top.back
      /\ Below(At("push"), Len(frames))
  BY <1>1, <1>2, AtHome
<1>4. Top.kind = "scoped" => Held(Top, frames)
  BY <1>2 DEF HomeInv, TopHome
<1>5. Settled(At("push"), frames)
  BY <1>3, <1>4 DEF Settled, Held
<1>6. QED
  BY <1>1, <1>3, <1>5, TakePendingHome

LEMMA HomeStepFailed ==
  ASSUME IInv, HomeInv, StepFailed
  PROVE  HomeInv'
<1>1. /\ Calls \in SUBSET (Calls \cup {"filing"}) /\ {"step", "push"} \in SUBSET Places
      /\ Drives(Calls, {"step", "push"}) /\ Fails /\ Unwind(Top.floor)
  BY DEF StepFailed, Places
<1>2. /\ frames \in Seq(FrameSet) /\ Top.floor \in Nat /\ Top.floor <= Len(frames)
      /\ Len(frames) \in Nat /\ current \in Names
  BY <1>1, Going DEF IInv, Rest
<1>3. frames' \in Seq(FrameSet) /\ SameExits(frames, frames', Top.floor)
  BY <1>1, <1>2, UnwindFacts DEF SameExits
<1>4. QED
  BY <1>1, <1>3, FailsHome

LEMMA HomeLoopEnds ==
  ASSUME IInv, HomeInv, LoopEnds
  PROVE  HomeInv'
<1>1. /\ Calls \in SUBSET (Calls \cup {"filing"}) /\ {"loop"} \in SUBSET Places
      /\ "next" \in Places /\ Drives(Calls, {"loop"}) /\ frames' = frames
  BY DEF LoopEnds, Places
<1>2. /\ frames \in Seq(FrameSet) /\ SameExits(frames, frames, Top.floor)
      /\ HasFloor(Top) /\ rust # <<>>
  BY <1>1, Going DEF SameExits
<1>3. CASE Top.kind = "program" /\ rust' = At("next")
  <2>1. Homes(rust', frames') /\ Top'.kind = "program"
    BY <1>1, <1>2, <1>3, AtHome DEF Top
  <2>2. QED
    BY <2>1, HomeUnscoped
<1>4. CASE rust' = Front(rust)
  BY <1>1, <1>2, <1>4, PopHome
<1>5. QED
  BY <1>3, <1>4 DEF LoopEnds, Return

(* Natives: nothing runs on top of one, so the list may only grow.         *)
LEMMA NativeSettled ==
  ASSUME IInv, HomeInv, Runs("native")
  PROVE  /\ Settled(rust, frames) /\ rust # <<>> /\ rust \in Seq(Entries)
         /\ frames \in Seq(FrameSet) /\ Len(frames) \in Nat /\ Below(rust, Len(frames))
         /\ Top.kind = "native" /\ ~HasFloor(Top) /\ shadow \in Nat
<1>1. /\ rust # <<>> /\ rust \in Seq(Entries) /\ Top.kind = "native" /\ ~HasFloor(Top)
      /\ ShadowIs(rust, Len(rust), shadow) /\ frames \in Seq(FrameSet) /\ Len(frames) \in Nat
  BY NativeFacts DEF Runs
<1>2. Settled(rust, frames)
  BY <1>1 DEF HomeInv, Settled, Top
<1>3. shadow \in Nat
  <2>1. Len(rust) \in Nat /\ Len(rust) <= Len(rust)
    BY <1>1
  <2>2. QED
    BY <1>1, <2>1, ShadowNat
<1>4. QED
  BY <1>1, <1>2, <1>3 DEF IInv, Fits

LEMMA HomeFiles ==
  ASSUME IInv, HomeInv, Files
  PROVE  HomeInv'
<1>1. Runs("native") /\ rust' = Append(Front(rust), Native(TRUE)) /\ frames' = frames
  BY DEF Files, Works
<1>2. /\ Native(TRUE) \in Entries /\ Native(TRUE).kind = "native" /\ ~HasFloor(Native(TRUE))
  BY DEF Entries, Natives, Native, HasFloor
<1>3. rust \in Seq(Entries) /\ rust # <<>> /\ Top.kind = "native" /\ Homes(rust, frames)
  BY <1>1, NativeSettled DEF Settled
<1>4. Homes(rust', frames')
  BY <1>1, <1>2, <1>3, HomesReplace DEF Top
<1>5. Top' = Native(TRUE)
  <2>1. Front(rust) \in Seq(Entries)
    BY <1>3, FrontFacts
  <2>2. QED
    BY <1>1, <1>2, <2>1, AppendFacts DEF Top
<1>6. QED
  BY <1>2, <1>4, <1>5, HomeUnscoped

LEMMA HomeNativeStays ==
  ASSUME IInv, HomeInv, Runs("native"), rust' = rust, frames' = frames
  PROVE  HomeInv'
  BY NativeSettled, SettledIsHome

LEMMA HomeNativeEnds ==
  ASSUME IInv, HomeInv, Runs("native"), rust' = Front(rust), frames' = frames
  PROVE  HomeInv'
<1>1. /\ rust # <<>> /\ frames \in Seq(FrameSet) /\ ~HasFloor(Top) /\ Len(frames) \in Nat
  BY NativeSettled
<1>2. SameExits(frames, frames', Len(frames))
  BY <1>1 DEF SameExits
<1>3. QED
  BY <1>1, <1>2, PopHome

LEMMA HomeEvalLambda ==
  ASSUME IInv, HomeInv, EvalLambda
  PROVE  HomeInv'
<1> DEFINE x == Call("eval", "body", Len(frames), None)
           c == Append(rust, x)
<1>1. Runs("native")
  BY DEF EvalLambda, Works
<1>2. PICK n \in Bodies : PushFrame(c, frames, shadow, n, None)
  BY DEF EvalLambda
<1>3. /\ Settled(rust, frames) /\ rust # <<>> /\ rust \in Seq(Entries)
      /\ frames \in Seq(FrameSet) /\ Len(frames) \in Nat /\ shadow \in Nat
      /\ Top.kind = "native" /\ "body" \in Places
  BY <1>1, NativeSettled DEF Places
<1>4. x \in Entries /\ x.kind = "eval" /\ HasFloor(x) /\ x.floor = Len(frames)
  BY <1>3 DEF Entries, CallSet, Call, HasFloor
<1> HIDE DEF x
<1>5. c \in Seq(Entries) /\ c # <<>> /\ Last(c) = x /\ Homes(c, frames)
  BY <1>3, <1>4, HomesPush, AppendFacts
<1>6. Settled(c, frames)
  BY <1>4, <1>5 DEF Settled
<1>7. Below(c, Len(frames))
  <2>1. Fits(c, frames, shadow)
    BY <1>1, <1>3, NativeFacts, CallBegins DEF IInv, Top, x
  <2>2. QED
    BY <2>1 DEF Fits
<1> HIDE DEF c
<1>8. QED
  BY <1>2, <1>3, <1>5, <1>6, <1>7, PushFrameHome

(* The frame of a call on another stack returns to the one it was made on. *)
LEMMA HomeScopedCall ==
  ASSUME IInv, HomeInv, ScopedCall
  PROVE  HomeInv'
<1> DEFINE x == Call("scoped", "body", Len(frames), current)
           c == Append(rust, x)
<1>1. Runs("native") /\ current \in Names
  BY DEF ScopedCall, Works, IInv, Rest
<1>2. PICK n \in Bodies : PushFrame(c, frames, shadow, n, current)
  BY DEF ScopedCall
<1>3. /\ Settled(rust, frames) /\ rust # <<>> /\ rust \in Seq(Entries)
      /\ frames \in Seq(FrameSet) /\ Len(frames) \in Nat
      /\ Below(rust, Len(frames)) /\ "body" \in Places
  BY <1>1, NativeSettled DEF Places
<1>4. /\ x \in Entries /\ x.kind = "scoped" /\ HasFloor(x) /\ x.floor = Len(frames)
      /\ x.at = "body" /\ x.back = current
  BY <1>1, <1>3 DEF Entries, CallSet, Call, HasFloor
<1> HIDE DEF x
<1>5. c \in Seq(Entries) /\ c # <<>> /\ Last(c) = x /\ Homes(c, frames)
  BY <1>3, <1>4, HomesPush, AppendFacts
<1> HIDE DEF c
<1>6. current # None
  BY <1>1, FrameLoopAssumption
<1>7. CASE answer' = "err" /\ rust' = c /\ frames' = frames
  <2>1. Top' = x
    BY <1>5, <1>7 DEF Top
  <2>2. TopHome'
    BY <1>4, <1>7, <2>1 DEF TopHome
  <2>3. QED
    BY <1>5, <1>7, <2>2 DEF HomeInv
<1>8. CASE frames' = Append(frames, Frame(n, current)) /\ answer' = "ok" /\ rust' = c
  <2>1. Frame(n, current) \in FrameSet /\ Frame(n, current).exit = current
    BY <1>1 DEF Frame, FrameSet
  <2>2. /\ frames' \in Seq(FrameSet) /\ Len(frames') = Len(frames) + 1
        /\ frames'[Len(frames) + 1] = Frame(n, current)
        /\ \A i \in 1..Len(frames) : frames'[i] = frames[i]
    BY <1>3, <1>8, <2>1, AppendFacts
  <2>3. SameExits(frames, frames', Len(frames))
    BY <1>3, <2>2 DEF SameExits
  <2>4. Homes(c, frames')
    BY <1>3, <1>4, <1>5, <2>2, <2>3, HomesList
  <2>5. Held(x, frames')
    BY <1>3, <1>4, <2>1, <2>2 DEF Held
  <2>6. Top' = x
    BY <1>5, <1>8 DEF Top
  <2>7. TopHome'
    BY <1>4, <1>8, <2>5, <2>6 DEF TopHome
  <2>8. QED
    BY <1>8, <2>4, <2>7 DEF HomeInv
<1>9. QED
  BY <1>2, <1>6, <1>7, <1>8 DEF PushFrame

LEMMA HomeApply ==
  ASSUME IInv, HomeInv, Apply
  PROVE  HomeInv'
<1> DEFINE x == Call("apply", "value", Len(frames), None)
           c == Append(rust, x)
<1>1. Runs("native") /\ ApplyStep(c) /\ frames' = frames
  BY DEF Apply, Works
<1>2. /\ Settled(rust, frames) /\ rust # <<>> /\ rust \in Seq(Entries)
      /\ frames \in Seq(FrameSet) /\ Len(frames) \in Nat
  BY <1>1, NativeSettled
<1>3. x \in Entries /\ x.kind = "apply" /\ x.floor = Len(frames)
  BY <1>2 DEF Entries, CallSet, Call, Places
<1> HIDE DEF x
<1>4. c \in Seq(Entries) /\ c # <<>> /\ Last(c) = x /\ Homes(c, frames)
  BY <1>2, <1>3, HomesPush, AppendFacts
<1>5. Settled(c, frames')
  BY <1>1, <1>3, <1>4 DEF Settled
<1> HIDE DEF c
<1>6. QED
  BY <1>1, <1>2, <1>4, <1>5, ApplyHome

(* Compiled bodies.                                                        *)
LEMMA CompiledSettled ==
  ASSUME IInv, HomeInv, Runs("compiled"), NEW x \in Entries, x.kind = "compiled",
         x.floor = Top.floor, NEW list \in Seq(FrameSet), SameExits(frames, list, Top.floor)
  PROVE  LET c == Append(Front(rust), x)
         IN  c \in Seq(Entries) /\ c # <<>> /\ Last(c) = x /\ Settled(c, list)
<1> DEFINE c == Append(Front(rust), x)
<1>1. /\ rust # <<>> /\ rust \in Seq(Entries) /\ Top.kind = "compiled" /\ HasFloor(Top)
      /\ frames \in Seq(FrameSet) /\ Homes(rust, frames)
  BY CompiledFacts DEF HomeInv
<1>2. Homes(rust, list)
  BY <1>1, HomesList DEF Top
<1>3. Homes(c, list)
  BY <1>1, <1>2, HomesReplace DEF Top
<1>4. c \in Seq(Entries) /\ c # <<>> /\ Last(c) = x
  <2>1. Front(rust) \in Seq(Entries)
    BY <1>1, FrontFacts
  <2>2. QED
    BY <2>1, AppendFacts
<1>5. Settled(c, list)
  BY <1>3, <1>4 DEF Settled
<1>6. QED
  BY <1>4, <1>5

LEMMA HomeOnward ==
  ASSUME IInv, HomeInv, Inlined \/ Residual
  PROVE  HomeInv'
<1>1. Runs("compiled") /\ frames' = frames
  BY DEF Inlined, Residual
<1>2. /\ Top \in CompiledSet /\ Top.floor \in Nat /\ Top.floor <= Len(frames)
      /\ frames \in Seq(FrameSet)
  BY <1>1, CompiledFacts
<1>3. PICK x \in Entries : /\ rust' = Append(Front(rust), x) /\ x.kind = "compiled"
                           /\ x.floor = Top.floor
  <2>1. CASE Inlined
    <3>1. Top.left > 0 /\ rust' = Append(Front(rust), [Top EXCEPT !.left = @ - 1])
      BY <2>1 DEF Inlined
    <3>2. QED
      BY <1>2, <3>1, OneLess DEF IsCompiled
  <2>2. CASE Residual
    <3>1. rust' = Append(Front(rust), [Top EXCEPT !.tail = FALSE])
      BY <2>2 DEF Residual
    <3>2. /\ [Top EXCEPT !.tail = FALSE] \in CompiledSet
          /\ [Top EXCEPT !.tail = FALSE].kind = "compiled"
          /\ [Top EXCEPT !.tail = FALSE].floor = Top.floor
      BY <1>2 DEF CompiledSet
    <3>3. QED
      BY <3>1, <3>2 DEF Entries
  <2>3. QED
    BY <2>1, <2>2
<1>4. SameExits(frames, frames', Top.floor)
  BY <1>1, <1>2 DEF SameExits
<1>5. Settled(rust', frames')
  BY <1>1, <1>2, <1>3, <1>4, CompiledSettled
<1>6. QED
  BY <1>5, SettledIsHome

LEMMA HomeApplies ==
  ASSUME IInv, HomeInv, Applies
  PROVE  HomeInv'
<1> DEFINE x == [Top EXCEPT !.left = @ - 1]
           calls == Append(Front(rust), x)
           kind == IF LastValue THEN "filing" ELSE "apply"
           y == Call(kind, "value", Len(frames'), None)
<1>1. /\ Runs("compiled") /\ Top.left > 0
      /\ shadow' = (IF shadow = 0 THEN Len(frames) + 1 ELSE shadow)
      /\ frames' = (IF shadow = 0 THEN Append(frames, Frame(Top.left - 1, None))
                    ELSE [frames EXCEPT ![shadow].left = Top.left - 1])
      /\ ApplyStep(Append(calls, y)) \/ rust' = calls
  BY DEF Applies
<1>2. /\ frames' \in Seq(FrameSet) /\ Len(frames') >= Len(frames)
      /\ \A i \in 1..Top.floor : frames'[i] = frames[i]
  BY <1>1, Framed
<1>3. /\ Top \in CompiledSet /\ Top.floor \in Nat /\ Top.floor <= Len(frames)
      /\ Len(frames) \in Nat /\ Top.kind = "compiled"
  BY <1>1, CompiledFacts
<1>4. x \in Entries /\ x.kind = "compiled" /\ x.floor = Top.floor
  BY <1>1, <1>3, OneLess
<1>5. SameExits(frames, frames', Top.floor)
  BY <1>2, <1>3 DEF SameExits
<1> HIDE DEF x
<1>6. calls \in Seq(Entries) /\ calls # <<>> /\ Settled(calls, frames')
  BY <1>1, <1>2, <1>4, <1>5, CompiledSettled
<1> HIDE DEF calls
<1>7. CASE rust' = calls
  BY <1>6, <1>7, SettledIsHome
<1>8. CASE ApplyStep(Append(calls, y))
  <2>1. kind \in {"apply", "filing"} /\ Len(frames') \in Nat
    BY <1>2
  <2> HIDE DEF kind
  <2>2. y \in Entries /\ y.kind = kind /\ y.floor = Len(frames')
    BY <2>1 DEF Entries, CallSet, Call, Places
  <2> HIDE DEF y
  <2>3. /\ Append(calls, y) \in Seq(Entries) /\ Append(calls, y) # <<>>
        /\ Last(Append(calls, y)) = y /\ Homes(Append(calls, y), frames')
    BY <1>2, <1>6, <2>2, HomesPush, AppendFacts
  <2>4. Settled(Append(calls, y), frames')
    BY <2>1, <2>2, <2>3 DEF Settled
  <2>5. QED
    BY <1>2, <1>8, <2>3, <2>4, ApplyHome
<1>9. QED
  BY <1>1, <1>7, <1>8

LEMMA HomeGoesOn ==
  ASSUME IInv, HomeInv, GoesOn
  PROVE  HomeInv'
<1>1. Runs("compiled") /\ frames' = frames /\ rust' = rust
  BY DEF GoesOn
<1>2. Top'.kind = "compiled"
  BY <1>1 DEF Runs, Top
<1>3. QED
  BY <1>1, <1>2, HomeUnscoped DEF HomeInv

LEMMA HomeCompiledEnds ==
  ASSUME IInv, HomeInv, CompiledFails \/ CompiledEnds
  PROVE  HomeInv'
<1>1. Runs("compiled")
  BY DEF CompiledFails, CompiledEnds
<1>2. /\ rust # <<>> /\ rust \in Seq(Entries) /\ HasFloor(Top) /\ Top \in CompiledSet
      /\ Top.floor \in Nat /\ Top.floor <= Len(frames) /\ Len(frames) \in Nat
      /\ frames \in Seq(FrameSet) /\ Homes(rust, frames) /\ WellNested(rust)
  BY <1>1, CompiledFacts DEF HomeInv, IInv, Fits
<1>3. CASE rust' = Front(rust) /\ frames' = WithoutShadow
  <2>1. /\ frames' \in Seq(FrameSet) /\ Len(frames') = Top.floor
        /\ \A i \in 1..Top.floor : frames'[i] = frames[i]
    BY <1>1, <1>3, Unshadowed
  <2>2. SameExits(frames, frames', Top.floor)
    BY <1>2, <2>1 DEF SameExits
  <2>3. QED
    BY <1>2, <1>3, <2>1, <2>2, PopHome
<1>4. CASE pending # <<>> /\ PushFrame(Front(rust), frames, Top.outer, Head(pending), None)
  <2>1. Front(rust) \in Seq(Entries) /\ Settled(Front(rust), frames)
    BY <1>2, HomesPop, FrontFacts
  <2>2. Fits(Front(rust), frames, Top.outer)
    BY <1>1, <1>2, CompiledFacts, FitsPop DEF IInv, Top
  <2>3. Front(rust) # <<>>
    <3>1. Len(rust) \in Nat /\ Len(rust) >= 1 /\ Top = rust[Len(rust)]
      BY <1>2, FrontFacts DEF Top
    <3>2. rust[1].kind = "program" /\ Top.kind = "compiled"
      BY <1>2 DEF WellNested, CompiledSet
    <3>3. Len(rust) > 1
      BY <3>1, <3>2
    <3>4. QED
      BY <1>2, <3>3, PopNests
  <2>4. Head(pending) \in Bodies /\ None \in Names \cup {None} /\ Top.outer \in Nat
    BY <1>2, <1>4 DEF IInv, RequestInv, CompiledSet
  <2>5. QED
    BY <1>2, <1>4, <2>1, <2>2, <2>3, <2>4, PushFrameHome DEF Fits
<1>5. QED
  BY <1>3, <1>4 DEF CompiledFails, CompiledEnds, Return

LEMMA HomeInitially ==
  ASSUME Init
  PROVE  HomeInv
<1>1. rust = <<Program>> /\ Program.kind = "program"
  BY DEF Init, Program, Call
<1>2. Len(rust) - 1 = 0 /\ Top = Program
  BY <1>1 DEF Top, Last
<1>3. \A i \in 1..(Len(rust) - 1) : FALSE
  <2>1. \A i \in 1..0 : FALSE
    OBVIOUS
  <2>2. QED
    BY <1>2, <2>1, Zenon
<1>4. QED
  BY <1>1, <1>2, <1>3 DEF HomeInv, Homes, TopHome

LEMMA HomeStutter ==
  ASSUME HomeInv, UNCHANGED vars
  PROVE  HomeInv'
  BY DEF HomeInv, TopHome, Top, vars

LEMMA HomeEveryStep ==
  ASSUME IInv, HomeInv, [Next]_vars
  PROVE  HomeInv'
<1>1. CASE ProgramStep  BY <1>1, HomeProgramStep
<1>2. CASE Applied  BY <1>2, HomeApplied
<1>3. CASE AppliedLast  BY <1>3, HomeAppliedLast
<1>4. CASE Started  BY <1>4, HomeStarted
<1>5. CASE NotStarted  BY <1>5, HomeNotStarted
<1>6. CASE FrameStep  BY <1>6, HomeFrameStep
<1>7. CASE FrameDone  BY <1>7, HomeFrameDone
<1>8. CASE Stepped  BY <1>8, HomeStepped
<1>9. CASE StepFailed  BY <1>9, HomeStepFailed
<1>10. CASE LoopEnds  BY <1>10, HomeLoopEnds
<1>11. CASE Files  BY <1>11, HomeFiles
<1>12. CASE Switches \/ RequestsExit \/ CallRefused
  BY <1>12, HomeNativeStays DEF Switches, RequestsExit, CallRefused, Works
<1>13. CASE EvalLambda  BY <1>13, HomeEvalLambda
<1>14. CASE ScopedCall  BY <1>14, HomeScopedCall
<1>15. CASE Apply  BY <1>15, HomeApply
<1>16. CASE Returns \/ NativeFails
  BY <1>16, HomeNativeEnds DEF Returns, NativeFails, Return
<1>17. CASE Inlined \/ Residual  BY <1>17, HomeOnward
<1>18. CASE Applies  BY <1>18, HomeApplies
<1>19. CASE GoesOn  BY <1>19, HomeGoesOn
<1>20. CASE CompiledFails \/ CompiledEnds  BY <1>20, HomeCompiledEnds
<1>21. CASE UNCHANGED vars  BY <1>21, HomeStutter
<1>22. QED
  BY <1>1, <1>2, <1>3, <1>4, <1>5, <1>6, <1>7, <1>8, <1>9, <1>10, <1>11, <1>12, <1>13,
     <1>14, <1>15, <1>16, <1>17, <1>18, <1>19, <1>20, <1>21 DEF Next

(* Only a call whose body ran, failed or was refused returns.              *)
LEMMA ScopedEnds ==
  ASSUME IInv, HomeInv, [Next]_vars, Runs("scoped"), Len(rust') < Len(rust)
  PROVE  current' = Top.back
<1>1. rust # <<>> /\ Top.kind = "scoped" /\ rust \in Seq(Entries) /\ Len(rust) \in Nat
      /\ frames \in Seq(FrameSet) /\ Below(rust, Len(frames)) /\ Len(frames) \in Nat
  BY DEF Runs, IInv, Fits, WellNested
<1>2. Top \in CallSet /\ HasFloor(Top) /\ Top.floor \in Nat /\ Top.floor <= Len(frames)
  <2>1. Top \in Entries /\ Top = rust[Len(rust)] /\ Len(rust) >= 1
    BY <1>1, FrontFacts DEF Top
  <2>2. Top \in CallSet /\ HasFloor(Top) /\ Top.floor \in Nat
    BY <1>1, <2>1, EntryKinds DEF Calls, HasFloor
  <2>3. QED
    BY <1>1, <2>1, <2>2 DEF Below
<1>3. /\ Calls \in SUBSET (Calls \cup {"filing"}) /\ {"loop"} \in SUBSET Places
      /\ {"step"} \in SUBSET Places /\ {"body", "push"} \in SUBSET Places
      /\ "loop" \in Places /\ "step" \in Places /\ "push" \in Places
  BY DEF Places
<1>4. CASE NotStarted
  BY <1>1, <1>4 DEF NotStarted
<1>5. CASE StepFailed
  <2>1. Top.at \in {"step", "push"} /\ Unwind(Top.floor)
    BY <1>5 DEF StepFailed, Drives
  <2>2. Held(Top, frames)
    BY <1>1, <2>1 DEF HomeInv, TopHome
  <2>3. QED
    BY <1>1, <1>2, <2>1, <2>2, HeldReturns DEF Unwind
<1>6. CASE LoopEnds
  <2>1. Top.at = "loop" /\ Len(frames) <= Top.floor /\ current' = current
    BY <1>6 DEF LoopEnds, Drives
  <2>2. ~Held(Top, frames)
    BY <1>1, <1>2, <2>1 DEF Held
  <2>3. QED
    BY <1>1, <2>1, <2>2 DEF HomeInv, TopHome
<1>7. CASE Started \/ FrameStep \/ Stepped
  <2>1. \E place \in {"loop", "step", "push"} :
          rust' = At(place) \/ \E x : rust' = Append(At(place), x)
    BY <1>7 DEF Started, FrameStep, Stepped, ApplyStep, TakePending, PushFrame
  <2>2. Drives(Calls, {"body", "push"}) \/ Drives(Calls, {"loop"}) \/ Drives(Calls, {"step"})
    BY <1>7 DEF Started, FrameStep, Stepped
  <2>3. QED
    BY <1>1, <1>3, <2>1, <2>2, AtLength
<1>8. CASE FrameDone \/ UNCHANGED vars
  BY <1>1, <1>8 DEF FrameDone, vars
<1>9. CASE ProgramStep \/ Applied \/ AppliedLast
  BY <1>1, <1>9 DEF ProgramStep, Applied, AppliedLast, Drives
<1>10. CASE \/ Files \/ Switches \/ RequestsExit \/ CallRefused \/ EvalLambda \/ ScopedCall
            \/ Apply \/ Returns \/ NativeFails
  BY <1>1, <1>10 DEF Files, Switches, RequestsExit, CallRefused, EvalLambda, ScopedCall, Apply,
                     Returns, NativeFails, Works, Runs
<1>11. CASE Inlined \/ Residual \/ Applies \/ GoesOn \/ CompiledFails \/ CompiledEnds
  BY <1>1, <1>11 DEF Inlined, Residual, Applies, GoesOn, CompiledFails, CompiledEnds, Runs
<1>12. QED
  BY <1>4, <1>5, <1>6, <1>7, <1>8, <1>9, <1>10, <1>11 DEF Next

(* A call on another stack ends on the stack it came from, whether its     *)

(* body ran, failed at any depth, or was refused before it had a frame.    *)
THEOREM AlwaysBackAgain == Spec => BackAgain
<1>1. Init => HomeInv
  BY HomeInitially
<1>2. IInv /\ HomeInv /\ [Next]_vars => HomeInv'
  BY HomeEveryStep
<1>3. ASSUME IInv, HomeInv, [Next]_vars, Runs("scoped"), Len(rust') < Len(rust)
      PROVE  current' = Top.back
  BY <1>3, ScopedEnds
<1>4. IInv /\ HomeInv /\ [Next]_vars =>
        [Runs("scoped") /\ Len(rust') < Len(rust) => current' = Top.back]_vars
  BY <1>3
<1>5. QED
  BY <1>1, <1>2, <1>4, Inductive, PTL DEF Spec, BackAgain
=============================================================================
