--------------------------- MODULE Objects_proofs ---------------------------
(***************************************************************************)
(* Theorems about Readline, HashMap, SharedPtr, Signal and Octree, for every *)
(* prompt, commands and bounds, keys and hash, pointers, slots and depth,    *)
(* and about CamelliaCipher, SHA256 and PixelFormats, for every table, key,  *)
(* block and size.  Each is an instance whose variables are s1, s2, ..., as  *)
(* in MCObjects.                                                             *)
(***************************************************************************)
EXTENDS MCObjects, FiniteSetTheorems, SequenceTheorems, WellFoundedInduction, TLAPS
-----------------------------------------------------------------------------
(* Sequences over any set *)

LEMMA SeqGet ==
  ASSUME NEW S, NEW s \in Seq(S)
  PROVE  Len(s) \in Nat /\ DOMAIN s = 1 .. Len(s) /\ \A i \in 1 .. Len(s) : s[i] \in S
  OBVIOUS

LEMMA SeqSet ==
  ASSUME NEW S, NEW s \in Seq(S), NEW n \in 1 .. Len(s), NEW x \in S
  PROVE  /\ [s EXCEPT ![n] = x] \in Seq(S) /\ Len([s EXCEPT ![n] = x]) = Len(s)
         /\ \A i \in 1 .. Len(s) : [s EXCEPT ![n] = x][i] = IF i = n THEN x ELSE s[i]
  OBVIOUS

LEMMA SeqAdd ==
  ASSUME NEW S, NEW s \in Seq(S), NEW x \in S
  PROVE  /\ Append(s, x) \in Seq(S) /\ Len(Append(s, x)) = Len(s) + 1
         /\ Append(s, x)[Len(s) + 1] = x /\ \A i \in 1 .. Len(s) : Append(s, x)[i] = s[i]
  OBVIOUS

LEMMA SeqFront ==
  ASSUME NEW S, NEW s \in Seq(S), NEW n \in 0 .. Len(s)
  PROVE  /\ SubSeq(s, 1, n) \in Seq(S) /\ Len(SubSeq(s, 1, n)) = n
         /\ \A i \in 1 .. n : SubSeq(s, 1, n)[i] = s[i]
  OBVIOUS

LEMMA SeqCat ==
  ASSUME NEW S, NEW s \in Seq(S), NEW t \in Seq(S)
  PROVE  /\ s \o t \in Seq(S) /\ Len(s \o t) = Len(s) + Len(t)
         /\ \A i \in 1 .. Len(s) : (s \o t)[i] = s[i]
         /\ \A i \in 1 .. Len(t) : (s \o t)[Len(s) + i] = t[i]
  OBVIOUS

LEMMA SeqPart ==
  ASSUME NEW S, NEW s \in Seq(S), NEW a \in Nat, NEW n \in Nat, a + n <= Len(s)
  PROVE  /\ SubSeq(s, a + 1, a + n) \in Seq(S) /\ Len(SubSeq(s, a + 1, a + n)) = n
         /\ \A i \in 1 .. n : SubSeq(s, a + 1, a + n)[i] = s[a + i]
  OBVIOUS

LEMMA SeqSame ==
  ASSUME NEW S, NEW s \in Seq(S), NEW t \in Seq(S), Len(s) = Len(t),
         \A i \in 1 .. Len(s) : s[i] = t[i]
  PROVE  s = t
  OBVIOUS
-----------------------------------------------------------------------------
(* Signal: s1 is slots, s2 results, s3 frames *)

SigFrame == [it : Nat \ {0}, pc : {"loop", "returns"}]

\* The outermost emission has the results from slot `first` on: the others went
\* when that slot emitted.
SigFrom(first) ==
  LET lost == Len(s2) - (s3[1].it - first)
  IN /\ lost \in Nat
     /\ \A i \in DOMAIN s2 : s2[i].depth = 1 <=> i > lost
     /\ \A i \in DOMAIN s2 : i > lost => s2[i].slot = first + (i - lost) - 1
     /\ first = 1 \/ (first \in DOMAIN s1 /\ s1[first] = "emits")
     /\ Len(s3) > 1 => first = s3[1].it
     /\ s3[1].pc = "loop" => first < s3[1].it \/ s3[1].it = 1

SigTypes ==
  /\ s1 \in Seq({"returns", "connects", "emits"}) /\ s3 \in Seq(SigFrame)
  /\ s2 \in Seq([slot : Nat, depth : Nat \ {0}])
SigInv ==
  /\ SigTypes
  /\ \A d \in 1 .. Len(s3) - 1 : s3[d].pc = "returns"
  /\ Len(s3) > 0 => \E first \in 1 .. s3[1].it : SigFrom(first)

LEMMA SigElements ==
  ASSUME SigTypes
  PROVE  /\ Len(s1) \in Nat /\ DOMAIN s1 = 1 .. Len(s1)
         /\ Len(s2) \in Nat /\ DOMAIN s2 = 1 .. Len(s2)
         /\ Len(s3) \in Nat /\ DOMAIN s3 = 1 .. Len(s3)
         /\ \A d \in 1 .. Len(s3) : /\ s3[d] \in SigFrame /\ s3[d].it \in Nat \ {0}
                                   /\ s3[d].pc \in {"loop", "returns"}
                                   /\ s3[d] = [it |-> s3[d].it, pc |-> s3[d].pc]
<1>1. \A f \in SigFrame : /\ f.it \in Nat \ {0} /\ f.pc \in {"loop", "returns"}
                         /\ f = [it |-> f.it, pc |-> f.pc]
  BY DEF SigFrame
<1> HIDE DEF SigFrame
<1>2. \A d \in 1 .. Len(s3) : s3[d] \in SigFrame
  BY SeqGet DEF SigTypes
<1>3. /\ Len(s1) \in Nat /\ DOMAIN s1 = 1 .. Len(s1)
      /\ Len(s2) \in Nat /\ DOMAIN s2 = 1 .. Len(s2)
      /\ Len(s3) \in Nat /\ DOMAIN s3 = 1 .. Len(s3)
  BY SeqGet DEF SigTypes
<1> QED BY <1>1, <1>2, <1>3

LEMMA SigSound == SigInv => Sig!ResultsInOrder
<1> SUFFICES ASSUME SigInv, Len(s3) = 1, s3[1].pc = "loop", s3[1].it > 1
             PROVE  \E first \in 1 .. s3[1].it - 1 :
                      LET lost == Len(s2) - (s3[1].it - first)
                      IN /\ Sig!Outer = lost + 1 .. Len(s2)
                         /\ \A i \in Sig!Outer : s2[i].slot = first + (i - lost) - 1
                         /\ first = 1 \/ s1[first] = "emits"
  BY DEF Sig!ResultsInOrder, Sig!Top, Sig!Frame
<1>1. PICK first \in 1 .. s3[1].it : SigFrom(first)
  BY DEF SigInv
<1>2. s3[1] \in SigFrame /\ s3[1].it \in Nat \ {0} /\ Len(s2) \in Nat /\ DOMAIN s2 = 1 .. Len(s2)
  BY SigElements DEF SigInv
<1>3. first \in 1 .. s3[1].it - 1
  <2>1. first < s3[1].it
    BY <1>1 DEF SigFrom
  <2> QED BY <1>1, <1>2, <2>1
<1> DEFINE lost == Len(s2) - (s3[1].it - first)
<1>4. lost \in Nat /\ \A i \in DOMAIN s2 : s2[i].depth = 1 <=> i > lost
  BY <1>1 DEF SigFrom
<1>5. \A i \in DOMAIN s2 : i > lost => s2[i].slot = first + (i - lost) - 1
  BY <1>1 DEF SigFrom
<1>6. first = 1 \/ s1[first] = "emits"
  BY <1>1 DEF SigFrom
<1> HIDE DEF lost
<1>7. Sig!Outer = lost + 1 .. Len(s2)
  BY <1>2, <1>4 DEF Sig!Outer
<1>8. ASSUME NEW i \in Sig!Outer  PROVE s2[i].slot = first + (i - lost) - 1
  <2>1. i \in DOMAIN s2 /\ i > lost
    BY <1>2, <1>4, <1>7
  <2> QED BY <1>5, <2>1
<1> QED BY <1>3, <1>6, <1>7, <1>8 DEF lost

LEMMA SigInit == Sig!Init => SigInv
  BY DEF Sig!Init, SigInv, SigTypes

\* Slots are appended, the results and the outermost frame stay.
LEMMA SigKeeps ==
  ASSUME SigInv, NEW first \in Nat, SigFrom(first), Len(s3') > 0, s2' = s2,
         s3'[1].it = s3[1].it, s3'[1].pc = "loop" => s3[1].pc = "loop",
         Len(s3') > 1 => first = s3[1].it,
         \A i \in DOMAIN s1 : i \in DOMAIN s1' /\ s1'[i] = s1[i]
  PROVE  SigFrom(first)'
  BY DEF SigFrom

LEMMA SigRuns ==
  ASSUME SigInv, Sig!SlotRuns  PROVE SigInv'
<1>0. /\ Len(s3) \in Nat /\ Len(s3) > 0 /\ s3[Len(s3)].pc = "loop"
      /\ s3[Len(s3)].it <= Len(s1) /\ s3[Len(s3)].it \in Nat \ {0} /\ Len(s1) \in Nat
      /\ s3 \in Seq(SigFrame) /\ SigTypes
  <2>1. SigTypes /\ s3 \in Seq(SigFrame)
    BY DEF SigInv, SigTypes
  <2>2. Len(s3) > 0 /\ s3[Len(s3)].pc = "loop" /\ s3[Len(s3)].it <= Len(s1)
    BY DEF Sig!SlotRuns, Sig!Top, Sig!Frame
  <2> QED BY <2>1, <2>2, SigElements
<1>1. PICK first \in 1 .. s3[1].it : SigFrom(first)
  BY <1>0 DEF SigInv
<1>2. s3[1].it \in Nat \ {0} /\ first \in Nat
  BY <1>0, <1>1, SigElements
<1> DEFINE fs == [s3 EXCEPT ![Len(s3)].pc = "returns"]
<1>3. /\ fs \in Seq(SigFrame) /\ Len(fs) = Len(s3) /\ fs[1].it = s3[1].it
      /\ \A d \in 1 .. Len(fs) : fs[d].pc = "returns"
  <2> DEFINE f == [s3[Len(s3)] EXCEPT !.pc = "returns"]
  <2>1. f \in SigFrame /\ f.it = s3[Len(s3)].it /\ f.pc = "returns"
    <3>1. s3[Len(s3)] \in SigFrame
      BY <1>0, SigElements
    <3> QED BY <3>1 DEF SigFrame
  <2>2. fs = [s3 EXCEPT ![Len(s3)] = f]
    OBVIOUS
  <2> HIDE DEF f, fs
  <2>3. /\ fs \in Seq(SigFrame) /\ Len(fs) = Len(s3)
        /\ \A d \in 1 .. Len(s3) : fs[d] = IF d = Len(s3) THEN f ELSE s3[d]
    BY <1>0, <2>1, <2>2, SeqSet
  <2>4. \A d \in 1 .. Len(fs) : fs[d].pc = "returns"
    BY <1>0, <2>1, <2>3 DEF SigInv
  <2>5. fs[1].it = s3[1].it
    BY <1>0, <2>1, <2>3
  <2> QED BY <2>3, <2>4, <2>5
<1>4. CASE /\ s3' = fs /\ s2' = s2 /\ s1' \in Seq({"returns", "connects", "emits"})
           /\ \A i \in DOMAIN s1 : i \in DOMAIN s1' /\ s1'[i] = s1[i]
  <2>1. SigFrom(first)'
    <3>1. Len(s3') > 0 /\ s3'[1].it = s3[1].it /\ s3'[1].pc = "returns" /\ Len(s3') = Len(s3)
      BY <1>0, <1>3, <1>4
    <3>2. Len(s3') > 1 => first = s3[1].it
      BY <1>1, <3>1 DEF SigFrom
    <3> QED BY <1>1, <1>2, <1>4, <3>1, <3>2, SigKeeps
  <2>2. SigTypes'
    BY <1>0, <1>3, <1>4 DEF SigTypes
  <2>3. \A d \in 1 .. Len(s3') - 1 : s3'[d].pc = "returns"
    BY <1>0, <1>3, <1>4
  <2>4. first \in 1 .. s3'[1].it
    BY <1>1, <1>3, <1>4
  <2> QED BY <2>1, <2>2, <2>3, <2>4 DEF SigInv
<1>5. CASE s1[s3[Len(s3)].it] = "connects" /\ Sig!connect("returns") /\ s3' = fs /\ s2' = s2
  <2>1. s1' = Append(s1, "returns") /\ s1 \in Seq({"returns", "connects", "emits"})
    BY <1>0, <1>5 DEF Sig!connect, SigTypes
  <2>2. s1' \in Seq({"returns", "connects", "emits"})
    BY <2>1
  <2>3. \A i \in DOMAIN s1 : i \in DOMAIN s1' /\ s1'[i] = s1[i]
    BY <2>1
  <2> QED BY <1>4, <1>5, <2>2, <2>3
<1>6. CASE /\ s1[s3[Len(s3)].it] = "emits" /\ s3' = Append(fs, [it |-> 1, pc |-> "loop"])
           /\ s2' = << >> /\ s1' = s1
  <2> DEFINE new == [it |-> 1, pc |-> "loop"]
             at == s3[1].it
  <2>0. at \in Nat \ {0} /\ new \in SigFrame
    BY <1>2 DEF SigFrame
  <2> HIDE DEF fs, new
  <2>1. /\ s3' \in Seq(SigFrame) /\ Len(s3') = Len(s3) + 1
        /\ \A d \in 1 .. Len(s3) : s3'[d] = fs[d]
    BY <1>0, <1>3, <1>6, <2>0, SeqAdd DEF new
  <2>2. s3'[1].it = at /\ s3'[1].pc = "returns" /\ Len(s3') > 1
    BY <1>0, <1>3, <2>1
  <2>3. at = 1 \/ (at \in DOMAIN s1 /\ s1[at] = "emits")
    <3>1. CASE Len(s3) = 1
      <4>1. at \in DOMAIN s1
        BY <1>0, <3>1, SigElements
      <4> QED BY <1>6, <3>1, <4>1
    <3>2. CASE Len(s3) > 1
      <4>1. first = at /\ (first = 1 \/ (first \in DOMAIN s1 /\ s1[first] = "emits"))
        BY <1>1, <3>2 DEF SigFrom
      <4> QED BY <4>1
    <3>3. Len(s3) = 1 \/ Len(s3) > 1
      <4>1. \A m \in Nat : m > 0 => m = 1 \/ m > 1
        OBVIOUS
      <4>2. Len(s3) \in Nat /\ Len(s3) > 0
        BY <1>0, Zenon
      <4> QED BY <4>1, <4>2, Zenon
    <3> QED BY <3>1, <3>2, <3>3, Zenon
  <2>4. SigFrom(at)'
    <3>1. Len(s2') = 0 /\ DOMAIN s2' = {} /\ s3'[1].it - at = 0
      BY <1>6, <2>0, <2>2
    <3> QED BY <1>6, <2>2, <2>3, <3>1 DEF SigFrom
  <2>5. SigTypes'
    BY <1>0, <1>6, <2>1 DEF SigTypes
  <2>6. \A d \in 1 .. Len(s3') - 1 : s3'[d].pc = "returns"
    BY <1>0, <1>3, <2>1
  <2>7. at \in 1 .. s3'[1].it
    BY <2>0, <2>2
  <2>8. \E x \in 1 .. s3'[1].it : SigFrom(x)'
    <3>1. PICK x : x = at
      OBVIOUS
    <3>2. SigFrom(x)'
      BY <2>4, <3>1, <1>6, <2>2 DEF SigFrom
    <3> QED BY <2>7, <3>1, <3>2
  <2> QED BY <2>5, <2>6, <2>8 DEF SigInv
<1>7. CASE s3' = fs /\ s2' = s2 /\ s1' = s1
  BY <1>0, <1>4, <1>7 DEF SigTypes
<1> QED BY <1>5, <1>6, <1>7 DEF Sig!SlotRuns, Sig!Top, Sig!Frame, Sig!Emission

LEMMA SigReturns ==
  ASSUME SigInv, Sig!SlotReturns  PROVE SigInv'
<1> DEFINE t == Len(s3)
           n == s3[t].it
<1>0. /\ t \in Nat /\ t > 0 /\ s3[t].pc = "returns" /\ n \in Nat \ {0}
      /\ s3 \in Seq(SigFrame) /\ SigTypes /\ s2 \in Seq([slot : Nat, depth : Nat \ {0}])
      /\ s2' = Append(s2, [slot |-> n, depth |-> t])
      /\ s3' = [s3 EXCEPT ![t] = [it |-> @.it + 1, pc |-> "loop"]]
      /\ s1' = s1
  <2>1. SigTypes /\ s3 \in Seq(SigFrame) /\ s2 \in Seq([slot : Nat, depth : Nat \ {0}])
    BY DEF SigInv, SigTypes
  <2>2. /\ t > 0 /\ s3[t].pc = "returns"
        /\ s2' = Append(s2, [slot |-> n, depth |-> t])
        /\ s3' = [s3 EXCEPT ![t] = [it |-> @.it + 1, pc |-> "loop"]]
        /\ s1' = s1
    BY DEF Sig!SlotReturns, Sig!Top, Sig!Frame
  <2> QED BY <2>1, <2>2, SigElements
<1>1. PICK first \in 1 .. s3[1].it : SigFrom(first)
  BY <1>0 DEF SigInv
<1>2. s3[1].it \in Nat \ {0} /\ first \in Nat \ {0}
  BY <1>0, <1>1, SigElements
<1>3. [it |-> n + 1, pc |-> "loop"] \in SigFrame /\ [slot |-> n, depth |-> t] \in [slot : Nat, depth : Nat \ {0}]
  BY <1>0 DEF SigFrame
<1> HIDE DEF n, t
<1>4. /\ s3' \in Seq(SigFrame) /\ Len(s3') = t
      /\ \A d \in 1 .. t : s3'[d] = IF d = t THEN [it |-> n + 1, pc |-> "loop"] ELSE s3[d]
  BY <1>0, <1>3, SeqSet DEF t, n
<1>5. /\ s2' \in Seq([slot : Nat, depth : Nat \ {0}]) /\ Len(s2) \in Nat
      /\ Len(s2') = Len(s2) + 1 /\ DOMAIN s2' = 1 .. Len(s2) + 1 /\ DOMAIN s2 = 1 .. Len(s2)
      /\ s2'[Len(s2) + 1] = [slot |-> n, depth |-> t] /\ \A i \in DOMAIN s2 : s2'[i] = s2[i]
  BY <1>0, <1>3, SeqGet, SeqAdd
<1>6. SigTypes'
  BY <1>0, <1>4, <1>5 DEF SigTypes
<1>7. \A d \in 1 .. Len(s3') - 1 : s3'[d].pc = "returns"
  <2>0. \A d \in 1 .. t - 1 : s3[d].pc = "returns"
    BY DEF SigInv, t
  <2>1. \A d \in 1 .. t - 1 : s3'[d] = s3[d] /\ s3[d].pc = "returns"
    BY <1>0, <1>4, <2>0
  <2> QED BY <1>4, <2>1
<1> DEFINE lost == Len(s2) - (s3[1].it - first)
<1>8. /\ lost \in Nat /\ \A i \in DOMAIN s2 : s2[i].depth = 1 <=> i > lost
      /\ \A i \in DOMAIN s2 : i > lost => s2[i].slot = first + (i - lost) - 1
      /\ first = 1 \/ (first \in DOMAIN s1 /\ s1[first] = "emits")
      /\ t > 1 => first = s3[1].it
  BY <1>1 DEF SigFrom, t
<1>9. CASE t = 1
  <2>1. s3'[1].it = n + 1 /\ n = s3[1].it
    BY <1>4, <1>9 DEF n
  <2>2. Len(s2') - (s3'[1].it - first) = lost
    <3> DEFINE i == s3[1].it
               j == s3'[1].it
               k == Len(s2)
               l == Len(s2')
    <3>1. l = k + 1 /\ k \in Nat /\ i \in Nat /\ first \in Nat
      BY <1>2, <1>5
    <3>2. j = i + 1
      BY <2>1
    <3>3. lost = k - (i - first)
      OBVIOUS
    <3> HIDE DEF i, j, k, l, lost
    <3>4. l - (j - first) = lost
      BY <3>1, <3>2, <3>3
    <3> QED BY <3>4 DEF i, j, l
  <2>3. \A i \in DOMAIN s2' : s2'[i].depth = 1 <=> i > lost
    <3> SUFFICES ASSUME NEW i \in DOMAIN s2'  PROVE s2'[i].depth = 1 <=> i > lost
      OBVIOUS
    <3>1. CASE i = Len(s2) + 1
      BY <1>1, <1>2, <1>5, <1>9, <3>1
    <3>2. CASE i # Len(s2) + 1
      <4>1. i \in DOMAIN s2
        BY <1>5, <3>2
      <4> QED BY <1>5, <1>8, <4>1
    <3> QED BY <3>1, <3>2
  <2>4. \A i \in DOMAIN s2' : i > lost => s2'[i].slot = first + (i - lost) - 1
    <3> SUFFICES ASSUME NEW i \in DOMAIN s2', i > lost
                 PROVE  s2'[i].slot = first + (i - lost) - 1
      OBVIOUS
    <3>1. CASE i = Len(s2) + 1
      <4>1. s2'[i].slot = n
        BY <1>5, <3>1
      <4>2. first + (i - lost) - 1 = n
        <5>1. first \in Nat /\ n \in Nat /\ Len(s2) \in Nat /\ lost = Len(s2) - (n - first)
          BY <1>0, <1>2, <1>5, <2>1
        <5> HIDE DEF lost
        <5> QED BY <3>1, <5>1
      <4> QED BY <4>1, <4>2
    <3>2. CASE i # Len(s2) + 1
      <4>1. i \in DOMAIN s2
        BY <1>5, <3>2
      <4> QED BY <1>5, <1>8, <4>1
    <3> QED BY <3>1, <3>2
  <2>5. ~(Len(s3') > 1) /\ first < s3'[1].it
    <3>1. first <= s3[1].it
      BY <1>1, <1>2
    <3>2. Len(s3') = 1 /\ s3'[1].it = s3[1].it + 1
      BY <1>4, <1>9, <2>1
    <3> QED BY <1>2, <3>1, <3>2
  <2> HIDE DEF lost
  <2>6. SigFrom(first)'
    BY <1>0, <1>8, <2>2, <2>3, <2>4, <2>5 DEF SigFrom
  <2>7. first \in 1 .. s3'[1].it
    BY <1>0, <1>2, <2>1, <2>5
  <2> QED BY <1>6, <1>7, <2>6, <2>7 DEF SigInv
<1>10. CASE t # 1
  <2>1. s3'[1] = s3[1] /\ t > 1 /\ first = s3[1].it
    BY <1>0, <1>4, <1>8, <1>10
  <2>2. Len(s2') - (s3'[1].it - first) = Len(s2) + 1 /\ lost = Len(s2)
    BY <1>2, <1>5, <2>1
  <2>3. \A i \in DOMAIN s2' : s2'[i].depth # 1 /\ ~(i > Len(s2) + 1)
    <3> SUFFICES ASSUME NEW i \in DOMAIN s2'  PROVE s2'[i].depth # 1 /\ ~(i > Len(s2) + 1)
      OBVIOUS
    <3>1. CASE i = Len(s2) + 1
      BY <1>5, <1>10, <3>1
    <3>2. CASE i # Len(s2) + 1
      <4>1. i \in DOMAIN s2
        BY <1>5, <3>2
      <4>2. ~(i > Len(s2)) /\ ~(i > Len(s2) + 1)
        BY <1>5, <4>1
      <4>3. s2[i].depth # 1
        BY <1>8, <2>2, <4>1, <4>2
      <4> QED BY <1>5, <4>1, <4>2, <4>3
    <3> QED BY <3>1, <3>2
  <2>4. s3[1].pc = "loop" => first < s3[1].it \/ s3[1].it = 1
    BY <1>1 DEF SigFrom
  <2>5. SigFrom(first)'
    <3>1. Len(s2') - (s3'[1].it - first) \in Nat
      BY <1>5, <2>2
    <3>2. \A i \in DOMAIN s2' : s2'[i].depth = 1 <=> i > Len(s2') - (s3'[1].it - first)
      BY <2>2, <2>3
    <3>3. \A i \in DOMAIN s2' : i > Len(s2') - (s3'[1].it - first)
                               => s2'[i].slot = first + (i - (Len(s2') - (s3'[1].it - first))) - 1
      BY <2>2, <2>3
    <3>4. /\ first = 1 \/ (first \in DOMAIN s1' /\ s1'[first] = "emits")
          /\ Len(s3') > 1 => first = s3'[1].it
          /\ s3'[1].pc = "loop" => first < s3'[1].it \/ s3'[1].it = 1
      BY <1>0, <1>8, <2>1, <2>4
    <3> QED BY <3>1, <3>2, <3>3, <3>4 DEF SigFrom
  <2>6. first \in 1 .. s3'[1].it
    BY <1>1, <2>1
  <2> QED BY <1>6, <1>7, <2>5, <2>6 DEF SigInv
<1> QED BY <1>9, <1>10

LEMMA SigReturn ==
  ASSUME SigInv, Sig!Return  PROVE SigInv'
<1> DEFINE t == Len(s3)
<1>0. /\ t \in Nat /\ t > 0 /\ s3 \in Seq(SigFrame) /\ SigTypes
      /\ s3' = SubSeq(s3, 1, t - 1) /\ s1' = s1 /\ s2' = s2
  <2>1. SigTypes /\ s3 \in Seq(SigFrame)
    BY DEF SigInv, SigTypes
  <2> QED BY <2>1, SigElements DEF Sig!Return, Sig!Top
<1>1. PICK first \in 1 .. s3[1].it : SigFrom(first)
  BY <1>0 DEF SigInv
<1>2. s3' \in Seq(SigFrame) /\ Len(s3') = t - 1 /\ \A d \in 1 .. t - 1 : s3'[d] = s3[d]
  <2>1. t - 1 \in 0 .. Len(s3)
    BY <1>0
  <2> QED BY <1>0, <2>1, SeqFront
<1>3. SigTypes'
  BY <1>0, <1>2 DEF SigTypes
<1>4. \A d \in 1 .. Len(s3') - 1 : s3'[d].pc = "returns"
  BY <1>0, <1>2 DEF SigInv
<1>5. CASE t = 1
  BY <1>2, <1>3, <1>4, <1>5 DEF SigInv
<1>6. CASE t # 1
  <2>1. t > 1 /\ s3'[1] = s3[1] /\ Len(s3') > 0
    BY <1>0, <1>2, <1>6
  <2>2. first = s3[1].it /\ first \in Nat
    BY <1>0, <1>1, <2>1, SigElements DEF SigFrom
  <2>3. SigFrom(first)'
    BY <1>0, <1>1, <2>1, <2>2, SigKeeps
  <2>4. first \in 1 .. s3'[1].it
    BY <1>1, <2>1
  <2> QED BY <1>3, <1>4, <2>3, <2>4 DEF SigInv
<1> QED BY <1>5, <1>6

LEMMA SigStep == SigInv /\ [Sig!Next]_(Sig!vars) => SigInv'
<1> SUFFICES ASSUME SigInv, [Sig!Next]_(Sig!vars)  PROVE SigInv'
  OBVIOUS
<1>1. CASE Sig!Connect
  <2>1. PICK s \in {"returns", "connects", "emits"} : s1' = Append(s1, s)
    BY <1>1 DEF Sig!Connect, Sig!connect
  <2>2. Len(s3) = 0 /\ s2' = s2 /\ s3' = s3
    BY <1>1 DEF Sig!Connect, Sig!Top
  <2>3. s1' \in Seq({"returns", "connects", "emits"})
    BY <2>1 DEF SigInv, SigTypes
  <2> QED BY <2>2, <2>3 DEF SigInv, SigTypes
<1>2. CASE Sig!Emit
  <2>1. Len(s3) = 0 /\ s2' = << >> /\ s3' = Append(s3, [it |-> 1, pc |-> "loop"]) /\ s1' = s1
    BY <1>2 DEF Sig!Emit, Sig!Top, Sig!Emission
  <2>2. s3' = << [it |-> 1, pc |-> "loop"] >>
    BY <2>1 DEF SigInv, SigTypes
  <2>3. s3' \in Seq(SigFrame) /\ Len(s3') = 1 /\ s3'[1].it = 1 /\ s3'[1].pc = "loop"
    BY <2>2 DEF SigFrame
  <2>4. SigFrom(1)'
    <3>1. Len(s2') = 0 /\ DOMAIN s2' = {}
      BY <2>1
    <3> QED BY <2>3, <3>1 DEF SigFrom
  <2>5. SigTypes'
    BY <2>1, <2>3 DEF SigInv, SigTypes
  <2> QED BY <2>3, <2>4, <2>5 DEF SigInv
<1>3. CASE UNCHANGED Sig!vars
  BY <1>3 DEF Sig!vars, SigInv, SigTypes, SigFrom
<1> QED BY <1>1, <1>2, <1>3, SigRuns, SigReturns, SigReturn DEF Sig!Next
-----------------------------------------------------------------------------
(* SharedPtr: s1 is ptr, s2 ref_counter, s3 t *)

PtrInv ==
  /\ s1 \in [Pointers -> Cells \cup {0}] /\ s2 \in [Cells -> Nat]
  /\ s3 \in [Cells -> {"none", "null", "object", "deleted"}]
  /\ \A c \in Cells :
       /\ s2[c] = Cardinality(Ptr!Holders(c))
       /\ IF Ptr!Holders(c) # {} THEN s3[c] \in {"null", "object"} ELSE s3[c] # "object"

\* The instance has a Cardinality of its own.
LEMMA PtrCardinality == \A S : Ptr!Cardinality(S) = Cardinality(S)
<1>1. \A S : Ptr!IsFiniteSet(S) = IsFiniteSet(S)
  BY DEF Ptr!IsFiniteSet, IsFiniteSet
<1> QED BY <1>1 DEF Ptr!Cardinality, Cardinality

LEMMA PtrCounted == PtrInv => Ptr!ObjectsAreCounted
  BY PtrCardinality DEF PtrInv, Ptr!ObjectsAreCounted

LEMMA PtrCounts ==
  ASSUME PtrInv, NEW c \in Cells
  PROVE  /\ IsFiniteSet(Ptr!Holders(c)) /\ s2[c] = Cardinality(Ptr!Holders(c))
         /\ s2[c] = 0 <=> Ptr!Holders(c) = {}
<1>1. IsFiniteSet(Ptr!Holders(c))
  BY ObjectsAssumption, FS_Subset DEF Ptr!Holders
<1>2. s2[c] = Cardinality(Ptr!Holders(c))
  BY DEF PtrInv
<1>3. Ptr!Holders(c) = {} <=> Cardinality(Ptr!Holders(c)) = 0
  BY <1>1, FS_EmptySet
<1> QED BY <1>1, <1>2, <1>3

\* One pointer gives up the cell it had, if any, and takes another one, if any.
LEMMA PtrMoves ==
  ASSUME PtrInv, NEW p \in Pointers, NEW d \in Cells \cup {0},
         s1' = [s1 EXCEPT ![p] = d],
         NEW c \in Cells
  PROVE  /\ Cardinality(Ptr!Holders(c)') =
              s2[c] + (IF c = d THEN 1 ELSE 0) - (IF c = s1[p] THEN 1 ELSE 0)
         /\ Ptr!Holders(c)' = {} <=> Cardinality(Ptr!Holders(c)') = 0
<1>1. Ptr!Holders(c)' = IF c = d THEN Ptr!Holders(c) \cup {p} ELSE Ptr!Holders(c) \ {p}
  BY DEF PtrInv, Ptr!Holders
<1>2. p \in Ptr!Holders(c) <=> c = s1[p]
  BY DEF Ptr!Holders
<1>3. /\ IsFiniteSet(Ptr!Holders(c)) /\ s2[c] = Cardinality(Ptr!Holders(c)) /\ s2[c] \in Nat
  BY PtrCounts DEF PtrInv
<1> DEFINE H == Ptr!Holders(c)
<1>8. Cardinality(Ptr!Holders(c)') =
        s2[c] + (IF c = d THEN 1 ELSE 0) - (IF c = s1[p] THEN 1 ELSE 0)
  <2>1. CASE c = d /\ c # s1[p]
    <3>0. p \notin H
      BY <1>2, <2>1
    <3>1. Cardinality(H \cup {p}) = s2[c] + 1
      BY <1>3, <3>0, FS_AddElement
    <3> QED BY <1>1, <1>3, <2>1, <3>1
  <2>2. CASE c = d /\ c = s1[p]
    <3>1. H \cup {p} = H
      BY <1>2, <2>2
    <3>2. Ptr!Holders(c)' = H
      BY <1>1, <2>2, <3>1
    <3>3. Cardinality(Ptr!Holders(c)') = s2[c] + 1 - 1
      BY <1>3, <3>2
    <3> QED BY <1>1, <2>2, <3>3
  <2>3. CASE c # d /\ c = s1[p]
    <3>0. p \in H
      BY <1>2, <2>3
    <3>1. Cardinality(H \ {p}) = s2[c] - 1
      BY <1>3, <3>0, FS_RemoveElement
    <3> QED BY <1>1, <1>3, <2>3, <3>1
  <2>4. CASE c # d /\ c # s1[p]
    <3>1. H \ {p} = H
      BY <1>2, <2>4
    <3> QED BY <1>1, <1>3, <2>4, <3>1
  <2> QED BY <2>1, <2>2, <2>3, <2>4
<1>9. IsFiniteSet(Ptr!Holders(c) \cup {p}) /\ IsFiniteSet(Ptr!Holders(c) \ {p})
  BY <1>3, FS_AddElement, FS_RemoveElement
<1>10. IsFiniteSet(Ptr!Holders(c)')
  BY <1>1, <1>9
<1>11. Cardinality(Ptr!Holders(c)') = 0 <=> Ptr!Holders(c)' = {}
  BY <1>10, FS_EmptySet
<1> QED BY <1>8, <1>11

\* A step that changes the place of one pointer keeps the counters.
PtrChange(p, d) ==
  /\ s1' = [s1 EXCEPT ![p] = d] /\ s2' \in [Cells -> Nat]
  /\ s3' \in [Cells -> {"none", "null", "object", "deleted"}]
  /\ \A c \in Cells :
       /\ s2'[c] = s2[c] + (IF c = d THEN 1 ELSE 0) - (IF c = s1[p] THEN 1 ELSE 0)
       /\ IF s2'[c] # 0 THEN s3'[c] \in {"null", "object"} ELSE s3'[c] # "object"

LEMMA PtrStep == PtrInv /\ [Ptr!Next]_(Ptr!vars) => PtrInv'
<1> SUFFICES ASSUME PtrInv, [Ptr!Next]_(Ptr!vars)  PROVE PtrInv'
  OBVIOUS
<1>0. /\ s1 \in [Pointers -> Cells \cup {0}] /\ s2 \in [Cells -> Nat]
      /\ s3 \in [Cells -> {"none", "null", "object", "deleted"}]
      /\ 0 \notin Cells
  BY ObjectsAssumption DEF PtrInv
<1>a. \A c \in Cells : IF s2[c] # 0 THEN s3[c] \in {"null", "object"} ELSE s3[c] # "object"
  <2> SUFFICES ASSUME NEW c \in Cells
               PROVE  IF s2[c] # 0 THEN s3[c] \in {"null", "object"} ELSE s3[c] # "object"
    OBVIOUS
  <2>1. s2[c] = 0 <=> Ptr!Holders(c) = {}
    BY PtrCounts
  <2> QED BY <2>1 DEF PtrInv
\* What a step has to show of each counter, the places of a pointer changed.
<1>b. ASSUME NEW p \in Pointers, NEW d \in Cells \cup {0}, PtrChange(p, d)  PROVE PtrInv'
  <2> USE DEF PtrChange
  <2>1. s1' \in [Pointers -> Cells \cup {0}]
    BY <1>0, <1>b
  <2>2. ASSUME NEW c \in Cells
        PROVE  /\ s2'[c] = Cardinality(Ptr!Holders(c)')
               /\ IF Ptr!Holders(c)' # {} THEN s3'[c] \in {"null", "object"}
                  ELSE s3'[c] # "object"
    <3>1. /\ Cardinality(Ptr!Holders(c)') =
               s2[c] + (IF c = d THEN 1 ELSE 0) - (IF c = s1[p] THEN 1 ELSE 0)
          /\ Ptr!Holders(c)' = {} <=> Cardinality(Ptr!Holders(c)') = 0
      BY <1>b, PtrMoves
    <3>2. s2'[c] = Cardinality(Ptr!Holders(c)')
      BY <1>b, <3>1
    <3>3. Ptr!Holders(c)' = {} <=> s2'[c] = 0
      BY <3>1, <3>2
    <3> QED BY <1>b, <3>2, <3>3
  <2> QED BY <1>b, <2>1, <2>2 DEF PtrInv
\* A cell a pointer has is counted.
<1>c. ASSUME NEW p \in Pointers, s1[p] # 0  PROVE s1[p] \in Cells /\ s2[s1[p]] \in Nat \ {0}
  <2>1. s1[p] \in Cells
    BY <1>0, <1>c
  <2>2. p \in Ptr!Holders(s1[p])
    BY DEF Ptr!Holders
  <2>3. s2[s1[p]] # 0
    BY <2>1, <2>2, PtrCounts
  <2> QED BY <1>0, <2>1, <2>3
<1>1. ASSUME NEW p \in Pointers, NEW o \in {"null", "object"}, Ptr!Construct(p, o)
      PROVE  PtrInv'
  <2>1. PICK c \in Cells : /\ s1[p] = 0 /\ s2[c] = 0 /\ s1' = [s1 EXCEPT ![p] = c]
                           /\ s2' = [s2 EXCEPT ![c] = 1] /\ s3' = [s3 EXCEPT ![c] = o]
    BY <1>1 DEF Ptr!Construct, Ptr!Alive
  <2>2. s2' \in [Cells -> Nat] /\ s3' \in [Cells -> {"none", "null", "object", "deleted"}]
    BY <1>0, <2>1
  <2>3. ASSUME NEW x \in Cells
        PROVE  /\ s2'[x] = s2[x] + (IF x = c THEN 1 ELSE 0) - (IF x = s1[p] THEN 1 ELSE 0)
               /\ IF s2'[x] # 0 THEN s3'[x] \in {"null", "object"} ELSE s3'[x] # "object"
    <3>1. CASE x = c
      BY <1>0, <2>1, <3>1
    <3>2. CASE x # c
      BY <1>0, <1>a, <2>1, <3>2
    <3> QED BY <3>1, <3>2
  <2>c. PtrChange(p, c)
    BY <2>1, <2>2, <2>3 DEF PtrChange
  <2> QED BY <1>b, <2>1, <2>c
<1>2. ASSUME NEW p \in Pointers, Ptr!Destroy(p)  PROVE PtrInv'
  <2> DEFINE old == s1[p]
  <2>1. /\ old \in Cells /\ s2[old] \in Nat \ {0} /\ s1' = [s1 EXCEPT ![p] = 0]
        /\ s2' = [s2 EXCEPT ![old] = @ - 1]
        /\ s3' = IF s2[old] = 1 /\ s3[old] # "null" THEN [s3 EXCEPT ![old] = "deleted"] ELSE s3
    BY <1>c, <1>2 DEF Ptr!Destroy, Ptr!Alive, Ptr!Dropped, Ptr!Deleted
  <2>2. s2' \in [Cells -> Nat]
    BY <1>0, <2>1
  <2>3. s3' \in [Cells -> {"none", "null", "object", "deleted"}]
    BY <1>0, <2>1
  <2>4. ASSUME NEW x \in Cells
        PROVE  /\ s2'[x] = s2[x] + (IF x = 0 THEN 1 ELSE 0) - (IF x = old THEN 1 ELSE 0)
               /\ IF s2'[x] # 0 THEN s3'[x] \in {"null", "object"} ELSE s3'[x] # "object"
    <3> HIDE DEF old
    <3>1. CASE x = old
      <4>1. s2'[x] = s2[x] - 1
        BY <1>0, <2>1, <3>1
      <4>2. CASE s2[old] = 1
        BY <1>0, <1>a, <2>1, <3>1, <4>1, <4>2
      <4>3. CASE s2[old] # 1
        BY <1>0, <1>a, <2>1, <3>1, <4>1, <4>3
      <4> QED BY <4>2, <4>3
    <3>2. CASE x # old
      <4>1. s2'[x] = s2[x] /\ s3'[x] = s3[x]
        BY <1>0, <2>1, <3>2
      <4> QED BY <1>0, <1>a, <3>2, <4>1
    <3> QED BY <3>1, <3>2
  <2>c. PtrChange(p, 0)
    BY <2>1, <2>2, <2>3, <2>4 DEF PtrChange
  <2> QED BY <1>b, <2>1, <2>c
<1>3. ASSUME NEW p \in Pointers, NEW s \in Pointers, Ptr!Copy(p, s)  PROVE PtrInv'
  <2> DEFINE new == s1[s]
  <2>1. /\ s1[p] = 0 /\ new \in Cells /\ s2[new] \in Nat \ {0} /\ s1' = [s1 EXCEPT ![p] = new]
        /\ s2' = [s2 EXCEPT ![new] = @ + 1] /\ s3' = s3
    BY <1>c, <1>3 DEF Ptr!Copy, Ptr!Alive
  <2>2. s2' \in [Cells -> Nat] /\ s3' \in [Cells -> {"none", "null", "object", "deleted"}]
    BY <1>0, <2>1
  <2>3. ASSUME NEW x \in Cells
        PROVE  /\ s2'[x] = s2[x] + (IF x = new THEN 1 ELSE 0) - (IF x = s1[p] THEN 1 ELSE 0)
               /\ IF s2'[x] # 0 THEN s3'[x] \in {"null", "object"} ELSE s3'[x] # "object"
    <3> HIDE DEF new
    <3>1. CASE x = new
      BY <1>0, <1>a, <2>1, <3>1
    <3>2. CASE x # new
      BY <1>0, <1>a, <2>1, <3>2
    <3> QED BY <3>1, <3>2
  <2>c. PtrChange(p, new)
    BY <2>1, <2>2, <2>3 DEF PtrChange
  <2> QED BY <1>b, <2>1, <2>c
<1>4. ASSUME NEW p \in Pointers, NEW s \in Pointers, Ptr!Assign(p, s)  PROVE PtrInv'
  <2> DEFINE old == s1[p]
             new == s1[s]
  <2>1. /\ old \in Cells /\ new \in Cells /\ s2[old] \in Nat \ {0} /\ s2[new] \in Nat \ {0}
        /\ ~(p = s /\ s2[old] = 1)
        /\ s1' = [s1 EXCEPT ![p] = new]
        /\ s2' = [[s2 EXCEPT ![old] = @ - 1] EXCEPT ![new] = @ + 1]
        /\ s3' = IF s2[old] = 1 /\ s3[old] # "null" THEN [s3 EXCEPT ![old] = "deleted"] ELSE s3
    BY <1>c, <1>4 DEF Ptr!Assign, Ptr!Alive, Ptr!Dropped, Ptr!Deleted
  <2>2. s2' \in [Cells -> Nat]
    BY <1>0, <2>1
  <2>3. s3' \in [Cells -> {"none", "null", "object", "deleted"}]
    BY <1>0, <2>1
  \* The last pointer to an object is not assigned to another: they are two.
  <2>4. new = old => s2[old] # 1
    <3>1. ASSUME new = old, s2[old] = 1  PROVE FALSE
      <4>1. IsFiniteSet(Ptr!Holders(old)) /\ Cardinality(Ptr!Holders(old)) = 1
        BY <2>1, <3>1, PtrCounts
      <4>2. PICK x : Ptr!Holders(old) = {x}
        BY <4>1, FS_Singleton
      <4>3. p \in Ptr!Holders(old) /\ s \in Ptr!Holders(old)
        BY <3>1 DEF Ptr!Holders
      <4> QED BY <2>1, <3>1, <4>2, <4>3
    <3> QED BY <3>1
  <2>5. ASSUME NEW x \in Cells
        PROVE  /\ s2'[x] = s2[x] + (IF x = new THEN 1 ELSE 0) - (IF x = old THEN 1 ELSE 0)
               /\ IF s2'[x] # 0 THEN s3'[x] \in {"null", "object"} ELSE s3'[x] # "object"
    <3> HIDE DEF old, new
    <3>0. s2[x] \in Nat
      BY <1>0
    <3>1. CASE x = old /\ x # new
      <4>1. s2'[x] = s2[x] - 1
        BY <1>0, <2>1, <3>1
      <4>2. CASE s2[old] = 1
        BY <1>0, <1>a, <2>1, <3>1, <4>1, <4>2
      <4>3. CASE s2[old] # 1
        BY <1>0, <1>a, <2>1, <3>1, <4>1, <4>3
      <4> QED BY <4>2, <4>3
    <3>2. CASE x = old /\ x = new
      <4>1. s2'[x] = s2[x] /\ s3'[x] = s3[x]
        BY <1>0, <2>1, <2>4, <3>2
      <4> QED BY <1>a, <3>0, <3>2, <4>1
    <3>3. CASE x # old /\ x = new
      <4>1. s2'[x] = s2[x] + 1 /\ s3'[x] = s3[x]
        BY <1>0, <2>1, <3>3
      <4> QED BY <1>a, <2>1, <3>0, <3>3, <4>1
    <3>4. CASE x # old /\ x # new
      <4>1. s2'[x] = s2[x] /\ s3'[x] = s3[x]
        BY <1>0, <2>1, <3>4
      <4> QED BY <1>a, <3>0, <3>4, <4>1
    <3> QED BY <3>1, <3>2, <3>3, <3>4
  <2>c. PtrChange(p, new)
    BY <2>1, <2>2, <2>3, <2>5 DEF PtrChange
  <2> QED BY <1>b, <2>1, <2>c
<1>5. CASE UNCHANGED Ptr!vars
  BY <1>5 DEF Ptr!vars, PtrInv, Ptr!Holders
<1> QED BY <1>1, <1>2, <1>3, <1>4, <1>5 DEF Ptr!Next

LEMMA PtrInit == Ptr!Init => PtrInv
<1> SUFFICES ASSUME Ptr!Init  PROVE PtrInv
  OBVIOUS
<1>1. \A c \in Cells : Ptr!Holders(c) = {}
  BY ObjectsAssumption DEF Ptr!Init, Ptr!Holders
<1> QED BY <1>1, FS_EmptySet DEF Ptr!Init, PtrInv
-----------------------------------------------------------------------------
(* HashMap: s1 is bucket, s2 it, s3 seen, s4 present *)

\* Any set of numbers has a least one.
LEMMA LeastNumber ==
  ASSUME NEW T \in SUBSET Nat, T # {}
  PROVE  \E x \in T : \A y \in T : x <= y
<1> DEFINE Less == {p \in Nat \X Nat : p[1] < p[2]}
<1>1. IsWellFoundedOn(Less, Nat)
  BY NatLessThanWellFounded DEF OpToRel
<1>2. PICK x \in T : \A y \in T : ~ (<<y, x>> \in Less)
  <2> HIDE DEF Less
  <2> QED BY <1>1, WFMin
<1>3. ASSUME NEW y \in T  PROVE x <= y
  <2>1. x \in Nat /\ y \in Nat
    OBVIOUS
  <2>2. y < x => <<y, x>> \in Less
    BY <2>1
  <2> QED BY <1>2, <2>1, <2>2
<1> QED BY <1>2, <1>3

LEMMA MapLeast ==
  ASSUME NEW T \in SUBSET Nat, T # {}
  PROVE  Map!Least(T) \in T /\ \A x \in T : Map!Least(T) <= x
  BY LeastNumber DEF Map!Least

\* The order of an iteration.
MapBefore(j, k) == Map!Of(j) < Map!Of(k) \/ (Map!Of(j) = Map!Of(k) /\ j < k)
At(k) == [bnum |-> Map!Of(k), of |-> Map!Of(k), key |-> k]
MapHas(k) == k \in DOMAIN s1[Map!Of(k)]

\* The buckets, the iterator and what it has shown.
BucketsInv ==
  /\ DOMAIN s1 = Map!Buckets
  /\ \A b \in Map!Buckets : \A k \in DOMAIN s1[b] :
       k \in MapKeys /\ s1[b][k] \in Values /\ Map!Of(k) = b
IteratorInv ==
  /\ s2 = Map!end \/ (\E k \in MapKeys : MapHas(k) /\ s2 = At(k))
  /\ s3 \in Seq(MapKeys)
  /\ \A i, j \in DOMAIN s3 : i < j => MapBefore(s3[i], s3[j])
  /\ s2 # Map!end => Len(s3) > 0 /\ s3[Len(s3)] = s2.key
PresentInv ==
  /\ \A k \in s4 : k \in MapKeys /\ MapHas(k)
  /\ \A k \in s4 : \/ \E i \in DOMAIN s3 : s3[i] = k
                   \/ s2 # Map!end /\ MapBefore(s2.key, k)
MapInv == BucketsInv /\ IteratorInv /\ PresentInv

LEMMA MapOf == \A k \in MapKeys : Map!Of(k) \in Map!Buckets /\ Map!Of(k) \in Nat /\ k \in Nat
<1> SUFFICES ASSUME NEW k \in MapKeys
             PROVE  Map!Of(k) \in Map!Buckets /\ Map!Of(k) \in Nat /\ k \in Nat
  OBVIOUS
<1>1. MapHash[k] \in Nat /\ BUCKET_SIZE \in Nat \ {0} /\ k \in Nat
  BY ObjectsAssumption
<1> QED BY <1>1 DEF Map!Of, Map!Buckets

LEMMA MapEnd ==
  /\ Map!end.key = -1
  /\ \A k \in MapKeys : At(k).key = k /\ At(k).key # -1 /\ At(k) # Map!end
                        /\ At(k).bnum = Map!Of(k)
  BY MapOf DEF Map!end, Map!End, At

LEMMA MapOrder ==
  /\ \A k \in MapKeys : ~MapBefore(k, k)
  /\ \A i, j, k \in MapKeys : MapBefore(i, j) /\ MapBefore(j, k) => MapBefore(i, k)
  /\ \A j, k \in MapKeys : j # k => MapBefore(j, k) \/ MapBefore(k, j)
  BY MapOf DEF MapBefore

LEMMA MapSound == MapInv => Map!TypeOK /\ Map!InItsBucket /\ Map!IterationIsExact
<1> SUFFICES ASSUME MapInv  PROVE Map!TypeOK /\ Map!InItsBucket /\ Map!IterationIsExact
  OBVIOUS
<1> USE DEF MapInv
<1>1. s2.key = -1 => s2 = Map!end
  BY MapEnd DEF IteratorInv
<1>2. s2 # Map!end => s2.key \in DOMAIN s1[s2.bnum]
  BY MapEnd DEF IteratorInv, MapHas
<1>3. Map!TypeOK
  BY <1>2, MapEnd DEF Map!TypeOK, Map!End, BucketsInv
<1>4. Map!InItsBucket
  BY DEF Map!InItsBucket, BucketsInv
<1>5. ASSUME NEW i \in DOMAIN s3, NEW j \in DOMAIN s3, i # j  PROVE s3[i] # s3[j]
  <2>1. i \in Nat /\ j \in Nat /\ s3[i] \in MapKeys /\ s3[j] \in MapKeys
    BY DEF IteratorInv
  <2>2. i < j \/ j < i
    BY <1>5, <2>1
  <2>3. MapBefore(s3[i], s3[j]) \/ MapBefore(s3[j], s3[i])
    BY <2>2 DEF IteratorInv
  <2> QED BY <2>1, <2>3, MapOrder
<1>6. s2 = Map!end => \A k \in s4 : \E i \in DOMAIN s3 : s3[i] = k
  BY DEF PresentInv
<1> QED BY <1>1, <1>3, <1>4, <1>5, <1>6 DEF Map!IterationIsExact, Map!End

LEMMA MapInit == Map!Init => MapInv
<1> SUFFICES ASSUME Map!Init  PROVE MapInv
  OBVIOUS
<1>1. BucketsInv
  BY DEF Map!Init, BucketsInv
<1>2. s3 = << >> /\ s2 = Map!end /\ s4 = {}
  BY DEF Map!Init
<1> QED BY <1>1, <1>2 DEF MapInv, IteratorInv, PresentInv

\* A key is inserted, or gets another value.
LEMMA MapGrows ==
  ASSUME MapInv, NEW k \in MapKeys, NEW f, DOMAIN f \subseteq DOMAIN s1[Map!Of(k)] \cup {k},
         DOMAIN s1[Map!Of(k)] \subseteq DOMAIN f, \A x \in DOMAIN f : f[x] \in Values,
         s1' = [s1 EXCEPT ![Map!Of(k)] = f], UNCHANGED <<s2, s3, s4>>
  PROVE  MapInv'
<1>0. Map!Of(k) \in Map!Buckets /\ Map!Buckets' = Map!Buckets
      /\ DOMAIN s1 = Map!Buckets /\ \A x : Map!Of(x)' = Map!Of(x)
  BY MapOf DEF MapInv, BucketsInv, Map!Buckets, Map!Of
<1>1. BucketsInv'
  BY <1>0 DEF MapInv, BucketsInv
<1>2. \A x \in MapKeys : MapHas(x) => MapHas(x)'
  BY <1>0, MapOf DEF MapHas
<1>3. IteratorInv'
  BY <1>2 DEF MapInv, IteratorInv, MapBefore, At, Map!end, Map!Of
<1>4. PresentInv'
  BY <1>2 DEF MapInv, PresentInv, MapBefore, Map!end, Map!Of
<1> QED BY <1>1, <1>3, <1>4 DEF MapInv

\* begin() and find() put the iterator at a key, or at the end.
LEMMA MapStarts ==
  ASSUME MapInv, NEW k \in MapKeys, MapHas(k), Map!Starts(At(k))
  PROVE  MapInv'
<1>0. /\ s2' = At(k) /\ s3' = <<k>> /\ UNCHANGED s1
      /\ s4' = {x \in Map!AllKeys : Map!Of(x) > Map!Of(k) \/ (Map!Of(x) = Map!Of(k) /\ x >= k)}
  BY MapEnd DEF Map!Starts, Map!End
<1>1. BucketsInv'
  BY <1>0 DEF MapInv, BucketsInv, Map!Buckets, Map!Of
<1>2. IteratorInv'
  <2>1. s3' \in Seq(MapKeys) /\ Len(s3') = 1 /\ s3'[1] = k /\ DOMAIN s3' = {1}
    BY <1>0
  <2> QED BY <1>0, <2>1, MapEnd DEF IteratorInv, MapHas, At, Map!Of
<1>3. \A x \in s4' : x \in MapKeys /\ MapHas(x) /\ (x = k \/ MapBefore(k, x))
  BY <1>0, MapOf DEF MapInv, BucketsInv, Map!AllKeys, MapHas, MapBefore
<1>4. PresentInv'
  <2>1. s3'[1] = k /\ DOMAIN s3' = {1} /\ s2' # Map!end /\ s2'.key = k
    BY <1>0, MapEnd
  <2> QED BY <1>0, <1>3, <2>1 DEF PresentInv, MapHas, MapBefore, Map!Of, Map!end
<1> QED BY <1>1, <1>2, <1>4 DEF MapInv

LEMMA MapStartsAtEnd ==
  ASSUME MapInv, Map!Starts(Map!end)  PROVE MapInv'
<1>0. s2' = Map!end /\ s3' = << >> /\ UNCHANGED s1 /\ s4' = {}
  BY MapEnd DEF Map!Starts, Map!End
<1>1. BucketsInv'
  BY <1>0 DEF MapInv, BucketsInv, Map!Buckets, Map!Of
<1>2. s3' \in Seq(MapKeys) /\ DOMAIN s3' = {}
  BY <1>0
<1> QED BY <1>0, <1>1, <1>2 DEF MapInv, IteratorInv, PresentInv, Map!end

\* The first key at or after a bucket.
LEMMA MapFirst ==
  ASSUME BucketsInv, NEW b \in Nat
  PROVE  \/ /\ Map!FirstFrom(b) = Map!end
            /\ \A k \in MapKeys : MapHas(k) => Map!Of(k) < b
         \/ \E k \in MapKeys :
              /\ MapHas(k) /\ Map!FirstFrom(b) = At(k) /\ Map!Of(k) >= b
              /\ \A x \in MapKeys : MapHas(x) /\ Map!Of(x) >= b => x = k \/ MapBefore(k, x)
<1> DEFINE full == {c \in Map!Buckets : c >= b /\ DOMAIN s1[c] # {}}
<1>0. Map!Buckets \subseteq Nat
  BY ObjectsAssumption DEF Map!Buckets
<1>1. Map!FirstFrom(b) =
        IF full = {} THEN Map!end
        ELSE [bnum |-> Map!Least(full), of |-> Map!Least(full), key |-> Map!Least(DOMAIN s1[Map!Least(full)])]
  BY DEF Map!FirstFrom
<1>2. CASE full = {}
  <2>1. ASSUME NEW k \in MapKeys, MapHas(k)  PROVE Map!Of(k) < b
    BY <1>2, <2>1, MapOf DEF MapHas
  <2> QED BY <1>1, <1>2, <2>1
<1>3. CASE full # {}
  <2> DEFINE c == Map!Least(full)
             k == Map!Least(DOMAIN s1[c])
  <2>1. full \in SUBSET Nat
    BY <1>0
  <2>2. c \in full /\ \A x \in full : c <= x
    <3> HIDE DEF full
    <3> QED BY <1>3, <2>1, MapLeast
  <2>3. c \in Map!Buckets /\ c \in Nat /\ c >= b /\ DOMAIN s1[c] # {}
    BY <1>0, <2>2
  <2> HIDE DEF c
  <2>4. DOMAIN s1[c] \in SUBSET Nat
    BY <2>3, ObjectsAssumption DEF BucketsInv
  <2>5. k \in DOMAIN s1[c] /\ \A x \in DOMAIN s1[c] : k <= x
    BY <2>3, <2>4, MapLeast
  <2>6. k \in MapKeys /\ Map!Of(k) = c
    BY <2>3, <2>5 DEF BucketsInv
  <2>7. MapHas(k) /\ Map!FirstFrom(b) = At(k)
    BY <1>1, <1>3, <2>5, <2>6 DEF MapHas, At, c
  <2> HIDE DEF k
  <2>8. ASSUME NEW x \in MapKeys, MapHas(x), Map!Of(x) >= b  PROVE x = k \/ MapBefore(k, x)
    <3>1. Map!Of(x) \in full /\ Map!Of(x) \in Nat /\ x \in Nat /\ k \in Nat
      BY <2>6, <2>8, MapOf DEF MapHas
    <3>2. c <= Map!Of(x)
      BY <2>2, <3>1
    <3>3. c = Map!Of(x) => k <= x
      BY <2>5, <2>8 DEF MapHas, k
    <3> QED BY <2>3, <2>6, <3>1, <3>2, <3>3 DEF MapBefore
  <2> QED BY <2>3, <2>6, <2>7, <2>8
<1> QED BY <1>2, <1>3

\* The iterator goes on to the next key, and what it has passed it has shown.
LEMMA MapMovesTo ==
  ASSUME MapInv, NEW j \in MapKeys, s2 = At(j), NEW k \in MapKeys, MapHas(k), MapBefore(j, k),
         \A x \in MapKeys : MapHas(x) /\ MapBefore(j, x) => x = k \/ MapBefore(k, x),
         s2' = At(k), s3' = Append(s3, k), UNCHANGED <<s1, s4>>
  PROVE  MapInv'
<1>0. /\ s2 # Map!end /\ s2.key = j /\ s2' # Map!end /\ s2'.key = k
      /\ s3 \in Seq(MapKeys) /\ Len(s3) \in Nat /\ Len(s3) > 0 /\ s3[Len(s3)] = j
      /\ DOMAIN s3 = 1 .. Len(s3)
  BY MapEnd DEF MapInv, IteratorInv
<1>1. BucketsInv'
  BY DEF MapInv, BucketsInv, Map!Buckets, Map!Of
<1>2. /\ s3' \in Seq(MapKeys) /\ DOMAIN s3' = 1 .. Len(s3) + 1 /\ Len(s3') = Len(s3) + 1
      /\ s3'[Len(s3) + 1] = k /\ \A i \in DOMAIN s3 : s3'[i] = s3[i]
  BY <1>0
<1>3. ASSUME NEW i \in DOMAIN s3  PROVE MapBefore(s3[i], k)
  <2>1. s3[i] = j \/ MapBefore(s3[i], j)
    BY <1>0 DEF MapInv, IteratorInv
  <2>2. s3[i] \in MapKeys
    BY <1>0
  <2> QED BY <2>1, <2>2, MapOrder
<1>4. \A i, n \in DOMAIN s3' : i < n => MapBefore(s3'[i], s3'[n])
  <2> SUFFICES ASSUME NEW i \in DOMAIN s3', NEW n \in DOMAIN s3', i < n
               PROVE  MapBefore(s3'[i], s3'[n])
    OBVIOUS
  <2>1. CASE n = Len(s3) + 1
    <3>1. i \in DOMAIN s3
      BY <1>0, <1>2, <2>1
    <3> QED BY <1>2, <1>3, <2>1, <3>1
  <2>2. CASE n # Len(s3) + 1
    <3>1. i \in DOMAIN s3 /\ n \in DOMAIN s3
      BY <1>0, <1>2, <2>2
    <3> QED BY <1>2, <3>1 DEF MapInv, IteratorInv
  <2> QED BY <2>1, <2>2
<1>5. IteratorInv'
  <2>1. MapHas(k)' /\ s2' = At(k)'
    BY DEF MapHas, At, Map!Of
  <2>2. \A i, n \in DOMAIN s3' : i < n => MapBefore(s3[i], s3[n])'
    BY <1>4 DEF MapBefore, Map!Of
  <2>3. Len(s3') > 0 /\ s3'[Len(s3')] = s2'.key
    BY <1>0, <1>2
  <2> QED BY <1>2, <2>1, <2>2, <2>3 DEF IteratorInv
<1>6. ASSUME NEW x \in s4
      PROVE  \/ \E i \in DOMAIN s3' : s3'[i] = x
             \/ MapBefore(k, x)
  <2>1. x \in MapKeys /\ MapHas(x)
    BY DEF MapInv, PresentInv
  <2>2. CASE \E i \in DOMAIN s3 : s3[i] = x
    BY <1>0, <1>2, <2>2
  <2>3. CASE MapBefore(j, x)
    <3>1. x = k \/ MapBefore(k, x)
      BY <2>1, <2>3
    <3>2. Len(s3) + 1 \in DOMAIN s3'
      BY <1>0, <1>2
    <3> QED BY <1>2, <3>1, <3>2
  <2> QED BY <1>0, <2>2, <2>3 DEF MapInv, PresentInv
<1>7. PresentInv'
  BY <1>0, <1>6 DEF MapInv, PresentInv, MapHas, MapBefore, Map!Of, Map!end
<1> QED BY <1>1, <1>5, <1>7 DEF MapInv

LEMMA MapIncrement ==
  ASSUME MapInv, Map!Increment  PROVE MapInv'
<1>0. s2.key # -1 /\ UNCHANGED <<s1, s4>>
  BY DEF Map!Increment, Map!End
<1>1. PICK j \in MapKeys : MapHas(j) /\ s2 = At(j)
  BY <1>0, MapEnd DEF MapInv, IteratorInv
<1>2. s2.key = j /\ s2.bnum = Map!Of(j)
  BY <1>1, MapEnd
<1> DEFINE rest == {k \in DOMAIN s1[Map!Of(j)] : k > j}
<1>3. /\ s2' = IF rest # {} THEN [s2 EXCEPT !.key = Map!Least(rest)] ELSE Map!FirstFrom(Map!Of(j) + 1)
      /\ s3' = IF s2'.key = -1 THEN s3 ELSE Append(s3, s2'.key)
  BY <1>2 DEF Map!Increment, Map!End
<1>a. Map!Of(j) \in Map!Buckets /\ Map!Of(j) \in Nat /\ j \in Nat
  BY MapOf
<1>b. rest \in SUBSET Nat
  BY <1>a, MapOf DEF MapInv, BucketsInv
<1>4. CASE rest # {}
  <2> DEFINE k == Map!Least(rest)
  <2>1. k \in rest /\ \A x \in rest : k <= x
    <3> HIDE DEF rest
    <3> QED BY <1>4, <1>b, MapLeast
  <2>2. k \in DOMAIN s1[Map!Of(j)] /\ k > j
    BY <2>1
  <2> HIDE DEF k
  <2>3. k \in MapKeys /\ Map!Of(k) = Map!Of(j) /\ MapHas(k)
    BY <1>a, <2>2 DEF MapInv, BucketsInv, MapHas
  <2>4. MapBefore(j, k)
    BY <1>a, <2>2, <2>3 DEF MapBefore
  <2>5. ASSUME NEW x \in MapKeys, MapHas(x), MapBefore(j, x)  PROVE x = k \/ MapBefore(k, x)
    <3>0. x \in Nat /\ k \in Nat /\ Map!Of(x) \in Nat
      BY <2>3, MapOf
    <3>1. CASE Map!Of(j) < Map!Of(x)
      BY <2>3, <3>1 DEF MapBefore
    <3>2. CASE Map!Of(j) = Map!Of(x) /\ j < x
      <4>1. x \in rest
        BY <1>a, <2>5, <3>0, <3>2 DEF MapHas
      <4>2. k <= x
        BY <2>1, <4>1
      <4> QED BY <2>3, <3>0, <3>2, <4>2 DEF MapBefore
    <3> QED BY <2>5, <3>1, <3>2 DEF MapBefore
  <2>6. s2' = At(k)
    BY <1>1, <1>3, <1>4, <2>3 DEF At, k
  <2>7. s3' = Append(s3, k)
    BY <1>3, <2>3, <2>6, MapEnd
  <2> QED BY <1>0, <1>1, <2>3, <2>4, <2>5, <2>6, <2>7, MapMovesTo
<1>5. CASE rest = {}
  <2>0. s2' = Map!FirstFrom(Map!Of(j) + 1) /\ Map!Of(j) + 1 \in Nat
    BY <1>3, <1>5, <1>a
  \* What comes after is in a later bucket.
  <2>1. ASSUME NEW x \in MapKeys, MapHas(x), MapBefore(j, x)  PROVE Map!Of(x) >= Map!Of(j) + 1
    <3>0. x \in Nat /\ Map!Of(x) \in Nat
      BY MapOf
    <3>1. ~(Map!Of(j) = Map!Of(x) /\ j < x)
      BY <1>5, <1>a, <2>1, <3>0 DEF MapHas
    <3>2. Map!Of(j) < Map!Of(x)
      BY <2>1, <3>1 DEF MapBefore
    <3> QED BY <1>a, <3>0, <3>2
  <2>2. BucketsInv
    BY DEF MapInv
  <2>3. CASE /\ Map!FirstFrom(Map!Of(j) + 1) = Map!end
             /\ \A k \in MapKeys : MapHas(k) => Map!Of(k) < Map!Of(j) + 1
    <3>1. s2' = Map!end /\ s3' = s3
      BY <1>3, <2>0, <2>3, MapEnd
    <3>2. ASSUME NEW x \in MapKeys, MapHas(x), MapBefore(j, x)  PROVE FALSE
      <4>1. Map!Of(x) >= Map!Of(j) + 1 /\ Map!Of(x) < Map!Of(j) + 1 /\ Map!Of(x) \in Nat
        BY <2>1, <2>3, <3>2, MapOf
      <4> QED BY <1>a, <4>1
    <3>3. \A x \in s4 : \E i \in DOMAIN s3 : s3[i] = x
      BY <1>1, <1>2, <3>2 DEF MapInv, PresentInv
    <3>4. BucketsInv'
      BY <1>0, <2>2 DEF BucketsInv, Map!Buckets, Map!Of
    <3>5. IteratorInv'
      BY <3>1 DEF MapInv, IteratorInv, MapBefore, Map!Of, Map!end
    <3>6. PresentInv'
      BY <1>0, <3>1, <3>3 DEF MapInv, PresentInv, MapHas, Map!Of
    <3> QED BY <3>4, <3>5, <3>6 DEF MapInv
  <2>4. CASE \E k \in MapKeys :
              /\ MapHas(k) /\ Map!FirstFrom(Map!Of(j) + 1) = At(k) /\ Map!Of(k) >= Map!Of(j) + 1
              /\ \A x \in MapKeys : MapHas(x) /\ Map!Of(x) >= Map!Of(j) + 1 => x = k \/ MapBefore(k, x)
    <3>1. PICK k \in MapKeys :
              /\ MapHas(k) /\ Map!FirstFrom(Map!Of(j) + 1) = At(k) /\ Map!Of(k) >= Map!Of(j) + 1
              /\ \A x \in MapKeys : MapHas(x) /\ Map!Of(x) >= Map!Of(j) + 1 => x = k \/ MapBefore(k, x)
      BY <2>4
    <3>2. s2' = At(k) /\ s3' = Append(s3, k)
      BY <1>3, <2>0, <3>1, MapEnd
    <3>3. MapBefore(j, k)
      BY <1>a, <3>1, MapOf DEF MapBefore
    <3>4. \A x \in MapKeys : MapHas(x) /\ MapBefore(j, x) => x = k \/ MapBefore(k, x)
      BY <2>1, <3>1
    <3> QED BY <1>0, <1>1, <3>1, <3>2, <3>3, <3>4, MapMovesTo
  <2> QED BY <2>0, <2>2, <2>3, <2>4, MapFirst
<1> QED BY <1>4, <1>5

LEMMA MapStep == MapInv /\ [Map!Next]_(Map!vars) => MapInv'
<1> SUFFICES ASSUME MapInv, [Map!Next]_(Map!vars)  PROVE MapInv'
  OBVIOUS
<1>0. /\ DOMAIN s1 = Map!Buckets /\ BucketsInv
      /\ \A k \in MapKeys : Map!Of(k) \in Map!Buckets
  BY MapOf DEF MapInv, BucketsInv
<1>1. ASSUME NEW k \in MapKeys, NEW v \in Values, Map!Insert(k, v)  PROVE MapInv'
  <2> DEFINE f == [x \in DOMAIN s1[Map!Of(k)] \cup {k} |->
                     IF x \in DOMAIN s1[Map!Of(k)] THEN s1[Map!Of(k)][x] ELSE v]
  <2>1. s1' = [s1 EXCEPT ![Map!Of(k)] = f] /\ UNCHANGED <<s2, s3, s4>>
    BY <1>1 DEF Map!Insert
  <2>2. /\ DOMAIN f \subseteq DOMAIN s1[Map!Of(k)] \cup {k}
        /\ DOMAIN s1[Map!Of(k)] \subseteq DOMAIN f
    OBVIOUS
  <2>3. \A x \in DOMAIN f : f[x] \in Values
    BY <1>0 DEF BucketsInv
  <2> HIDE DEF f
  <2> QED BY <2>1, <2>2, <2>3, MapGrows
<1>2. ASSUME NEW k \in MapKeys, NEW v \in Values, Map!Assign(k, v)  PROVE MapInv'
  <2> DEFINE f == [s1[Map!Of(k)] EXCEPT ![k] = v]
  <2>1. s1' = [s1 EXCEPT ![Map!Of(k)] = f] /\ UNCHANGED <<s2, s3, s4>>
    BY <1>2, <1>0 DEF Map!Assign
  <2>2. DOMAIN f = DOMAIN s1[Map!Of(k)]
    OBVIOUS
  <2>3. \A x \in DOMAIN f : f[x] \in Values
    BY <1>0 DEF BucketsInv
  <2> HIDE DEF f
  <2> QED BY <2>1, <2>2, <2>3, MapGrows
<1>3. ASSUME NEW k \in MapKeys, Map!Remove(k)  PROVE MapInv'
  <2>1. /\ MapHas(k) /\ s2.key # k /\ UNCHANGED <<s2, s3>> /\ s4' = s4 \ {k}
        /\ s1' = [s1 EXCEPT ![Map!Of(k)] = [x \in DOMAIN s1[Map!Of(k)] \ {k} |-> s1[Map!Of(k)][x]]]
    BY <1>3, <1>0 DEF Map!Remove, Map!Has, MapHas
  <2>2. BucketsInv'
    BY <1>0, <2>1 DEF BucketsInv, Map!Buckets, Map!Of
  <2>3. \A x \in MapKeys : x # k /\ MapHas(x) => MapHas(x)'
    BY <1>0, <2>1, MapOf DEF MapHas
  <2>4. IteratorInv'
    BY <2>1, <2>3, MapEnd DEF MapInv, IteratorInv, MapBefore, At, Map!end, Map!Of
  <2>5. PresentInv'
    BY <2>1, <2>3 DEF MapInv, PresentInv, MapBefore, Map!end, Map!Of
  <2> QED BY <2>2, <2>4, <2>5 DEF MapInv
<1>4. ASSUME Map!Clear  PROVE MapInv'
  <2>1. /\ s2.key = -1 /\ UNCHANGED <<s2, s3>> /\ s4' = {}
        /\ s1' = [b \in Map!Buckets |-> << >>]
    BY <1>4 DEF Map!Clear, Map!End
  <2>2. s2 = Map!end
    BY <2>1, MapEnd DEF MapInv, IteratorInv
  <2>3. BucketsInv'
    BY <2>1 DEF BucketsInv, Map!Buckets, Map!Of
  <2>4. IteratorInv'
    BY <2>1, <2>2 DEF MapInv, IteratorInv, MapBefore, Map!end, Map!Of
  <2> QED BY <2>1, <2>3, <2>4 DEF MapInv, PresentInv
<1>5. ASSUME NEW k \in MapKeys, Map!Find(k)  PROVE MapInv'
  <2>1. CASE MapHas(k)
    BY <1>5, <2>1, MapStarts DEF Map!Find, Map!at, Map!Has, MapHas, At
  <2>2. CASE ~MapHas(k)
    BY <1>5, <2>2, MapStartsAtEnd DEF Map!Find, Map!at, Map!Has, MapHas
  <2> QED BY <2>1, <2>2
<1>6. ASSUME Map!Begin  PROVE MapInv'
  <2>1. Map!AllKeys # {} /\ Map!Starts(Map!FirstFrom(0))
    BY <1>6 DEF Map!Begin, Map!begin
  <2>2. PICK x \in MapKeys : MapHas(x) /\ Map!Of(x) \in Nat
    BY <1>0, <2>1, MapOf DEF BucketsInv, Map!AllKeys, MapHas
  <2>3. ~(Map!Of(x) < 0)
    BY <2>2
  <2>4. PICK k \in MapKeys : MapHas(k) /\ Map!FirstFrom(0) = At(k)
    BY <1>0, <2>2, <2>3, MapFirst
  <2> QED BY <2>1, <2>4, MapStarts
<1>7. ASSUME UNCHANGED Map!vars  PROVE MapInv'
  BY <1>7 DEF Map!vars, MapInv, BucketsInv, IteratorInv, PresentInv, MapHas, MapBefore, At,
              Map!end, Map!Of, Map!Buckets
<1>8. NoValue \in Values
  BY ObjectsAssumption
<1> QED BY <1>1, <1>2, <1>3, <1>4, <1>5, <1>6, <1>7, <1>8, MapIncrement
        DEF Map!Next, Map!Add, Map!Index
-----------------------------------------------------------------------------
(* Octree: s1 is indices, s2 instances *)

LEMMA TreeConstants == MAX_LEVEL \in Nat /\ MAX_LEVEL >= 1 /\ MAX_LEVEL <= 8
  BY ObjectsAssumption

LEMMA TreeCardinality == \A S : Tree!Cardinality(S) = Cardinality(S)
<1>1. \A S : Tree!IsFiniteSet(S) = IsFiniteSet(S)
  BY DEF Tree!IsFiniteSet, IsFiniteSet
<1> QED BY <1>1 DEF Tree!Cardinality, Cardinality

\* A set of numbers with a bound has a greatest one.
LEMMA TreeMax ==
  ASSUME NEW b \in Nat, NEW T \in SUBSET (0 .. b), T # {}
  PROVE  Tree!Max(T) \in T /\ \A x \in T : Tree!Max(T) >= x
<1> DEFINE U == {b - x : x \in T}
<1>1. U \in SUBSET Nat /\ U # {}
  <2>1. \A x \in T : b - x \in Nat /\ b - x \in U
    OBVIOUS
  <2>2. U \in SUBSET Nat
    BY <2>1
  <2> HIDE DEF U
  <2> QED BY <2>1, <2>2
<1>2. PICK u \in U : \A y \in U : u <= y
  <2> HIDE DEF U
  <2> QED BY <1>1, LeastNumber
<1>3. PICK x \in T : u = b - x
  BY <1>2
<1>4. \A y \in T : x >= y
  <2> SUFFICES ASSUME NEW y \in T  PROVE x >= y
    OBVIOUS
  <2>1. u <= b - y
    BY <1>2
  <2> QED BY <1>3, <2>1
<1> QED BY <1>4 DEF Tree!Max

\* The level of a number, and the bits above it.
LEMMA TreeLevel ==
  ASSUME NEW m
  PROVE  /\ Tree!level(m) \in Tree!Levels \cup {-1}
         /\ \A b \in m \cap (0 .. 3 * MAX_LEVEL - 1) : b < 3 * (Tree!level(m) + 1)
         /\ Tree!level(m) # -1 =>
              \E b \in m \cap (0 .. 3 * MAX_LEVEL - 1) : 3 * Tree!level(m) <= b
<1> DEFINE g == {b \div 3 : b \in m \cap (0 .. 3 * MAX_LEVEL - 1)}
<1>1. Tree!level(m) = IF g = {} THEN -1 ELSE Tree!Max(g)
  BY DEF Tree!level, Tree!Word
<1>2. \A b \in 0 .. 3 * MAX_LEVEL - 1 :
        /\ b \div 3 \in 0 .. MAX_LEVEL - 1
        /\ \A k \in Int : b < 3 * (k + 1) <=> b \div 3 <= k
  BY TreeConstants
<1>3. CASE g = {}
  <2>1. m \cap (0 .. 3 * MAX_LEVEL - 1) = {}
    BY <1>3
  <2> QED BY <1>1, <1>3, <2>1
<1>4. CASE g # {}
  <2>1. g \in SUBSET (0 .. MAX_LEVEL - 1) /\ MAX_LEVEL - 1 \in Nat
    BY <1>2, TreeConstants
  <2>2. Tree!level(m) \in g /\ \A x \in g : Tree!level(m) >= x
    <3> HIDE DEF g
    <3> QED BY <1>1, <1>4, <2>1, TreeMax
  <2>3. Tree!level(m) \in 0 .. MAX_LEVEL - 1
    BY <2>1, <2>2
  <2>4. ASSUME NEW b \in m \cap (0 .. 3 * MAX_LEVEL - 1)  PROVE b < 3 * (Tree!level(m) + 1)
    <3>1. b \div 3 \in g
      BY <2>4
    <3>2. b \div 3 <= Tree!level(m)
      BY <1>2, <2>2, <2>3, <3>1
    <3> HIDE DEF g
    <3> QED BY <1>2, <2>3, <3>2
  <2>5. \E b \in m \cap (0 .. 3 * MAX_LEVEL - 1) : 3 * Tree!level(m) <= b
    <3>1. PICK b \in m \cap (0 .. 3 * MAX_LEVEL - 1) : Tree!level(m) = b \div 3
      BY <2>2
    <3>2. 3 * (b \div 3) <= b
      BY TreeConstants
    <3> HIDE DEF g
    <3> QED BY <3>1, <3>2
  <2> HIDE DEF g
  <2> QED BY <2>3, <2>4, <2>5 DEF Tree!Levels
<1> QED BY <1>3, <1>4

TreeInv ==
  /\ DOMAIN s1 = Tree!Levels /\ s2 \in [Tree!Levels -> Seq(Numbers)]
  /\ \A l \in Tree!Levels :
       /\ IsFiniteSet(DOMAIN s1[l]) /\ Cardinality(DOMAIN s1[l]) = Len(s2[l])
       /\ \A m \in DOMAIN s1[l] : /\ Tree!level(m) = l /\ s1[l][m] \in 1 .. Len(s2[l])
                                  /\ s2[l][s1[l][m]] = m

LEMMA TreeSound == TreeInv => Tree!InstancesAreDistinct
<1> SUFFICES ASSUME TreeInv  PROVE Tree!InstancesAreDistinct
  OBVIOUS
<1>1. [l \in Tree!Levels |-> Len(s2[l])] = [l \in Tree!Levels |-> Tree!Cardinality(DOMAIN s1[l])]
  BY TreeCardinality DEF TreeInv
<1>2. Tree!size(-1) = Tree!Total([l \in Tree!Levels |-> Tree!Cardinality(DOMAIN s1[l])])
  BY <1>1 DEF Tree!size
<1> QED BY <1>2 DEF Tree!InstancesAreDistinct, TreeInv

LEMMA TreeEmpty ==
  ASSUME s1 = [l \in Tree!Levels |-> << >>], s2 = [l \in Tree!Levels |-> << >>]
  PROVE  TreeInv
<1>1. \A l \in Tree!Levels : DOMAIN s1[l] = {} /\ s2[l] = << >> /\ Len(s2[l]) = 0
  OBVIOUS
<1> QED BY <1>1, FS_EmptySet DEF TreeInv

LEMMA TreeInit == Tree!Init => TreeInv
  BY TreeEmpty DEF Tree!Init, Tree!Empty

LEMMA TreeAssign ==
  ASSUME TreeInv, NEW m \in Numbers, Tree!assignInstance(m)  PROVE TreeInv'
<1> DEFINE lv == Tree!level(m)
<1>0. lv # -1 /\ lv \in Tree!Levels
  BY TreeLevel DEF Tree!assignInstance
<1>a. Tree!Levels' = Tree!Levels /\ \A x : Tree!level(x)' = Tree!level(x)
  BY DEF Tree!Levels, Tree!level
<1>1. CASE m \in DOMAIN s1[lv]
  BY <1>1, <1>a DEF Tree!assignInstance, Tree!vars, TreeInv
<1>2. CASE m \notin DOMAIN s1[lv]
  <2> DEFINE f == [x \in DOMAIN s1[lv] \cup {m} |->
                     IF x \in DOMAIN s1[lv] THEN s1[lv][x] ELSE Len(s2[lv]) + 1]
             s == Append(s2[lv], m)
  <2>1. s1' = [s1 EXCEPT ![lv] = f] /\ s2' = [s2 EXCEPT ![lv] = s]
    BY <1>2 DEF Tree!assignInstance
  <2>2. s2[lv] \in Seq(Numbers) /\ Len(s2[lv]) \in Nat /\ IsFiniteSet(DOMAIN s1[lv])
        /\ Cardinality(DOMAIN s1[lv]) = Len(s2[lv])
    BY <1>0 DEF TreeInv
  <2>3. /\ s \in Seq(Numbers) /\ Len(s) = Len(s2[lv]) + 1 /\ s[Len(s2[lv]) + 1] = m
        /\ \A i \in 1 .. Len(s2[lv]) : s[i] = s2[lv][i]
    BY <2>2
  <2>4. DOMAIN f = DOMAIN s1[lv] \cup {m}
    OBVIOUS
  <2>5. IsFiniteSet(DOMAIN f) /\ Cardinality(DOMAIN f) = Len(s)
    <3>1. IsFiniteSet(DOMAIN s1[lv] \cup {m}) /\ Cardinality(DOMAIN s1[lv] \cup {m}) = Len(s2[lv]) + 1
      BY <1>2, <2>2, FS_AddElement
    <3> HIDE DEF f, s, lv
    <3> QED BY <2>3, <2>4, <3>1
  <2>6. ASSUME NEW x \in DOMAIN f
        PROVE  Tree!level(x) = lv /\ f[x] \in 1 .. Len(s) /\ s[f[x]] = x
    <3>1. CASE x \in DOMAIN s1[lv]
      <4>1. f[x] = s1[lv][x] /\ Tree!level(x) = lv /\ s1[lv][x] \in 1 .. Len(s2[lv])
            /\ s2[lv][s1[lv][x]] = x
        BY <1>0, <3>1 DEF TreeInv
      <4> HIDE DEF f, s, lv
      <4> QED BY <2>2, <2>3, <4>1
    <3>2. CASE x \notin DOMAIN s1[lv]
      <4>1. x = m /\ f[x] = Len(s2[lv]) + 1
        BY <2>4, <3>2
      <4>2. Tree!level(x) = lv
        BY <4>1
      <4> HIDE DEF f, s, lv
      <4> QED BY <2>2, <2>3, <4>1, <4>2
    <3> QED BY <3>1, <3>2
  <2> HIDE DEF f, s, lv
  <2>7. DOMAIN s1' = Tree!Levels /\ s2' \in [Tree!Levels -> Seq(Numbers)]
    BY <1>0, <2>1, <2>3 DEF TreeInv
  <2>8. /\ s1'[lv] = f /\ s2'[lv] = s
        /\ \A l \in Tree!Levels : l # lv => s1'[l] = s1[l] /\ s2'[l] = s2[l]
    BY <1>0, <2>1 DEF TreeInv
  <2>9. ASSUME NEW l \in Tree!Levels
        PROVE  /\ IsFiniteSet(DOMAIN s1'[l]) /\ Cardinality(DOMAIN s1'[l]) = Len(s2'[l])
               /\ \A x \in DOMAIN s1'[l] : /\ Tree!level(x) = l /\ s1'[l][x] \in 1 .. Len(s2'[l])
                                           /\ s2'[l][s1'[l][x]] = x
    <3>1. CASE l = lv
      BY <2>5, <2>6, <2>8, <3>1
    <3>2. CASE l # lv
      BY <2>8, <3>2 DEF TreeInv
    <3> QED BY <3>1, <3>2
  <2> QED BY <1>a, <2>7, <2>9 DEF TreeInv
<1> QED BY <1>1, <1>2

LEMMA TreeStep == TreeInv /\ [Tree!Next]_(Tree!vars) => TreeInv'
<1> SUFFICES ASSUME TreeInv, [Tree!Next]_(Tree!vars)  PROVE TreeInv'
  OBVIOUS
<1>1. CASE Tree!clear
  <2>1. \A l \in Tree!Levels : DOMAIN s1'[l] = {} /\ s2'[l] = << >> /\ Len(s2'[l]) = 0
    BY <1>1 DEF Tree!clear
  <2>2. DOMAIN s1' = Tree!Levels /\ s2' \in [Tree!Levels -> Seq(Numbers)]
    BY <1>1 DEF Tree!clear
  <2> QED BY <2>1, <2>2, FS_EmptySet DEF TreeInv, Tree!Levels
<1>2. CASE UNCHANGED Tree!vars
  BY <1>2 DEF Tree!vars, TreeInv, Tree!Levels, Tree!level
<1> QED BY <1>1, <1>2, TreeAssign DEF Tree!Next
-----------------------------------------------------------------------------
(* Octree's numbers *)

\* Bit b goes to bit 3b.
LEMMA TreeSeparated ==
  ASSUME NEW n \in SUBSET (0 .. 7)
  PROVE  Tree!getBitSeparatedNumber(n) = {3 * b : b \in n}
<1> DEFINE a == (n \cup Tree!Shl(n, 8, 32)) \cap Tree!Mask12
           b == (a \cup Tree!Shl(a, 4, 32)) \cap Tree!Mask6
           c == (b \cup Tree!Shl(b, 2, 32)) \cap Tree!Mask3
<1>0. Tree!getBitSeparatedNumber(n) = c
  BY DEF Tree!getBitSeparatedNumber
<1>1. \A k \in Int : k \in a <=> \/ k \in {0, 1, 2, 3} /\ k \in n
                                 \/ k \in {12, 13, 14, 15} /\ k - 8 \in n
  <2> SUFFICES ASSUME NEW k \in Int
               PROVE  k \in a <=> \/ k \in {0, 1, 2, 3} /\ k \in n
                                  \/ k \in {12, 13, 14, 15} /\ k - 8 \in n
    OBVIOUS
  <2>1. k \in Tree!Shl(n, 8, 32) <=> k - 8 \in n /\ k \in 0 .. 31
    BY DEF Tree!Shl, Tree!Word
  <2> QED BY <2>1 DEF Tree!Mask12
<1>2. a \in SUBSET Int
  BY DEF Tree!Mask12
<1> HIDE DEF a
<1>3. \A k \in Int : k \in b <=> \/ k \in {0, 1, 12, 13} /\ k \in a
                                 \/ k \in {6, 7, 18, 19} /\ k - 4 \in a
  <2> SUFFICES ASSUME NEW k \in Int
               PROVE  k \in b <=> \/ k \in {0, 1, 12, 13} /\ k \in a
                                  \/ k \in {6, 7, 18, 19} /\ k - 4 \in a
    OBVIOUS
  <2>1. k \in Tree!Shl(a, 4, 32) <=> k - 4 \in a /\ k \in 0 .. 31
    BY <1>2 DEF Tree!Shl, Tree!Word
  <2> QED BY <1>1, <2>1 DEF Tree!Mask6
<1>4. b \in SUBSET Int
  BY DEF Tree!Mask6
<1> HIDE DEF b
<1>5. \A k \in Int : k \in c <=> \/ k \in {0, 6, 12, 18} /\ k \in b
                                 \/ k \in {3, 9, 15, 21} /\ k - 2 \in b
  <2> SUFFICES ASSUME NEW k \in Int
               PROVE  k \in c <=> \/ k \in {0, 6, 12, 18} /\ k \in b
                                  \/ k \in {3, 9, 15, 21} /\ k - 2 \in b
    OBVIOUS
  <2>1. k \in Tree!Shl(b, 2, 32) <=> k - 2 \in b /\ k \in 0 .. 31
    BY <1>4 DEF Tree!Shl, Tree!Word
  <2> QED BY <1>3, <2>1 DEF Tree!Mask3
<1>6. c \in SUBSET {0, 3, 6, 9, 12, 15, 18, 21}
  BY DEF Tree!Mask3
<1> HIDE DEF c
<1>7. /\ 0 \in c <=> 0 \in n
      /\ 3 \in c <=> 1 \in n
      /\ 6 \in c <=> 2 \in n
      /\ 9 \in c <=> 3 \in n
      /\ 12 \in c <=> 4 \in n
      /\ 15 \in c <=> 5 \in n
      /\ 18 \in c <=> 6 \in n
      /\ 21 \in c <=> 7 \in n
  BY <1>1, <1>3, <1>5
<1>8. \A k \in c : \E i \in n : k = 3 * i
  BY <1>6, <1>7
<1>9. \A i \in n : 3 * i \in c
  BY <1>7
<1> QED BY <1>0, <1>8, <1>9

\* Bit 3b goes back to bit b.
LEMMA TreeCombined ==
  ASSUME NEW s \in SUBSET Int
  PROVE  Tree!getBitCombinedNumber(s) = {b \in 0 .. 7 : 3 * b \in s}
<1> DEFINE Joined(x, mask, n) == (x \cap mask) \cup Tree!Shr(x \cap mask, n)
           a == Joined(s, Tree!Mask3, 2)
           b == Joined(a, Tree!Mask6, 4)
           c == Joined(b, Tree!Mask12, 8) \cap (0 .. 7)
<1>0. Tree!getBitCombinedNumber(s) = c
  BY DEF Tree!getBitCombinedNumber, Tree!Word
<1>1. ASSUME NEW x \in SUBSET Int, NEW mask \in SUBSET Nat, NEW n \in Nat, NEW k \in Nat
      PROVE  k \in Joined(x, mask, n) <=> \/ k \in x /\ k \in mask
                                          \/ k + n \in x /\ k + n \in mask
  <2>1. k \in Tree!Shr(x \cap mask, n) <=> k + n \in x \cap mask
    BY DEF Tree!Shr
  <2> QED BY <2>1
<1>2. /\ Tree!Mask3 \in SUBSET Nat /\ Tree!Mask6 \in SUBSET Nat /\ Tree!Mask12 \in SUBSET Nat
  BY DEF Tree!Mask3, Tree!Mask6, Tree!Mask12
<1>a. ASSUME NEW x \in SUBSET Int, NEW mask, NEW n \in Nat
      PROVE  Joined(x, mask, n) \in SUBSET Int
  <2>1. \A i \in Tree!Shr(x \cap mask, n) : i \in Int
    BY DEF Tree!Shr
  <2>2. \A i \in Joined(x, mask, n) : i \in x \/ i \in Tree!Shr(x \cap mask, n)
    OBVIOUS
  <2> HIDE DEF Joined
  <2> QED BY <2>1, <2>2
<1> HIDE DEF Joined
<1>3. a \in SUBSET Int /\ b \in SUBSET Int
  BY <1>a
<1>4. \A k \in Nat : k \in a <=> \/ k \in s /\ k \in Tree!Mask3
                                 \/ k + 2 \in s /\ k + 2 \in Tree!Mask3
  BY <1>1, <1>2
<1>5. \A k \in Nat : k \in b <=> \/ k \in a /\ k \in Tree!Mask6
                                 \/ k + 4 \in a /\ k + 4 \in Tree!Mask6
  BY <1>1, <1>2, <1>3
<1>6. \A k \in Nat : k \in c <=> k \in 0 .. 7 /\ \/ k \in b /\ k \in Tree!Mask12
                                                 \/ k + 8 \in b /\ k + 8 \in Tree!Mask12
  BY <1>1, <1>2, <1>3
<1>7. c \in SUBSET (0 .. 7)
  OBVIOUS
<1> HIDE DEF a, b, c
<1>8. \A k \in {0, 1, 6, 7, 12, 13, 18, 19} :
        k \in a <=> IF k \in {0, 6, 12, 18} THEN k \in s ELSE k + 2 \in s
  BY <1>4 DEF Tree!Mask3
<1>9. \A k \in {0, 1, 2, 3, 12, 13, 14, 15} :
        k \in b <=> IF k \in {0, 1, 12, 13} THEN k \in a ELSE k + 4 \in a
  BY <1>5 DEF Tree!Mask6
<1>10. \A k \in 0 .. 7 : k \in c <=> IF k < 4 THEN k \in b ELSE k + 8 \in b
  BY <1>6 DEF Tree!Mask12
<1>11. /\ 0 \in c <=> 0 \in s
       /\ 1 \in c <=> 3 \in s
       /\ 2 \in c <=> 6 \in s
       /\ 3 \in c <=> 9 \in s
       /\ 4 \in c <=> 12 \in s
       /\ 5 \in c <=> 15 \in s
       /\ 6 \in c <=> 18 \in s
       /\ 7 \in c <=> 21 \in s
  BY <1>8, <1>9, <1>10
<1>12. \A k \in 0 .. 7 : k \in c <=> 3 * k \in s
  BY <1>11
<1> QED BY <1>0, <1>7, <1>12

LEMMA TreeMorton ==
  ASSUME NEW x \in SUBSET (0 .. 7), NEW y \in SUBSET (0 .. 7), NEW z \in SUBSET (0 .. 7)
  PROVE  /\ Tree!mortonNumber(x, y, z) \in SUBSET (0 .. 23)
         /\ \A b \in 0 .. 7 : /\ 3 * b \in Tree!mortonNumber(x, y, z) <=> b \in x
                              /\ 3 * b + 1 \in Tree!mortonNumber(x, y, z) <=> b \in y
                              /\ 3 * b + 2 \in Tree!mortonNumber(x, y, z) <=> b \in z
<1> DEFINE X == {3 * b : b \in x}
           Y == {3 * b : b \in y}
           Z == {3 * b : b \in z}
           n == Tree!mortonNumber(x, y, z)
<1>1. n = X \cup Tree!Shl(Y, 1, 32) \cup Tree!Shl(Z, 2, 32)
  BY TreeSeparated DEF Tree!mortonNumber
<1>2. Tree!Shl(Y, 1, 32) = {3 * b + 1 : b \in y}
  <2>1. \A b \in y : 3 * b \in Y /\ 3 * b + 1 \in 0 .. 31
    OBVIOUS
  <2>2. \A i \in Y : \E b \in y : i = 3 * b
    OBVIOUS
  <2> HIDE DEF Y
  <2> QED BY <2>1, <2>2 DEF Tree!Shl, Tree!Word
<1>3. Tree!Shl(Z, 2, 32) = {3 * b + 2 : b \in z}
  <2>1. \A b \in z : 3 * b \in Z /\ 3 * b + 2 \in 0 .. 31
    OBVIOUS
  <2>2. \A i \in Z : \E b \in z : i = 3 * b
    OBVIOUS
  <2> HIDE DEF Z
  <2> QED BY <2>1, <2>2 DEF Tree!Shl, Tree!Word
<1>4. n = {3 * b : b \in x} \cup {3 * b + 1 : b \in y} \cup {3 * b + 2 : b \in z}
  BY <1>1, <1>2, <1>3
<1> HIDE DEF n
<1>5. n \in SUBSET (0 .. 23)
  BY <1>4
<1>6. ASSUME NEW b \in 0 .. 7
      PROVE  (3 * b \in n <=> b \in x) /\ (3 * b + 1 \in n <=> b \in y) /\ (3 * b + 2 \in n <=> b \in z)
  <2>1. /\ \A i \in x : 3 * b = 3 * i => b = i
        /\ \A i \in y : 3 * b # 3 * i + 1
        /\ \A i \in z : 3 * b # 3 * i + 2
    OBVIOUS
  <2>2. /\ \A i \in x : 3 * b + 1 # 3 * i
        /\ \A i \in y : 3 * b + 1 = 3 * i + 1 => b = i
        /\ \A i \in z : 3 * b + 1 # 3 * i + 2
    OBVIOUS
  <2>3. /\ \A i \in x : 3 * b + 2 # 3 * i
        /\ \A i \in y : 3 * b + 2 # 3 * i + 1
        /\ \A i \in z : 3 * b + 2 = 3 * i + 2 => b = i
    OBVIOUS
  <2>4. 3 * b \in n <=> b \in x
    BY <1>4, <2>1
  <2>5. 3 * b + 1 \in n <=> b \in y
    BY <1>4, <2>2
  <2>6. 3 * b + 2 \in n <=> b \in z
    BY <1>4, <2>3
  <2> QED BY <2>4, <2>5, <2>6
<1> QED BY <1>5, <1>6 DEF n

LEMMA TreeShift ==
  ASSUME NEW s \in SUBSET Nat, NEW n \in Nat
  PROVE  /\ Tree!Shr(s, n) \in SUBSET Nat
         /\ \A k \in Nat : k \in Tree!Shr(s, n) <=> k + n \in s
  BY DEF Tree!Shr

\* Two numbers agree above a level if and only if they differ below it only.
LEMMA TreeAgree ==
  ASSUME NEW a \in SUBSET Nat, NEW b \in SUBSET Nat, NEW n \in Nat
  PROVE  Tree!Shr(a, n) = Tree!Shr(b, n) <=> \A k \in Tree!Xor(a, b) : k < n
<1>1. ASSUME Tree!Shr(a, n) = Tree!Shr(b, n), NEW k \in Tree!Xor(a, b)  PROVE k < n
  <2>1. k \in Nat /\ ~(k \in a <=> k \in b)
    BY DEF Tree!Xor
  <2>2. SUFFICES ASSUME k >= n  PROVE FALSE
    BY <2>1
  <2>3. PICK j \in Nat : j + n = k
    <3>1. k - n \in Nat /\ (k - n) + n = k
      BY <2>1, <2>2
    <3> QED BY <3>1
  <2>4. (j \in Tree!Shr(a, n) <=> j + n \in a) /\ (j \in Tree!Shr(b, n) <=> j + n \in b)
    BY TreeShift
  <2> QED BY <1>1, <2>1, <2>3, <2>4
<1>2. ASSUME \A k \in Tree!Xor(a, b) : k < n  PROVE Tree!Shr(a, n) = Tree!Shr(b, n)
  <2>1. ASSUME NEW k \in Nat  PROVE k \in Tree!Shr(a, n) <=> k \in Tree!Shr(b, n)
    <3>1. k + n \notin Tree!Xor(a, b)
      BY <1>2
    <3>2. k + n \in a <=> k + n \in b
      BY <3>1 DEF Tree!Xor
    <3> QED BY <3>2, TreeShift
  <2>2. Tree!Shr(a, n) \in SUBSET Nat /\ Tree!Shr(b, n) \in SUBSET Nat
    BY TreeShift
  <2> QED BY <2>1, <2>2
<1> QED BY <1>1, <1>2

\* The coordinates of a place are from 0 to 2^MAX_LEVEL - 1 (Octree.h:20).
LEMMA TreePlaces ==
  ASSUME NEW x \in SUBSET (0 .. 7), NEW y \in SUBSET (0 .. 7), NEW z \in SUBSET (0 .. 7)
  PROVE  LET n == Tree!mortonNumber(x, y, z)
         IN Tree!position(n) = <<x, y, z>> /\ Tree!up(Tree!down(n)) = n
<1> DEFINE n == Tree!mortonNumber(x, y, z)
<1>1. /\ n \in SUBSET (0 .. 23) /\ n \in SUBSET Nat /\ n \in SUBSET Int
      /\ \A b \in 0 .. 7 : /\ 3 * b \in n <=> b \in x
                           /\ 3 * b + 1 \in n <=> b \in y
                           /\ 3 * b + 2 \in n <=> b \in z
  BY TreeMorton
<1> HIDE DEF n
<1>2. Tree!getBitCombinedNumber(n) = x
  <2>1. Tree!getBitCombinedNumber(n) = {b \in 0 .. 7 : 3 * b \in n}
    BY <1>1, TreeCombined
  <2> QED BY <1>1, <2>1
<1>3. Tree!getBitCombinedNumber(Tree!Shr(n, 1)) = y
  <2>1. Tree!Shr(n, 1) \in SUBSET Int /\ \A b \in 0 .. 7 : 3 * b \in Tree!Shr(n, 1) <=> 3 * b + 1 \in n
    <3>1. Tree!Shr(n, 1) \in SUBSET Nat /\ \A j \in Nat : j \in Tree!Shr(n, 1) <=> j + 1 \in n
      BY <1>1, TreeShift
    <3>2. \A b \in 0 .. 7 : 3 * b \in Nat
      OBVIOUS
    <3> QED BY <3>1, <3>2
  <2>2. Tree!getBitCombinedNumber(Tree!Shr(n, 1)) = {b \in 0 .. 7 : 3 * b \in Tree!Shr(n, 1)}
    BY <2>1, TreeCombined
  <2> QED BY <1>1, <2>1, <2>2
<1>4. Tree!getBitCombinedNumber(Tree!Shr(n, 2)) = z
  <2>1. Tree!Shr(n, 2) \in SUBSET Int /\ \A b \in 0 .. 7 : 3 * b \in Tree!Shr(n, 2) <=> 3 * b + 2 \in n
    <3>1. Tree!Shr(n, 2) \in SUBSET Nat /\ \A j \in Nat : j \in Tree!Shr(n, 2) <=> j + 2 \in n
      BY <1>1, TreeShift
    <3>2. \A b \in 0 .. 7 : 3 * b \in Nat
      OBVIOUS
    <3> QED BY <3>1, <3>2
  <2>2. Tree!getBitCombinedNumber(Tree!Shr(n, 2)) = {b \in 0 .. 7 : 3 * b \in Tree!Shr(n, 2)}
    BY <2>1, TreeCombined
  <2> QED BY <1>1, <2>1, <2>2
<1>5. Tree!up(Tree!down(n)) = n
  <2>1. \A k \in Int : k \in Tree!down(n) <=> k - 3 \in n
    BY <1>1 DEF Tree!down, Tree!Shl, Tree!Word
  <2>2. Tree!down(n) \in SUBSET Nat
    BY DEF Tree!down, Tree!Shl, Tree!Word
  <2>3. \A k \in Nat : k \in Tree!Shr(Tree!down(n), 3) <=> k \in n
    <3> SUFFICES ASSUME NEW k \in Nat  PROVE k \in Tree!Shr(Tree!down(n), 3) <=> k \in n
      OBVIOUS
    <3>1. k \in Tree!Shr(Tree!down(n), 3) <=> k + 3 \in Tree!down(n)
      BY <2>2, TreeShift
    <3>2. k + 3 \in Int /\ (k + 3) - 3 = k
      OBVIOUS
    <3>3. k + 3 \in Tree!down(n) <=> (k + 3) - 3 \in n
      BY <2>1, <3>2
    <3> QED BY <3>1, <3>2, <3>3
  <2> QED BY <1>1, <2>2, <2>3, TreeShift DEF Tree!up
<1> QED BY <1>2, <1>3, <1>4, <1>5 DEF Tree!position, n

\* enclose() finds the lowest cell above both.
LEMMA TreeEncloses ==
  ASSUME NEW n \in SUBSET (0 .. 3 * MAX_LEVEL - 1), NEW m \in SUBSET (0 .. 3 * MAX_LEVEL - 1)
  PROVE  LET common == {k \in 0 .. MAX_LEVEL : Tree!Shr(n, 3 * k) = Tree!Shr(m, 3 * k)}
         IN /\ Tree!enclose(n, m) = Tree!Shr(n, 3 * Tree!Min(common))
            /\ Tree!enclose(m, n) = Tree!enclose(n, m)
<1> DEFINE X == Tree!Xor(n, m)
           u == Tree!level(X) + 1
           common == {k \in 0 .. MAX_LEVEL : Tree!Shr(n, 3 * k) = Tree!Shr(m, 3 * k)}
<1>0. MAX_LEVEL \in Nat /\ MAX_LEVEL >= 1 /\ n \in SUBSET Nat /\ m \in SUBSET Nat
  BY TreeConstants
<1>1. X \in SUBSET (0 .. 3 * MAX_LEVEL - 1) /\ X \cap (0 .. 3 * MAX_LEVEL - 1) = X
      /\ Tree!Xor(m, n) = X
  BY DEF Tree!Xor
<1>2. u \in 0 .. MAX_LEVEL /\ \A b \in X : b < 3 * u
  BY <1>0, <1>1, TreeLevel DEF Tree!Levels
<1>3. u # 0 => \E b \in X : 3 * (u - 1) <= b
  <2>1. Tree!level(X) # -1 => \E b \in X : 3 * Tree!level(X) <= b
    BY <1>1, TreeLevel
  <2> QED BY <1>0, <2>1, TreeLevel DEF Tree!Levels
<1> HIDE DEF u
<1>4. \A k \in 0 .. MAX_LEVEL : k \in common <=> \A b \in X : b < 3 * k
  BY <1>0, TreeAgree
<1>5. u \in common
  BY <1>2, <1>4
<1>6. ASSUME NEW k \in common  PROVE u <= k
  <2>1. k \in 0 .. MAX_LEVEL /\ \A b \in X : b < 3 * k
    BY <1>4, <1>6
  <2>2. SUFFICES ASSUME u > k  PROVE FALSE
    BY <1>2, <2>1
  <2>3. PICK b \in X : 3 * (u - 1) <= b
    BY <1>2, <1>3, <2>1, <2>2
  <2>4. b \in Int /\ b < 3 * k
    BY <1>1, <2>1, <2>3
  <2> HIDE DEF X
  <2> QED BY <1>2, <2>1, <2>2, <2>3, <2>4
<1>7. common \in SUBSET Int
  BY <1>0
<1>8. Tree!Min(common) = u
  <2> HIDE DEF common
  <2>1. \A x \in common : (\A y \in common : x <= y) => x = u
    BY <1>5, <1>6, <1>7
  <2> QED BY <1>5, <1>6, <2>1 DEF Tree!Min
<1>9. Tree!enclose(n, m) = Tree!Shr(n, 3 * u) /\ Tree!enclose(m, n) = Tree!Shr(m, 3 * u)
  BY <1>1 DEF Tree!enclose, u
<1>10. Tree!Shr(n, 3 * u) = Tree!Shr(m, 3 * u)
  BY <1>5
<1> HIDE DEF common
<1> QED BY <1>8, <1>9, <1>10 DEF common

\* The bits of a place's number are below 3 * MAX_LEVEL.
LEMMA TreeBits ==
  ASSUME NEW x \in SUBSET (0 .. MAX_LEVEL - 1), NEW y \in SUBSET (0 .. MAX_LEVEL - 1),
         NEW z \in SUBSET (0 .. MAX_LEVEL - 1)
  PROVE  /\ x \in SUBSET (0 .. 7) /\ y \in SUBSET (0 .. 7) /\ z \in SUBSET (0 .. 7)
         /\ Tree!mortonNumber(x, y, z) \in SUBSET (0 .. 3 * MAX_LEVEL - 1)
<1>1. x \in SUBSET (0 .. 7) /\ y \in SUBSET (0 .. 7) /\ z \in SUBSET (0 .. 7)
  BY TreeConstants
<1> DEFINE n == Tree!mortonNumber(x, y, z)
<1>2. /\ n \in SUBSET (0 .. 23)
      /\ \A b \in 0 .. 7 : /\ 3 * b \in n <=> b \in x
                           /\ 3 * b + 1 \in n <=> b \in y
                           /\ 3 * b + 2 \in n <=> b \in z
  BY <1>1, TreeMorton
<1> HIDE DEF n
<1>3. ASSUME NEW k \in n  PROVE k \in 0 .. 3 * MAX_LEVEL - 1
  <2>1. k \in 0 .. 23
    BY <1>2
  <2>2. PICK b \in 0 .. 7 : k = 3 * b \/ k = 3 * b + 1 \/ k = 3 * b + 2
    <3>1. k \div 3 \in 0 .. 7 /\ (k = 3 * (k \div 3) \/ k = 3 * (k \div 3) + 1 \/ k = 3 * (k \div 3) + 2)
      BY <2>1
    <3> QED BY <3>1
  <2>3. b \in 0 .. MAX_LEVEL - 1
    BY <1>2, <2>2
  <2> QED BY <2>2, <2>3, TreeConstants
<1> QED BY <1>1, <1>3 DEF n

LEMMA TreePositions ==
  ASSUME NEW x \in SUBSET Tree!Word(MAX_LEVEL), NEW y \in SUBSET Tree!Word(MAX_LEVEL),
         NEW z \in SUBSET Tree!Word(MAX_LEVEL), NEW m \in SUBSET Tree!Word(3 * MAX_LEVEL)
  PROVE  Tree!PositionsAreExact(x, y, z, m)
<1> DEFINE n == Tree!mortonNumber(x, y, z)
<1>1. /\ x \in SUBSET (0 .. 7) /\ y \in SUBSET (0 .. 7) /\ z \in SUBSET (0 .. 7)
      /\ n \in SUBSET (0 .. 3 * MAX_LEVEL - 1)
  BY TreeBits DEF Tree!Word
<1>2. Tree!position(n) = <<x, y, z>> /\ Tree!up(Tree!down(n)) = n
  BY <1>1, TreePlaces
<1>3. \A l \in Tree!Levels : Tree!Cell(l, x, y, z) = Tree!Shr(n, 3 * (MAX_LEVEL - 1 - l))
  <2> SUFFICES ASSUME NEW l \in Tree!Levels
               PROVE  Tree!Cell(l, x, y, z) = Tree!Shr(n, 3 * (MAX_LEVEL - 1 - l))
    OBVIOUS
  <2>1. (MAX_LEVEL - 1 - l) * 3 = 3 * (MAX_LEVEL - 1 - l)
    BY TreeConstants DEF Tree!Levels
  <2> QED BY <2>1 DEF Tree!Cell
<1> HIDE DEF n
<1>4. m \in SUBSET (0 .. 3 * MAX_LEVEL - 1)
  BY DEF Tree!Word
<1> DEFINE common == {k \in 0 .. MAX_LEVEL : Tree!Shr(n, 3 * k) = Tree!Shr(m, 3 * k)}
<1>5. /\ Tree!enclose(n, m) = Tree!Shr(n, 3 * Tree!Min(common))
      /\ Tree!enclose(m, n) = Tree!enclose(n, m)
  BY <1>1, <1>4, TreeEncloses
<1> QED BY <1>2, <1>3, <1>5 DEF Tree!PositionsAreExact, n
-----------------------------------------------------------------------------
(* Readline: s1 is ed, s2 key_state, s3 getting, s4 isOpen, s5 history,      *)
(* s6 command, s7 outf, s8 file, s9 clean                                   *)

Strings == Seq(Characters)
Term == [row : [1 .. Line!Width -> Characters], col : Nat]
Ed == [buf : Strings, cursor : Nat, history_i : Nat, term : Term]

LEMMA LineConstants ==
  /\ Prompt \in Strings /\ Len(Prompt) \in Nat /\ MaxLine \in Nat /\ MaxHistory \in Nat
  /\ Line!Width = Len(Prompt) + MaxLine + 1 /\ Line!Width \in Nat
  /\ Commands \subseteq Seq(Strings) /\ Entered \subseteq Strings /\ Saved \subseteq Seq(Strings)
<1>1. /\ Prompt \in Strings /\ MaxLine \in Nat /\ MaxHistory \in Nat
      /\ Commands \subseteq Seq(Strings) /\ Entered \subseteq Strings /\ Saved \subseteq Seq(Strings)
  BY ObjectsAssumption, LineAssumption DEF Strings
<1> QED BY <1>1 DEF Line!Width, Strings

LEMMA LineRecords ==
  /\ \A t \in Term : t.row \in [1 .. Line!Width -> Characters] /\ t.col \in Nat
  /\ \A e \in Ed : /\ e.buf \in Strings /\ e.cursor \in Nat /\ e.history_i \in Nat /\ e.term \in Term
                   /\ Len(e.buf) \in Nat
  BY DEF Term, Ed, Strings

\* The characters of the prompt, of a line b, and blanks.
Shown(row, b) ==
  \A i \in 1 .. Line!Width :
    row[i] = IF i <= Len(Prompt) THEN Prompt[i]
             ELSE IF i <= Len(Prompt) + Len(b) THEN b[i - Len(Prompt)] ELSE Line!Space
Shows(e) == Shown(e.term.row, e.buf) /\ e.term.col = Len(Prompt) + e.cursor + 1

LEMMA LinePut ==
  ASSUME NEW t \in Term, NEW s \in Strings
  PROVE  /\ Line!Put(t, s) \in Term /\ Line!Put(t, s).col = t.col + Len(s)
         /\ \A i \in 1 .. Line!Width :
              Line!Put(t, s).row[i] = IF t.col <= i /\ i < t.col + Len(s) THEN s[i - t.col + 1]
                                      ELSE t.row[i]
<1> DEFINE w == Line!Width
           row == [i \in 1 .. w |-> IF i \in t.col .. t.col + Len(s) - 1 THEN s[i - t.col + 1]
                                    ELSE t.row[i]]
<1>1. Line!Put(t, s) = [row |-> row, col |-> t.col + Len(s)]
  BY DEF Line!Put
<1>2. t.row \in [1 .. w -> Characters] /\ t.col \in Nat /\ Len(s) \in Nat /\ w \in Nat
  BY LineRecords, LineConstants DEF Strings
<1>3. ASSUME NEW i \in 1 .. w
      PROVE  row[i] = (IF t.col <= i /\ i < t.col + Len(s) THEN s[i - t.col + 1] ELSE t.row[i])
             /\ row[i] \in Characters
  <2> HIDE DEF w
  <2>1. i \in t.col .. t.col + Len(s) - 1 <=> t.col <= i /\ i < t.col + Len(s)
    BY <1>2
  <2>2. i \in t.col .. t.col + Len(s) - 1 => i - t.col + 1 \in 1 .. Len(s)
    BY <1>2
  <2> QED BY <1>2, <2>1, <2>2 DEF Strings
<1>4. row \in [1 .. w -> Characters]
  BY <1>3
<1> HIDE DEF row, w
<1>5. [row |-> row, col |-> t.col + Len(s)] \in Term
  BY <1>2, <1>4 DEF Term, w
<1> QED BY <1>1, <1>3, <1>5 DEF w

LEMMA LineMove ==
  ASSUME NEW t \in Term, NEW c \in Nat
  PROVE  /\ Line!Move(t, c) \in Term /\ Line!Move(t, c).col = Len(Prompt) + c + 1
         /\ Line!Move(t, c).row = t.row
<1>1. Len(Prompt) + c + 1 \in Nat
  BY LineConstants
<1> QED BY <1>1 DEF Line!Move, Term

LEMMA LineBlank ==
  ASSUME NEW n \in Nat
  PROVE  Line!Blank(n) \in Strings /\ Len(Line!Blank(n)) = n
         /\ \A i \in 1 .. n : Line!Blank(n)[i] = Line!Space
<1>1. Line!Space \in Characters
  BY LineAssumption DEF Line!Text
<1> QED BY <1>1 DEF Line!Blank, Strings

LEMMA LineNewRow ==
  /\ Line!NewRow \in Term /\ Line!NewRow.col = 1
  /\ \A i \in 1 .. Line!Width : Line!NewRow.row[i] = Line!Space
<1>1. Line!Blank(Line!Width) \in [1 .. Line!Width -> Characters]
  <2>1. Line!Space \in Characters
    BY LineAssumption DEF Line!Text
  <2> QED BY <2>1 DEF Line!Blank
<1> QED BY <1>1 DEF Line!NewRow, Line!Blank, Term

\* What Redrawn draws, and where.
LEMMA LineRedrawn ==
  ASSUME NEW e \in Ed, e.cursor <= Len(e.buf), NEW rest \in Strings,
         NEW b \in Strings, Len(b) = e.cursor + Len(rest), 
         \A i \in 1 .. e.cursor : b[i] = e.buf[i],
         \A i \in 1 .. Len(rest) : b[e.cursor + i] = rest[i]
  PROVE  /\ Line!Redrawn(e, rest) \in Term
         /\ Line!Redrawn(e, rest).col = Len(Prompt) + e.cursor + 1
         /\ Shows(e) => Shown(Line!Redrawn(e, rest).row, b)
<1> DEFINE w == Line!Width
           p == Len(Prompt)
           c == e.cursor
           n == Len(e.buf)
           t1 == Line!Put(e.term, Line!Blank(n - c))
           t2 == Line!Move(t1, c)
           t3 == Line!Put(t2, rest)
           t4 == Line!Move(t3, c)
<1>0. /\ e.term \in Term /\ c \in Nat /\ n \in Nat /\ n - c \in Nat /\ e.buf \in Strings
      /\ p \in Nat /\ w \in Nat /\ Len(rest) \in Nat /\ Len(b) = c + Len(rest)
  BY LineRecords, LineConstants DEF Strings
<1>1. Line!Redrawn(e, rest) = t4
  BY DEF Line!Redrawn
<1>2. /\ Line!Blank(n - c) \in Strings /\ Len(Line!Blank(n - c)) = n - c
      /\ \A i \in 1 .. n - c : Line!Blank(n - c)[i] = Line!Space
  BY <1>0, LineBlank
<1> HIDE DEF c, n, p, w
<1>3. /\ t1 \in Term
      /\ \A i \in 1 .. w :
           t1.row[i] = IF e.term.col <= i /\ i < e.term.col + (n - c)
                       THEN Line!Blank(n - c)[i - e.term.col + 1] ELSE e.term.row[i]
  BY <1>0, <1>2, LinePut DEF w
<1> HIDE DEF t1
<1>4. t2 \in Term /\ t2.row = t1.row /\ t2.col = p + c + 1
  BY <1>0, <1>3, LineMove DEF p
<1> HIDE DEF t2
<1>5. /\ t3 \in Term
      /\ \A i \in 1 .. w :
           t3.row[i] = IF p + c + 1 <= i /\ i < p + c + 1 + Len(rest)
                       THEN rest[i - (p + c + 1) + 1] ELSE t1.row[i]
  BY <1>4, LinePut DEF w
<1> HIDE DEF t3
<1>6. t4 \in Term /\ t4.row = t3.row /\ t4.col = p + c + 1
  BY <1>0, <1>5, LineMove DEF p
<1> HIDE DEF t4
<1>7. ASSUME Shows(e), NEW i \in 1 .. w
      PROVE  t3.row[i] = IF i <= p THEN Prompt[i] ELSE IF i <= p + Len(b) THEN b[i - p] ELSE Line!Space
  <2>1. /\ e.term.col = p + c + 1
        /\ e.term.row[i] = IF i <= p THEN Prompt[i] ELSE IF i <= p + n THEN e.buf[i - p] ELSE Line!Space
    BY <1>7 DEF Shows, Shown, p, c, n, w
  <2>2. i \in Nat
    BY <1>0
  <2>3. CASE i <= p
    <3>1. t1.row[i] = Prompt[i]
      BY <1>0, <1>3, <2>1, <2>2, <2>3
    <3> QED BY <1>0, <1>5, <2>2, <2>3, <3>1
  <2>4. CASE p < i /\ i <= p + c
    <3>1. i <= p + n /\ i - p \in 1 .. c
      <4>1. {i, p, c, n} \subseteq Nat /\ n - c \in Nat
        BY <1>0, <2>2
      <4>2. c <= n
        BY <4>1
      <4> QED BY <2>4, <4>1, <4>2
    <3>2. t1.row[i] = e.buf[i - p]
      <4>1. ~(p + c + 1 <= i) /\ ~(i <= p)
        BY <1>0, <2>2, <2>4
      <4>2. t1.row[i] = e.term.row[i]
        BY <1>3, <2>1, <4>1
      <4> QED BY <2>1, <3>1, <4>1, <4>2
    <3>3. b[i - p] = e.buf[i - p]
      BY <3>1 DEF c
    <3>a. ~(p + c + 1 <= i)
      BY <1>0, <2>2, <2>4
    <3>4. t3.row[i] = b[i - p]
      BY <1>5, <3>a, <3>2, <3>3
    <3>5. ~(i <= p) /\ i <= p + Len(b)
      BY <1>0, <2>2, <2>4
    <3> QED BY <3>4, <3>5
  <2>5. CASE p + c < i /\ i <= p + c + Len(rest)
    <3>1. PICK j \in 1 .. Len(rest) : i = p + c + j
      <4>1. i - (p + c) \in 1 .. Len(rest) /\ i = p + c + (i - (p + c))
        BY <1>0, <2>2, <2>5
      <4> QED BY <4>1
    <3>2. i - (p + c + 1) + 1 = j /\ i - p = c + j
      BY <1>0, <3>1
    <3>3. t3.row[i] = rest[j]
      <4>1. p + c + 1 <= i /\ i < p + c + 1 + Len(rest)
        BY <1>0, <3>1
      <4> QED BY <1>5, <3>2, <4>1
    <3>4. b[c + j] = rest[j]
      BY <3>1 DEF c
    <3>5. ~(i <= p) /\ i <= p + Len(b)
      <4>1. {i, p, c, Len(rest)} \subseteq Nat /\ Len(b) = c + Len(rest)
        BY <1>0, <2>2
      <4> QED BY <2>5, <4>1
    <3> QED BY <3>2, <3>3, <3>4, <3>5
  <2>6. CASE i > p + c + Len(rest)
    <3>1. t3.row[i] = t1.row[i]
      BY <1>0, <1>5, <2>2, <2>6
    <3>2. t1.row[i] = Line!Space
      <4>1. CASE i <= p + n
        <5>0. e.term.col = p + c + 1 /\ p + c + 1 <= i /\ i < p + c + 1 + (n - c)
          BY <1>0, <2>1, <2>2, <2>6, <4>1
        <5>1. e.term.col <= i /\ i < e.term.col + (n - c)
          BY <5>0
        <5>2. i - e.term.col + 1 \in 1 .. n - c
          BY <1>0, <2>2, <5>0
        <5> QED BY <1>2, <1>3, <5>1, <5>2
      <4>2. CASE i > p + n
        <5>1. ~(i < p + c + 1 + (n - c)) /\ ~(i <= p) /\ ~(i <= p + n)
          BY <1>0, <2>2, <4>2
        <5>2. t1.row[i] = e.term.row[i]
          BY <1>3, <2>1, <5>1
        <5> QED BY <2>1, <5>1, <5>2
      <4> QED BY <1>0, <2>2, <4>1, <4>2
    <3> QED BY <1>0, <2>2, <2>6, <3>1, <3>2
  <2> QED BY <1>0, <2>2, <2>3, <2>4, <2>5, <2>6
<1> QED BY <1>1, <1>6, <1>7 DEF Shown, w, p, c

\* A line in place of the line, over blanks.
LEMMA LineDrawnOver ==
  ASSUME NEW t \in Term, t.col = Len(Prompt) + 1, NEW b \in Strings,
         \A i \in 1 .. Line!Width : i <= Len(Prompt) => t.row[i] = Prompt[i],
         \A i \in 1 .. Line!Width : i > Len(Prompt) + Len(b) => t.row[i] = Line!Space
  PROVE  Shown(Line!Put(t, b).row, b)
<1>0. Len(Prompt) \in Nat /\ Line!Width \in Nat /\ Len(b) \in Nat
  BY LineConstants DEF Strings
<1>1. \A i \in 1 .. Line!Width :
        Line!Put(t, b).row[i] = IF Len(Prompt) + 1 <= i /\ i < Len(Prompt) + 1 + Len(b)
                                THEN b[i - (Len(Prompt) + 1) + 1] ELSE t.row[i]
  BY LinePut
<1>2. ASSUME NEW i \in 1 .. Line!Width
      PROVE  Line!Put(t, b).row[i] =
               IF i <= Len(Prompt) THEN Prompt[i]
               ELSE IF i <= Len(Prompt) + Len(b) THEN b[i - Len(Prompt)] ELSE Line!Space
  <2>1. i \in Nat /\ i - (Len(Prompt) + 1) + 1 = i - Len(Prompt)
    BY <1>0
  <2>2. CASE i <= Len(Prompt)
    BY <1>0, <1>1, <2>1, <2>2
  <2>3. CASE Len(Prompt) < i /\ i <= Len(Prompt) + Len(b)
    BY <1>0, <1>1, <2>1, <2>3
  <2>4. CASE i > Len(Prompt) + Len(b)
    <3>1. Line!Put(t, b).row[i] = t.row[i]
      BY <1>0, <1>1, <2>1, <2>4
    <3> QED BY <1>0, <2>1, <2>4, <3>1
  <2> QED BY <1>0, <2>1, <2>2, <2>3, <2>4
<1> QED BY <1>2 DEF Shown

\* The prompt and a line from the start of the row.
LEMMA LineDrawn ==
  ASSUME NEW t \in Term, t.col = 1, NEW b \in Strings,
         \A i \in 1 .. Line!Width : i > Len(Prompt) + Len(b) => t.row[i] = Line!Space
  PROVE  /\ Line!Put(t, Prompt \o b) \in Term
         /\ Line!Put(t, Prompt \o b).col = Len(Prompt) + Len(b) + 1
         /\ Shown(Line!Put(t, Prompt \o b).row, b)
<1> DEFINE s == Prompt \o b
<1>0. Len(Prompt) \in Nat /\ Line!Width \in Nat /\ Len(b) \in Nat
  BY LineConstants DEF Strings
<1>1. /\ s \in Strings /\ Len(s) = Len(Prompt) + Len(b)
      /\ \A i \in 1 .. Len(Prompt) : s[i] = Prompt[i]
      /\ \A i \in Len(Prompt) + 1 .. Len(Prompt) + Len(b) : s[i] = b[i - Len(Prompt)]
  BY LineConstants DEF Strings
<1> HIDE DEF s
<1>2. /\ Line!Put(t, s) \in Term /\ Line!Put(t, s).col = 1 + Len(s)
      /\ \A i \in 1 .. Line!Width :
           Line!Put(t, s).row[i] = IF 1 <= i /\ i < 1 + Len(s) THEN s[i - 1 + 1] ELSE t.row[i]
  <2>1. /\ Line!Put(t, s) \in Term /\ Line!Put(t, s).col = t.col + Len(s)
        /\ \A i \in 1 .. Line!Width :
             Line!Put(t, s).row[i] = IF t.col <= i /\ i < t.col + Len(s) THEN s[i - t.col + 1] ELSE t.row[i]
    BY <1>1, LinePut
  <2> QED BY <2>1
<1>3. ASSUME NEW i \in 1 .. Line!Width
      PROVE  Line!Put(t, s).row[i] =
               IF i <= Len(Prompt) THEN Prompt[i]
               ELSE IF i <= Len(Prompt) + Len(b) THEN b[i - Len(Prompt)] ELSE Line!Space
  <2>1. i \in Nat /\ i - 1 + 1 = i /\ 1 <= i
    BY <1>0
  <2>2. CASE i <= Len(Prompt)
    BY <1>0, <1>1, <1>2, <2>1, <2>2
  <2>3. CASE Len(Prompt) < i /\ i <= Len(Prompt) + Len(b)
    <3>1. i \in Len(Prompt) + 1 .. Len(Prompt) + Len(b) /\ i < 1 + Len(s)
      BY <1>0, <1>1, <2>1, <2>3
    <3>2. Line!Put(t, s).row[i] = b[i - Len(Prompt)]
      BY <1>1, <1>2, <2>1, <3>1
    <3> QED BY <1>0, <2>1, <2>3, <3>2
  <2>4. CASE i > Len(Prompt) + Len(b)
    <3>1. Line!Put(t, s).row[i] = t.row[i]
      BY <1>0, <1>1, <1>2, <2>1, <2>4
    <3> QED BY <1>0, <2>1, <2>4, <3>1
  <2> QED BY <1>0, <2>1, <2>2, <2>3, <2>4
<1> QED BY <1>0, <1>1, <1>2, <1>3 DEF Shown, s

\* The row, as the property states it.
LEMMA LineRow ==
  ASSUME NEW row \in [1 .. Line!Width -> Characters], NEW b \in Strings, Len(b) <= MaxLine, Shown(row, b)
  PROVE  row = (Prompt \o b) \o Line!Blank(Line!Width - Len(Prompt \o b))
<1> DEFINE s == Prompt \o b
           k == Line!Width - Len(s)
           r == s \o Line!Blank(k)
<1>0. Len(Prompt) \in Nat /\ Line!Width \in Nat /\ Len(b) \in Nat /\ MaxLine \in Nat
      /\ Line!Width = Len(Prompt) + MaxLine + 1
  BY LineConstants DEF Strings
<1>1. /\ s \in Strings /\ Len(s) = Len(Prompt) + Len(b)
      /\ \A i \in 1 .. Len(Prompt) : s[i] = Prompt[i]
      /\ \A i \in Len(Prompt) + 1 .. Len(Prompt) + Len(b) : s[i] = b[i - Len(Prompt)]
  BY LineConstants DEF Strings
<1> HIDE DEF s
<1>2. k \in Nat /\ Len(s) + k = Line!Width
  BY <1>0, <1>1
<1>3. Line!Blank(k) \in Strings /\ Len(Line!Blank(k)) = k /\ \A i \in 1 .. k : Line!Blank(k)[i] = Line!Space
  BY <1>2, LineBlank
<1> HIDE DEF k
<1>4. /\ r \in Strings /\ Len(r) = Line!Width /\ \A i \in 1 .. Len(s) : r[i] = s[i]
      /\ \A i \in Len(s) + 1 .. Line!Width : r[i] = Line!Blank(k)[i - Len(s)]
  <2> DEFINE z == Line!Blank(k)
  <2>1. z \in Seq(Characters) /\ s \in Seq(Characters) /\ Len(s) + Len(z) = Line!Width
    BY <1>1, <1>2, <1>3 DEF Strings
  <2> HIDE DEF z
  <2>2. /\ s \o z \in Seq(Characters) /\ Len(s \o z) = Len(s) + Len(z)
        /\ \A i \in 1 .. Len(s) : (s \o z)[i] = s[i]
        /\ \A i \in Len(s) + 1 .. Len(s) + Len(z) : (s \o z)[i] = z[i - Len(s)]
    BY <2>1
  <2> QED BY <2>1, <2>2 DEF Strings, z
<1> HIDE DEF r
<1>5. ASSUME NEW i \in 1 .. Line!Width  PROVE row[i] = r[i]
  <2>0. /\ row[i] = IF i <= Len(Prompt) THEN Prompt[i]
                    ELSE IF i <= Len(Prompt) + Len(b) THEN b[i - Len(Prompt)] ELSE Line!Space
        /\ i \in Nat
    BY <1>0 DEF Shown
  <2>1. CASE i <= Len(Prompt)
    <3>1. i \in 1 .. Len(Prompt) /\ i \in 1 .. Len(s)
      BY <1>0, <1>1, <2>0, <2>1
    <3> QED BY <1>1, <1>4, <2>0, <2>1, <3>1
  <2>2. CASE Len(Prompt) < i /\ i <= Len(Prompt) + Len(b)
    <3>1. i \in Len(Prompt) + 1 .. Len(Prompt) + Len(b) /\ i \in 1 .. Len(s) /\ ~(i <= Len(Prompt))
      BY <1>0, <1>1, <2>0, <2>2
    <3> QED BY <1>1, <1>4, <2>0, <2>2, <3>1
  <2>3. CASE i > Len(Prompt) + Len(b)
    <3>1. i \in Len(s) + 1 .. Line!Width /\ i - Len(s) \in 1 .. k
          /\ ~(i <= Len(Prompt)) /\ ~(i <= Len(Prompt) + Len(b))
      BY <1>0, <1>1, <1>2, <2>0, <2>3
    <3> QED BY <1>3, <1>4, <2>0, <3>1
  <2> QED BY <1>0, <2>0, <2>1, <2>2, <2>3
<1>6. r \in [1 .. Line!Width -> Characters]
  BY <1>4 DEF Strings
<1>7. row = r
  <2>1. row = [i \in 1 .. Line!Width |-> row[i]]
    OBVIOUS
  <2>2. r = [i \in 1 .. Line!Width |-> r[i]]
    BY <1>6
  <2>3. [i \in 1 .. Line!Width |-> row[i]] = [i \in 1 .. Line!Width |-> r[i]]
    BY <1>5, Zenon
  <2> QED BY <2>1, <2>2, <2>3, Zenon
<1> QED BY <1>7 DEF r, k, s
-----------------------------------------------------------------------------
(* What Readline's recursive functions compute *)

LEMMA NatInduct ==
  ASSUME NEW T \in SUBSET Nat, 0 \in T, \A n \in T : n + 1 \in T
  PROVE  \A n \in Nat : n \in T
<1> SUFFICES ASSUME Nat \ T # {}  PROVE FALSE
  OBVIOUS
<1>1. PICK m \in Nat \ T : \A y \in Nat \ T : m <= y
  <2>1. Nat \ T \in SUBSET Nat
    OBVIOUS
  <2> QED BY <2>1, LeastNumber
<1>2. m # 0 /\ m - 1 \in Nat
  BY <1>1
<1>3. m - 1 \in T
  BY <1>1, <1>2
<1>4. (m - 1) + 1 \in T
  BY <1>3
<1> QED BY <1>1, <1>2, <1>4

Unfolds(f, a, F, m) == f[0] = a /\ \A i \in 1 .. m : f[i] = F[<<i, f[i - 1]>>]

LEMMA Recursion ==
  ASSUME NEW S, NEW a \in S, NEW F \in [Nat \X S -> S], NEW m \in Nat
  PROVE  \E f \in [0 .. m -> S] : Unfolds(f, a, F, m)
<1> DEFINE Is(n, f) == f[0] = a /\ \A i \in 1 .. n : f[i] = F[<<i, f[i - 1]>>]
           T == {n \in Nat : \E f \in [0 .. n -> S] : Is(n, f)}
<1>1. 0 \in T
  <2> DEFINE f == [i \in 0 .. 0 |-> a]
  <2>1. f \in [0 .. 0 -> S] /\ Is(0, f)
    OBVIOUS
  <2> QED BY <2>1
<1>2. ASSUME NEW n \in T  PROVE n + 1 \in T
  <2>1. PICK f \in [0 .. n -> S] : Is(n, f)
    BY <1>2
  <2> DEFINE g == [i \in 0 .. n + 1 |-> IF i <= n THEN f[i] ELSE F[<<n + 1, f[n]>>]]
  <2>2. n \in Nat /\ f[n] \in S /\ F[<<n + 1, f[n]>>] \in S
    OBVIOUS
  <2>3. g \in [0 .. n + 1 -> S]
    BY <2>2
  <2>4. /\ \A i \in 0 .. n : g[i] = f[i]
        /\ g[n + 1] = F[<<n + 1, f[n]>>]
    BY <2>2
  <2> HIDE DEF g
  <2>5. ASSUME NEW i \in 1 .. n + 1  PROVE g[i] = F[<<i, g[i - 1]>>]
    <3>1. CASE i = n + 1
      <4>1. i - 1 = n /\ n \in 0 .. n
        BY <2>2, <3>1
      <4> QED BY <2>4, <3>1, <4>1
    <3>2. CASE i # n + 1
      <4>1. i \in 1 .. n /\ i \in 0 .. n /\ i - 1 \in 0 .. n
        BY <2>2, <3>2
      <4>2. f[i] = F[<<i, f[i - 1]>>]
        BY <2>1, <4>1
      <4> QED BY <2>4, <4>1, <4>2
    <3> QED BY <3>1, <3>2
  <2>6. Is(n + 1, g)
    <3>1. 0 \in 0 .. n
      BY <2>2
    <3>2. g[0] = a
      BY <2>1, <2>4, <3>1
    <3> QED BY <2>5, <3>2
  <2> HIDE DEF Is
  <2> QED BY <2>2, <2>3, <2>6
<1>3. T \in SUBSET Nat
  OBVIOUS
<1> HIDE DEF T
<1>4. m \in T
  BY <1>1, <1>2, <1>3, NatInduct
<1>5. PICK f \in [0 .. m -> S] : Is(m, f)
  BY <1>4 DEF T
<1>6. Unfolds(f, a, F, m)
  BY <1>5 DEF Unfolds
<1> QED BY <1>6

\* What Those does with each more element.
Collects(r, f, P) ==
  /\ r \in [0 .. Len(f) -> Seq(Strings)] /\ r[0] = << >> /\ Line!Those(f, P) = r[Len(f)]
  /\ \A i \in 1 .. Len(f) : r[i] = IF f[i] \in P THEN Append(r[i - 1], f[i]) ELSE r[i - 1]

LEMMA ThoseAre ==
  ASSUME NEW f \in Seq(Strings), NEW P
  PROVE  \E r : Collects(r, f, P)
<1> DEFINE n == Len(f)
           Eq(g) == g = [i \in 0 .. n |-> IF i = 0 THEN << >>
                                          ELSE IF f[i] \in P THEN Append(g[i - 1], f[i])
                                          ELSE g[i - 1]]
<1>0. n \in Nat /\ \A i \in 1 .. n : f[i] \in Strings
  OBVIOUS
<1>1. \E g : Eq(g)
  <2> DEFINE S == Seq(Strings)
             F == [p \in Nat \X S |-> IF p[1] \in 1 .. n /\ f[p[1]] \in P THEN Append(p[2], f[p[1]]) ELSE p[2]]
  <2>1. F \in [Nat \X S -> S]
    BY <1>0
  <2>2. << >> \in S
    OBVIOUS
  <2>3. ASSUME NEW i \in 1 .. n, NEW s \in S
        PROVE  F[<<i, s>>] = IF f[i] \in P THEN Append(s, f[i]) ELSE s
    BY <1>0
  <2> HIDE DEF F, S, n
  <2>4. PICK g \in [0 .. n -> S] : g[0] = << >> /\ \A i \in 1 .. n : g[i] = F[<<i, g[i - 1]>>]
    <3>1. PICK g \in [0 .. n -> S] : Unfolds(g, << >>, F, n)
      BY <1>0, <2>1, <2>2, Recursion, Zenon
    <3> QED BY <3>1 DEF Unfolds
  <2> DEFINE h == [i \in 0 .. n |-> IF i = 0 THEN << >>
                                    ELSE IF f[i] \in P THEN Append(g[i - 1], f[i]) ELSE g[i - 1]]
  <2>5. ASSUME NEW i \in 0 .. n  PROVE g[i] = h[i]
    <3>1. CASE i = 0
      BY <1>0, <2>4, <3>1
    <3>2. CASE i # 0
      <4>1. i \in 1 .. n /\ i - 1 \in 0 .. n
        BY <1>0, <3>2
      <4>2. g[i] = F[<<i, g[i - 1]>>] /\ g[i - 1] \in S
        BY <2>4, <4>1
      <4> QED BY <2>3, <3>2, <4>1, <4>2
    <3> QED BY <3>1, <3>2
  <2>6. g = [i \in 0 .. n |-> g[i]]
    BY <2>4
  <2>7. g = h
    BY <2>5, <2>6, Zenon
  <2> QED BY <2>7
<1> DEFINE r == CHOOSE x : Eq(x)
<1>2. Eq(r)
  BY <1>1
<1>3. Line!Those(f, P) = r[n]
  BY DEF Line!Those
<1> HIDE DEF r, n
<1>4. r[0] = << >> /\ << >> \in Seq(Strings)
  BY <1>0, <1>2
<1>5. ASSUME NEW i \in 1 .. n
      PROVE  r[i] = IF f[i] \in P THEN Append(r[i - 1], f[i]) ELSE r[i - 1]
  <2> DEFINE z(j) == IF j = 0 THEN << >> ELSE IF f[j] \in P THEN Append(r[j - 1], f[j]) ELSE r[j - 1]
  <2>1. i \in 0 .. n /\ i # 0
    BY <1>0
  <2>2. r = [j \in 0 .. n |-> z(j)]
    BY <1>2, Zenon
  <2>3. z(i) = IF f[i] \in P THEN Append(r[i - 1], f[i]) ELSE r[i - 1]
    BY <2>1, Zenon
  <2> HIDE DEF z
  <2>4. r[i] = z(i)
    BY <2>1, <2>2
  <2> QED BY <2>3, <2>4, Zenon
<1> DEFINE T == {i \in Nat : i <= n => r[i] \in Seq(Strings)}
<1>6. 0 \in T
  <2> HIDE DEF n
  <2> QED BY <1>4
<1>7. ASSUME NEW i \in T  PROVE i + 1 \in T
  <2> SUFFICES ASSUME i + 1 <= n  PROVE r[i + 1] \in Seq(Strings)
    OBVIOUS
  <2>1. i \in Nat /\ i + 1 \in 1 .. n /\ i <= n /\ (i + 1) - 1 = i
    BY <1>0
  <2>2. r[i] \in Seq(Strings) /\ f[i + 1] \in Strings
    BY <1>0, <2>1
  <2>3. r[i + 1] = IF f[i + 1] \in P THEN Append(r[i], f[i + 1]) ELSE r[i]
    BY <1>5, <2>1
  <2> QED BY <2>2, <2>3
<1>8. \A i \in Nat : i \in T
  <2>1. T \in SUBSET Nat
    OBVIOUS
  <2> HIDE DEF T
  <2> QED BY <1>6, <1>7, <2>1, NatInduct
<1>9. r \in [0 .. n -> Seq(Strings)]
  <2>1. \A i \in 0 .. n : r[i] \in Seq(Strings)
    BY <1>0, <1>8
  <2> DEFINE z == [i \in 0 .. n |-> IF i = 0 THEN << >>
                                    ELSE IF f[i] \in P THEN Append(r[i - 1], f[i]) ELSE r[i - 1]]
  <2>2. r = z /\ DOMAIN z = 0 .. n /\ z = [i \in 0 .. n |-> z[i]]
    BY <1>2, Zenon
  <2> HIDE DEF z
  <2> QED BY <2>1, <2>2
<1>10. Collects(r, f, P)
  BY <1>3, <1>4, <1>5, <1>9 DEF n, Collects
<1> QED BY <1>10

LEMMA LinesAre ==
  ASSUME NEW f \in Seq(Strings)
  PROVE  \E r \in [0 .. Len(f) -> Seq(Strings)] :
           /\ r[0] = << >> /\ Line!Lines(f) = r[Len(f)]
           /\ \A i \in 1 .. Len(f) : r[i] = IF f[i] # << >> THEN Append(r[i - 1], f[i]) ELSE r[i - 1]
<1> DEFINE P == Line!Range(f) \ {<< >>}
<1> HIDE DEF P
<1>0. PICK r : Collects(r, f, P)
  BY ThoseAre, Zenon
<1>1. /\ r \in [0 .. Len(f) -> Seq(Strings)] /\ r[0] = << >> /\ Line!Those(f, P) = r[Len(f)]
      /\ \A i \in 1 .. Len(f) : r[i] = IF f[i] \in P THEN Append(r[i - 1], f[i]) ELSE r[i - 1]
  BY <1>0 DEF Collects
<1>2. \A i \in 1 .. Len(f) : f[i] \in P <=> f[i] # << >>
  BY DEF Line!Range, P
<1>3. Line!Lines(f) = Line!Those(f, P)
  BY DEF Line!Lines, P
<1>4. \A i \in 1 .. Len(f) : r[i] = IF f[i] # << >> THEN Append(r[i - 1], f[i]) ELSE r[i - 1]
  BY <1>1, <1>2, Zenon
<1> QED BY <1>1, <1>3, <1>4
-----------------------------------------------------------------------------
(* Prefixes and suffixes *)

LEMMA LinePrefix ==
  ASSUME NEW S, NEW s \in Seq(S), NEW t \in Seq(S)
  PROVE  Line!IsPrefix(s, t) <=> Len(s) <= Len(t) /\ \A i \in 1 .. Len(s) : s[i] = t[i]
<1>1. Line!IsPrefix(s, t) <=> Len(s) <= Len(t) /\ SubSeq(s, 1, Len(s)) = SubSeq(t, 1, Len(s))
  BY DEF Line!IsPrefix
<1>2. ASSUME Len(s) <= Len(t)
      PROVE  SubSeq(s, 1, Len(s)) = SubSeq(t, 1, Len(s)) <=> \A i \in 1 .. Len(s) : s[i] = t[i]
  <2> DEFINE a == SubSeq(s, 1, Len(s))
             b == SubSeq(t, 1, Len(s))
  <2>1. a \in Seq(S) /\ b \in Seq(S) /\ Len(a) = Len(s) /\ Len(b) = Len(s)
    BY <1>2
  <2>2. \A i \in 1 .. Len(s) : a[i] = s[i] /\ b[i] = t[i]
    BY <1>2
  <2> HIDE DEF a, b
  <2>3. (\A i \in 1 .. Len(s) : s[i] = t[i]) => a = b
    <3> HAVE \A i \in 1 .. Len(s) : s[i] = t[i]
    <3>1. \A i \in 1 .. Len(s) : a[i] = b[i]
      BY <2>2
    <3> QED BY <2>1, <3>1, SeqEqual
  <2> QED BY <2>2, <2>3 DEF a, b
<1> QED BY <1>1, <1>2

LEMMA LineSuffix ==
  ASSUME NEW S, NEW s \in Seq(S), NEW t \in Seq(S)
  PROVE  Line!IsSuffix(s, t) <=> Len(s) <= Len(t) /\ \A i \in 1 .. Len(s) : s[i] = t[Len(t) - Len(s) + i]
<1> DEFINE a == Line!Reverse(s)
           b == Line!Reverse(t)
<1>0. Len(s) \in Nat /\ Len(t) \in Nat
  OBVIOUS
<1>1. /\ a \in Seq(S) /\ Len(a) = Len(s) /\ \A i \in 1 .. Len(s) : a[i] = s[Len(s) - i + 1]
      /\ b \in Seq(S) /\ Len(b) = Len(t) /\ \A i \in 1 .. Len(t) : b[i] = t[Len(t) - i + 1]
  <2>1. a = [i \in 1 .. Len(s) |-> s[(Len(s) - i) + 1]] /\ b = [i \in 1 .. Len(t) |-> t[(Len(t) - i) + 1]]
    BY DEF Line!Reverse
  <2> HIDE DEF a, b
  <2> QED BY <1>0, <2>1
<1>2. Line!IsSuffix(s, t) <=> Line!IsPrefix(a, b)
  BY DEF Line!IsSuffix
<1> HIDE DEF a, b
<1>3. Line!IsPrefix(a, b) <=> Len(s) <= Len(t) /\ \A i \in 1 .. Len(s) : a[i] = b[i]
  <2>1. Line!IsPrefix(a, b) <=> Len(a) <= Len(b) /\ \A i \in 1 .. Len(a) : a[i] = b[i]
    <3>1. a \in Seq(S) /\ b \in Seq(S)
      BY <1>1
    <3> QED BY <3>1, LinePrefix
  <2> QED BY <1>1, <2>1, Zenon
<1>4. ASSUME Len(s) <= Len(t)
      PROVE  (\A i \in 1 .. Len(s) : a[i] = b[i]) <=> (\A i \in 1 .. Len(s) : s[i] = t[Len(t) - Len(s) + i])
  <2>1. ASSUME \A i \in 1 .. Len(s) : a[i] = b[i], NEW i \in 1 .. Len(s)
        PROVE  s[i] = t[Len(t) - Len(s) + i]
    <3>1. PICK j \in 1 .. Len(s) : j = Len(s) - i + 1
      <4>1. Len(s) - i + 1 \in 1 .. Len(s)
        BY <1>0
      <4> QED BY <4>1
    <3>2. Len(s) - j + 1 = i /\ Len(t) - j + 1 = Len(t) - Len(s) + i /\ j \in 1 .. Len(t)
      BY <1>0, <1>4, <3>1
    <3> QED BY <1>1, <2>1, <3>2
  <2>2. ASSUME \A i \in 1 .. Len(s) : s[i] = t[Len(t) - Len(s) + i], NEW i \in 1 .. Len(s)
        PROVE  a[i] = b[i]
    <3>1. PICK j \in 1 .. Len(s) : j = Len(s) - i + 1
      <4>1. Len(s) - i + 1 \in 1 .. Len(s)
        BY <1>0
      <4> QED BY <4>1
    <3>2. Len(t) - i + 1 = Len(t) - Len(s) + j /\ i \in 1 .. Len(t)
      BY <1>0, <1>4, <3>1
    <3> QED BY <1>1, <2>2, <3>1, <3>2
  <2> QED BY <2>1, <2>2
<1> QED BY <1>2, <1>3, <1>4

\* A suffix of a history, with a line added to both.
LEMMA SuffixAdd ==
  ASSUME NEW S, NEW s \in Seq(S), NEW t \in Seq(S), NEW b \in S, Line!IsSuffix(s, t)
  PROVE  Line!IsSuffix(Append(s, b), Append(t, b))
<1> DEFINE u == Append(s, b)
           v == Append(t, b)
<1>0. Len(s) \in Nat /\ Len(t) \in Nat /\ Len(s) <= Len(t) /\ \A i \in 1 .. Len(s) : s[i] = t[Len(t) - Len(s) + i]
  BY LineSuffix
<1>1. /\ u \in Seq(S) /\ Len(u) = Len(s) + 1 /\ u[Len(s) + 1] = b /\ \A i \in 1 .. Len(s) : u[i] = s[i]
      /\ v \in Seq(S) /\ Len(v) = Len(t) + 1 /\ v[Len(t) + 1] = b /\ \A i \in 1 .. Len(t) : v[i] = t[i]
  BY SeqAdd
<1> HIDE DEF u, v
<1>2. ASSUME NEW i \in 1 .. Len(s) + 1  PROVE u[i] = v[Len(v) - Len(u) + i]
  <2>1. CASE i = Len(s) + 1
    <3>1. Len(v) - Len(u) + i = Len(t) + 1
      BY <1>0, <1>1, <2>1
    <3> QED BY <1>1, <2>1, <3>1
  <2>2. CASE i # Len(s) + 1
    <3>1. i \in 1 .. Len(s) /\ Len(v) - Len(u) + i = Len(t) - Len(s) + i /\ Len(t) - Len(s) + i \in 1 .. Len(t)
      BY <1>0, <1>1, <2>2
    <3> QED BY <1>0, <1>1, <3>1
  <2> QED BY <2>1, <2>2
<1>3. Line!IsSuffix(u, v)
  <2>1. Line!IsSuffix(u, v) <=> Len(u) <= Len(v) /\ \A i \in 1 .. Len(u) : u[i] = v[Len(v) - Len(u) + i]
    BY <1>1, LineSuffix, Zenon
  <2>2. Len(u) <= Len(v)
    BY <1>0, <1>1
  <2> QED BY <1>1, <1>2, <2>1, <2>2, Zenon
<1> QED BY <1>3 DEF u, v

LEMMA SuffixOfAny ==
  ASSUME NEW S, NEW t \in Seq(S)
  PROVE  Line!IsSuffix(t, t) /\ Line!IsSuffix(<< >>, t)
<1>1. Line!IsSuffix(t, t)
  <2>1. Len(t) <= Len(t) /\ \A i \in 1 .. Len(t) : t[i] = t[Len(t) - Len(t) + i]
    OBVIOUS
  <2> QED BY <2>1, LineSuffix
<1>2. Line!IsSuffix(<< >>, t)
  <2>1. << >> \in Seq(S) /\ Len(<< >>) <= Len(t) /\ \A i \in 1 .. Len(<< >>) : << >>[i] = t[Len(t) - Len(<< >>) + i]
    OBVIOUS
  <2> QED BY <2>1, LineSuffix
<1> QED BY <1>1, <1>2

LEMMA LinesAdd ==
  ASSUME NEW f \in Seq(Strings), NEW b \in Strings, b # << >>
  PROVE  Line!Lines(Append(f, b)) = Append(Line!Lines(f), b)
<1> DEFINE g == Append(f, b)
<1>1. /\ g \in Seq(Strings) /\ Len(g) = Len(f) + 1 /\ g[Len(f) + 1] = b /\ Len(f) \in Nat
      /\ \A i \in 1 .. Len(f) : g[i] = f[i]
  BY SeqAdd
<1> HIDE DEF g
<1>2. PICK r \in [0 .. Len(f) -> Seq(Strings)] :
        /\ r[0] = << >> /\ Line!Lines(f) = r[Len(f)]
        /\ \A i \in 1 .. Len(f) : r[i] = IF f[i] # << >> THEN Append(r[i - 1], f[i]) ELSE r[i - 1]
  BY LinesAre
<1>3. PICK q \in [0 .. Len(g) -> Seq(Strings)] :
        /\ q[0] = << >> /\ Line!Lines(g) = q[Len(g)]
        /\ \A i \in 1 .. Len(g) : q[i] = IF g[i] # << >> THEN Append(q[i - 1], g[i]) ELSE q[i - 1]
  BY <1>1, LinesAre
<1> DEFINE T == {i \in Nat : i <= Len(f) => q[i] = r[i]}
<1>4. 0 \in T
  BY <1>2, <1>3
<1>5. ASSUME NEW i \in T  PROVE i + 1 \in T
  <2> SUFFICES ASSUME i + 1 <= Len(f)  PROVE q[i + 1] = r[i + 1]
    OBVIOUS
  <2>1. i \in Nat /\ i + 1 \in 1 .. Len(f) /\ i + 1 \in 1 .. Len(g) /\ i <= Len(f) /\ (i + 1) - 1 = i
    BY <1>1
  <2>2. q[i] = r[i] /\ g[i + 1] = f[i + 1]
    BY <1>1, <2>1
  <2>3. q[i + 1] = IF g[i + 1] # << >> THEN Append(q[i], g[i + 1]) ELSE q[i]
    BY <1>3, <2>1
  <2>4. r[i + 1] = IF f[i + 1] # << >> THEN Append(r[i], f[i + 1]) ELSE r[i]
    BY <1>2, <2>1
  <2> QED BY <2>2, <2>3, <2>4, Zenon
<1>6. q[Len(f)] = r[Len(f)]
  <2>1. T \in SUBSET Nat
    OBVIOUS
  <2>2. Len(f) \in T
    <3> HIDE DEF T
    <3> QED BY <1>1, <1>4, <1>5, <2>1, NatInduct
  <2> QED BY <1>1, <2>2
<1>7. q[Len(f) + 1] = Append(q[Len(f)], b)
  <2>1. Len(f) + 1 \in 1 .. Len(g) /\ (Len(f) + 1) - 1 = Len(f)
    BY <1>1
  <2> QED BY <1>1, <1>3, <2>1
<1> QED BY <1>1, <1>2, <1>3, <1>6, <1>7 DEF g

LEMMA LinesFull ==
  ASSUME NEW f \in Seq(Strings)
  PROVE  /\ Line!Lines(f) \in Seq(Strings)
         /\ \A i \in 1 .. Len(Line!Lines(f)) : Line!Lines(f)[i] # << >>
<1>1. PICK r \in [0 .. Len(f) -> Seq(Strings)] :
        /\ r[0] = << >> /\ Line!Lines(f) = r[Len(f)]
        /\ \A i \in 1 .. Len(f) : r[i] = IF f[i] # << >> THEN Append(r[i - 1], f[i]) ELSE r[i - 1]
  BY LinesAre
<1> DEFINE Full(s) == \A j \in 1 .. Len(s) : s[j] # << >>
           T == {i \in Nat : i <= Len(f) => Full(r[i])}
<1>0. Len(f) \in Nat
  OBVIOUS
<1>2. 0 \in T
  BY <1>1
<1>3. ASSUME NEW i \in T  PROVE i + 1 \in T
  <2> SUFFICES ASSUME i + 1 <= Len(f)  PROVE Full(r[i + 1])
    OBVIOUS
  <2>1. i \in Nat /\ i + 1 \in 1 .. Len(f) /\ i <= Len(f) /\ (i + 1) - 1 = i /\ i \in 0 .. Len(f)
    BY <1>0
  <2>2. Full(r[i]) /\ r[i] \in Seq(Strings) /\ f[i + 1] \in Strings
    BY <2>1
  <2>3. r[i + 1] = IF f[i + 1] # << >> THEN Append(r[i], f[i + 1]) ELSE r[i]
    BY <1>1, <2>1
  <2>4. CASE f[i + 1] # << >>
    <3> DEFINE s == r[i]
               c == f[i + 1]
               t == Append(s, c)
    <3>1. Len(t) = Len(s) + 1 /\ t[Len(s) + 1] = c /\ (\A j \in 1 .. Len(s) : t[j] = s[j]) /\ Len(s) \in Nat
      BY <2>2, SeqAdd
    <3> HIDE DEF s, c, t
    <3>2. Full(s) /\ c # << >>
      BY <2>2, <2>4 DEF s, c
    <3>3. Full(t)
      BY <3>1, <3>2
    <3> QED BY <2>3, <2>4, <3>3 DEF s, c, t
  <2> QED BY <2>2, <2>3, <2>4
<1>4. Full(r[Len(f)])
  <2>1. T \in SUBSET Nat
    OBVIOUS
  <2>2. Len(f) \in T
    <3> HIDE DEF T
    <3> QED BY <1>0, <1>2, <1>3, <2>1, NatInduct
  <2> QED BY <1>0, <2>2
<1> QED BY <1>0, <1>1, <1>4
-----------------------------------------------------------------------------
(* What completion() gives *)

Begins(s, t) == Len(s) <= Len(t) /\ \A i \in 1 .. Len(s) : s[i] = t[i]

LEMMA BeginsIs ==
  \A s, t \in Strings : Line!IsPrefix(s, t) <=> Begins(s, t)
<1> SUFFICES ASSUME NEW s \in Strings, NEW t \in Strings  PROVE Line!IsPrefix(s, t) <=> Begins(s, t)
  OBVIOUS
<1>1. s \in Seq(Characters) /\ t \in Seq(Characters)
  BY DEF Strings
<1> QED BY <1>1, LinePrefix DEF Begins

LEMMA CommonIs ==
  ASSUME NEW a \in Strings, NEW b \in Strings
  PROVE  LET c == Line!CommonPrefix(a, b)
         IN /\ c \in Strings /\ Begins(c, a) /\ Begins(c, b)
            /\ Len(c) < Len(a) => Len(b) = Len(c) \/ a[Len(c) + 1] # b[Len(c) + 1]
            /\ \A s \in Strings : Begins(s, a) /\ Begins(s, b) => Begins(s, c)
<1> DEFINE Pre(n) == Line!IsPrefix(SubSeq(a, 1, n), b)
           Longest(n) == Pre(n) /\ (n = Len(a) \/ ~Pre(n + 1))
           Equal(n) == n <= Len(b) /\ \A i \in 1 .. n : a[i] = b[i]
<1>0. Len(a) \in Nat /\ Len(b) \in Nat /\ a \in Seq(Characters) /\ b \in Seq(Characters)
  BY DEF Strings
<1>1. ASSUME NEW n \in 0 .. Len(a)
      PROVE  /\ SubSeq(a, 1, n) \in Strings /\ Len(SubSeq(a, 1, n)) = n
             /\ \A i \in 1 .. n : SubSeq(a, 1, n)[i] = a[i]
             /\ Pre(n) <=> Equal(n)
  <2> DEFINE s == SubSeq(a, 1, n)
  <2>1. s \in Seq(Characters) /\ Len(s) = n /\ \A i \in 1 .. n : s[i] = a[i]
    BY <1>0, SeqFront
  <2> HIDE DEF s
  <2>2. s \in Strings
    BY <2>1 DEF Strings
  <2>3. Line!IsPrefix(s, b) <=> Begins(s, b)
    BY <2>2, BeginsIs
  <2>4. Begins(s, b) <=> Equal(n)
    BY <2>1 DEF Begins
  <2> QED BY <2>1, <2>2, <2>3, <2>4 DEF s
<1> HIDE DEF Pre
<1>2. \E n \in 0 .. Len(a) : Longest(n)
  <2> DEFINE T == {k \in Nat : k <= Len(a) /\ ~Pre(k)}
  <2>1. Pre(0)
    BY <1>0, <1>1
  <2>2. CASE T = {}
    <3>1. Len(a) \in 0 .. Len(a) /\ Pre(Len(a))
      BY <1>0, <2>2
    <3> QED BY <3>1
  <2>3. CASE T # {}
    <3>1. PICK m \in T : \A y \in T : m <= y
      <4>1. T \in SUBSET Nat
        OBVIOUS
      <4> HIDE DEF T
      <4> QED BY <2>3, <4>1, LeastNumber
    <3>2. m \in Nat /\ m <= Len(a) /\ ~Pre(m) /\ m # 0
      BY <2>1
    <3>3. PICK n \in 0 .. Len(a) : n + 1 = m
      <4>1. m - 1 \in 0 .. Len(a) /\ (m - 1) + 1 = m
        BY <1>0, <3>2
      <4> QED BY <4>1
    <3>4. Pre(n)
      BY <1>0, <3>1, <3>2, <3>3
    <3> QED BY <3>2, <3>3, <3>4
  <2> QED BY <2>2, <2>3
<1> DEFINE n == CHOOSE k \in 0 .. Len(a) : Longest(k)
           c == SubSeq(a, 1, n)
<1>3. n \in 0 .. Len(a) /\ Longest(n)
  BY <1>2
<1>4. Line!CommonPrefix(a, b) = c
  BY DEF Line!CommonPrefix, Pre
<1> HIDE DEF n
<1>5. c \in Strings /\ Len(c) = n /\ (\A i \in 1 .. n : c[i] = a[i]) /\ Equal(n)
  BY <1>1, <1>3
<1> HIDE DEF c
<1>6. Begins(c, a) /\ Begins(c, b)
  <2>1. n <= Len(a) /\ n <= Len(b) /\ \A i \in 1 .. n : c[i] = b[i]
    BY <1>3, <1>5
  <2> QED BY <1>5, <2>1 DEF Begins
<1>7. ASSUME n < Len(a)  PROVE Len(b) = n \/ a[n + 1] # b[n + 1]
  <2>1. n + 1 \in 0 .. Len(a) /\ n # Len(a) /\ n \in Nat
    BY <1>0, <1>3, <1>7
  <2>2. ~Equal(n + 1)
    BY <1>1, <1>3, <2>1
  <2>3. Equal(n)
    BY <1>5
  <2>4. \A i \in 1 .. n + 1 : i \in 1 .. n \/ i = n + 1
    BY <2>1
  <2> QED BY <1>0, <2>1, <2>2, <2>3, <2>4
<1>8. ASSUME NEW s \in Strings, Begins(s, a), Begins(s, b)  PROVE Begins(s, c)
  <2>0. Len(s) \in Nat /\ n \in Nat
    BY <1>3 DEF Strings
  <2>1. Len(s) <= n
    <3> SUFFICES ASSUME n < Len(s)  PROVE FALSE
      BY <2>0
    <3>1. n + 1 \in 1 .. Len(s) /\ Len(s) <= Len(a) /\ Len(s) <= Len(b)
      BY <1>8, <2>0 DEF Begins
    <3>2. a[n + 1] = b[n + 1]
      BY <1>8, <3>1 DEF Begins
    <3>3. n < Len(a) /\ Len(b) # n
      BY <1>0, <2>0, <3>1
    <3> QED BY <1>7, <3>2, <3>3
  <2>2. \A i \in 1 .. Len(s) : i \in 1 .. n
    BY <2>0, <2>1
  <2>3. \A i \in 1 .. Len(s) : s[i] = a[i]
    BY <1>8 DEF Begins
  <2> QED BY <1>5, <2>1, <2>2, <2>3 DEF Begins
<1> QED BY <1>4, <1>5, <1>6, <1>7, <1>8

\* The candidates are lines, and begin with the key.
LEMMA CandidatesBegin ==
  ASSUME s6 \in Seq(Strings), NEW key \in Strings
  PROVE  /\ Line!Candidates(key) \in Seq(Strings)
         /\ \A i \in 1 .. Len(Line!Candidates(key)) : Begins(key, Line!Candidates(key)[i])
<1> DEFINE P == {c \in Line!Range(s6) : Line!IsPrefix(key, c)}
           Good(s) == \A j \in 1 .. Len(s) : Begins(key, s[j])
           n == Len(s6)
<1>0. n \in Nat /\ \A i \in 1 .. n : s6[i] \in Strings
  OBVIOUS
<1>1. \A i \in 1 .. n : s6[i] \in P => Begins(key, s6[i])
  BY <1>0, BeginsIs
<1>2. Line!Candidates(key) = Line!Those(s6, P)
  BY DEF Line!Candidates
<1> HIDE DEF P
<1>3. PICK r : Collects(r, s6, P)
  BY ThoseAre, Zenon
<1>4. /\ r \in [0 .. n -> Seq(Strings)] /\ r[0] = << >> /\ Line!Those(s6, P) = r[n]
      /\ \A i \in 1 .. n : r[i] = IF s6[i] \in P THEN Append(r[i - 1], s6[i]) ELSE r[i - 1]
  BY <1>3 DEF Collects
<1> DEFINE T == {i \in Nat : i <= n => Good(r[i])}
<1>5. 0 \in T
  BY <1>4
<1>6. ASSUME NEW i \in T  PROVE i + 1 \in T
  <2> SUFFICES ASSUME i + 1 <= n  PROVE Good(r[i + 1])
    OBVIOUS
  <2> HIDE DEF n
  <2>1. i \in Nat /\ i + 1 \in 1 .. n /\ i <= n /\ (i + 1) - 1 = i /\ i \in 0 .. n
    BY <1>0
  <2>2. Good(r[i]) /\ r[i] \in Seq(Strings) /\ s6[i + 1] \in Strings
    BY <1>0, <1>4, <2>1
  <2>3. r[i + 1] = IF s6[i + 1] \in P THEN Append(r[i], s6[i + 1]) ELSE r[i]
    BY <1>4, <2>1
  <2>4. CASE s6[i + 1] \in P
    <3> DEFINE s == r[i]
               c == s6[i + 1]
               t == Append(s, c)
    <3>1. Len(t) = Len(s) + 1 /\ t[Len(s) + 1] = c /\ (\A j \in 1 .. Len(s) : t[j] = s[j]) /\ Len(s) \in Nat
      BY <2>2, SeqAdd
    <3>2. Begins(key, c)
      BY <1>1, <2>1, <2>4
    <3>3. Good(s)
      BY <2>2
    <3> HIDE DEF s, c, t
    <3>4. Good(t)
      BY <3>1, <3>2, <3>3
    <3> QED BY <2>3, <2>4, <3>4 DEF s, c, t
  <2> QED BY <2>2, <2>3, <2>4
<1>7. Good(r[n])
  <2>1. T \in SUBSET Nat
    OBVIOUS
  <2>2. n \in T
    <3> HIDE DEF T, n
    <3> QED BY <1>0, <1>5, <1>6, <2>1, NatInduct
  <2> QED BY <1>0, <2>2
<1>8. r[n] \in Seq(Strings)
  BY <1>0, <1>4
<1> QED BY <1>2, <1>4, <1>7, <1>8
-----------------------------------------------------------------------------
\* d is what the first i of the sequences c share beyond the key, and all of it.
Longest(key, c, d, i) ==
  /\ d \in Strings /\ Begins(key, d) /\ \A j \in 1 .. i : Begins(d, c[j])
  /\ \/ \E j \in 1 .. i : Len(c[j]) = Len(d)
     \/ \E j, k \in 1 .. i : c[j][Len(d) + 1] # c[k][Len(d) + 1]

LEMMA LongestStep ==
  ASSUME NEW key \in Strings, NEW c \in Seq(Strings), NEW i \in Nat, i >= 1, i + 1 <= Len(c),
         NEW d, Longest(key, c, d, i), Begins(key, c[i + 1])
  PROVE  Longest(key, c, Line!CommonPrefix(d, c[i + 1]), i + 1)
<1> DEFINE b == c[i + 1]
           e == Line!CommonPrefix(d, b)
<1>1. d \in Strings /\ b \in Strings /\ i + 1 \in 1 .. i + 1 /\ \A j \in 1 .. i : c[j] \in Strings
  BY DEF Longest
<1>2. Begins(key, b)
  OBVIOUS
<1> HIDE DEF b
<1>3. /\ e \in Strings /\ Begins(e, d) /\ Begins(e, b)
      /\ Len(e) < Len(d) => Len(b) = Len(e) \/ d[Len(e) + 1] # b[Len(e) + 1]
      /\ \A s \in Strings : Begins(s, d) /\ Begins(s, b) => Begins(s, e)
  BY <1>1, CommonIs
<1> HIDE DEF e
<1>4. Begins(key, e)
  BY <1>2, <1>3 DEF Longest
<1>5. ASSUME NEW j \in 1 .. i + 1  PROVE Begins(e, c[j])
  <2>1. CASE j = i + 1
    BY <1>3, <2>1 DEF b
  <2>2. CASE j # i + 1
    <3>1. j \in 1 .. i
      BY <2>2
    <3>2. Begins(d, c[j]) /\ c[j] \in Strings
      BY <1>1, <3>1 DEF Longest
    <3>3. Len(e) \in Nat /\ Len(d) \in Nat /\ Len(c[j]) \in Nat
      <4>1. \A s \in Strings : Len(s) \in Nat
        BY DEF Strings
      <4> QED BY <1>1, <1>3, <3>2, <4>1
    <3>4. Len(e) <= Len(c[j])
      BY <1>3, <3>2, <3>3 DEF Begins
    <3>5. ASSUME NEW m \in 1 .. Len(e)  PROVE e[m] = c[j][m]
      <4>1. m \in 1 .. Len(d)
        BY <1>3, <3>3 DEF Begins
      <4> QED BY <1>3, <3>2, <4>1 DEF Begins
    <3> QED BY <3>4, <3>5 DEF Begins
  <2> QED BY <2>1, <2>2
<1>6. \/ \E j \in 1 .. i + 1 : Len(c[j]) = Len(e)
      \/ \E j, k \in 1 .. i + 1 : c[j][Len(e) + 1] # c[k][Len(e) + 1]
  <2>0. Len(e) \in Nat /\ Len(d) \in Nat /\ Len(e) <= Len(d)
    BY <1>1, <1>3 DEF Strings, Begins
  <2>1. CASE Len(e) = Len(d)
    <3>1. \A j \in 1 .. i : j \in 1 .. i + 1
      OBVIOUS
    <3> QED BY <2>1, <3>1 DEF Longest
  <2>2. CASE Len(e) # Len(d)
    <3>1. Len(b) = Len(e) \/ d[Len(e) + 1] # b[Len(e) + 1]
      BY <1>3, <2>0, <2>2
    <3>2. CASE Len(b) = Len(e)
      BY <1>1, <3>2 DEF b
    <3>3. CASE d[Len(e) + 1] # b[Len(e) + 1]
      <4>1. Len(e) + 1 \in 1 .. Len(d) /\ 1 \in 1 .. i
        BY <2>0, <2>2
      <4>2. c[1][Len(e) + 1] = d[Len(e) + 1]
        BY <4>1 DEF Longest, Begins
      <4>3. 1 \in 1 .. i + 1 /\ c[1][Len(e) + 1] # c[i + 1][Len(e) + 1]
        BY <3>3, <4>2 DEF b
      <4> QED BY <1>1, <4>3
    <3> QED BY <3>1, <3>2, <3>3
  <2> QED BY <2>1, <2>2
<1> QED BY <1>3, <1>4, <1>5, <1>6 DEF Longest, b, e

LEMMA CompletedIs ==
  ASSUME s6 \in Seq(Strings), NEW key \in Strings
  PROVE  LET c == Line!Candidates(key)
             d == Line!Completed(key)
         IN /\ Len(c) = 1 => d = Append(c[1], Line!Space)
            /\ Len(c) > 1 => Longest(key, c, d, Len(c))
<1> DEFINE c == Line!Candidates(key)
           n == Len(c)
           Eq(g) == g = [i \in 1 .. n |-> IF i = 1 THEN c[1] ELSE Line!CommonPrefix(g[i - 1], c[i])]
<1>1. /\ c \in Seq(Strings) /\ n \in Nat
      /\ \A i \in 1 .. n : Begins(key, c[i]) /\ c[i] \in Strings
  BY CandidatesBegin
<1> DEFINE r == CHOOSE g : Eq(g)
<1>2. Line!Completed(key) = IF n = 1 THEN Append(c[1], Line!Space) ELSE r[n]
  BY DEF Line!Completed
<1> HIDE DEF c
<1>3. ASSUME n > 1  PROVE \E g : Eq(g)
  <2> DEFINE S == Strings
             F == [p \in Nat \X S |-> IF p[1] \in 2 .. n THEN Line!CommonPrefix(p[2], c[p[1]]) ELSE p[2]]
  <2>1. F \in [Nat \X S -> S]
    <3>1. ASSUME NEW p \in Nat \X S  PROVE (IF p[1] \in 2 .. n THEN Line!CommonPrefix(p[2], c[p[1]]) ELSE p[2]) \in S
      <4>1. CASE p[1] \in 2 .. n
        <5>1. c[p[1]] \in Strings /\ p[2] \in Strings
          BY <1>1, <4>1
        <5> QED BY <4>1, <5>1, CommonIs
      <4>2. CASE p[1] \notin 2 .. n
        BY <4>2
      <4> QED BY <4>1, <4>2
    <3> QED BY <3>1
  <2>2. 1 \in 1 .. n /\ c[1] \in S
    BY <1>1, <1>3
  <2>3. ASSUME NEW i \in 1 .. n, NEW s \in S
        PROVE  F[<<i, s>>] = IF i = 1 THEN s ELSE Line!CommonPrefix(s, c[i])
    <3>1. i \in Nat /\ (i \in 2 .. n <=> i # 1)
      BY <1>1
    <3>2. F[<<i, s>>] = IF i \in 2 .. n THEN Line!CommonPrefix(s, c[i]) ELSE s
      BY <3>1
    <3> QED BY <3>1, <3>2, Zenon
  <2> HIDE DEF F, S, n
  <2>4. PICK f \in [0 .. n -> S] : f[0] = c[1] /\ \A i \in 1 .. n : f[i] = F[<<i, f[i - 1]>>]
    <3>1. PICK f \in [0 .. n -> S] : Unfolds(f, c[1], F, n)
      BY <1>1, <2>1, <2>2, Recursion, Zenon
    <3> QED BY <3>1 DEF Unfolds
  <2> DEFINE z(g, i) == IF i = 1 THEN c[1] ELSE Line!CommonPrefix(g[i - 1], c[i])
             g == [i \in 1 .. n |-> f[i]]
  <2>5. ASSUME NEW i \in 1 .. n  PROVE f[i] = z(g, i)
    <3>0. i - 1 \in 0 .. n /\ f[i - 1] \in S /\ f[i] = F[<<i, f[i - 1]>>]
      BY <1>1, <2>4
    <3>1. CASE i = 1
      <4>1. f[1 - 1] = c[1]
        BY <2>4
      <4> QED BY <2>3, <3>0, <3>1, <4>1
    <3>2. CASE i # 1
      <4>1. i - 1 \in 1 .. n
        BY <1>1, <3>2
      <4>2. g[i - 1] = f[i - 1]
        BY <4>1
      <4>3. f[i] = Line!CommonPrefix(f[i - 1], c[i])
        BY <2>3, <3>0, <3>2
      <4> QED BY <3>2, <4>2, <4>3
    <3> QED BY <3>1, <3>2
  <2> HIDE DEF z
  <2>6. g = [i \in 1 .. n |-> z(g, i)]
    <3>1. [i \in 1 .. n |-> f[i]] = [i \in 1 .. n |-> z(g, i)]
      BY <2>5, Zenon
    <3> QED BY <3>1
  <2> HIDE DEF g
  <2> QED BY <2>6 DEF z
<1>4. ASSUME n > 1  PROVE Longest(key, c, r[n], n)
  <2>1. Eq(r)
    <3> HIDE DEF Eq
    <3> QED BY <1>3, <1>4
  <2> HIDE DEF r, n
  <2> DEFINE z(i) == IF i = 1 THEN c[1] ELSE Line!CommonPrefix(r[i - 1], c[i])
  <2>2. ASSUME NEW i \in 1 .. n  PROVE r[i] = z(i)
    <3>1. r = [j \in 1 .. n |-> z(j)]
      BY <2>1, Zenon
    <3> HIDE DEF z
    <3> QED BY <3>1
  <2> DEFINE T == {i \in Nat : i >= 1 /\ i <= n => Longest(key, c, r[i], i)}
  <2>3. 0 \in T
    OBVIOUS
  <2>4. ASSUME NEW i \in T  PROVE i + 1 \in T
    <3> SUFFICES ASSUME i + 1 <= n  PROVE Longest(key, c, r[i + 1], i + 1)
      OBVIOUS
    <3>0. i \in Nat /\ i + 1 \in 1 .. n /\ c[i + 1] \in Strings /\ Begins(key, c[i + 1])
      BY <1>1
    <3>1. CASE i = 0
      <4>1. r[1] = c[1] /\ 1 \in 1 .. n /\ c[1] \in Strings /\ Begins(key, c[1])
        BY <1>1, <2>2, <3>0, <3>1
      <4>2. Begins(c[1], c[1]) /\ \A j \in 1 .. 1 : j = 1
        BY <4>1 DEF Begins, Strings
      <4>3. Longest(key, c, c[1], 1)
        BY <4>1, <4>2 DEF Longest
      <4> QED BY <3>1, <4>1, <4>3
    <3>2. CASE i # 0
      <4>1. i >= 1 /\ i <= n /\ i + 1 # 1 /\ (i + 1) - 1 = i
        BY <1>1, <3>0, <3>2
      <4>2. Longest(key, c, r[i], i)
        BY <4>1
      <4>3. r[i + 1] = Line!CommonPrefix(r[i], c[i + 1])
        BY <2>2, <3>0, <4>1
      <4>4. i + 1 <= Len(c) /\ c \in Seq(Strings)
        BY <1>1 DEF n
      <4>5. Longest(key, c, Line!CommonPrefix(r[i], c[i + 1]), i + 1)
        BY <3>0, <4>1, <4>2, <4>4, LongestStep
      <4> QED BY <4>3, <4>5
    <3> QED BY <3>1, <3>2
  <2>5. n \in T
    <3>1. T \in SUBSET Nat
      OBVIOUS
    <3> HIDE DEF T
    <3> QED BY <1>1, <2>3, <2>4, <3>1, NatInduct
  <2> QED BY <1>1, <1>4, <2>5
<1> HIDE DEF r
<1>5. n > 1 => n # 1
  BY <1>1
<1> QED BY <1>2, <1>4, <1>5 DEF c
-----------------------------------------------------------------------------
(* The edits *)

Ready(e) == e \in Ed /\ e.cursor <= Len(e.buf) /\ e.history_i <= Len(s5)
\* f is as fit for the next key as e, and shows its line if e does.
Follows(e, f) == Ready(f) /\ (Shows(e) => Shows(f))

LEMMA FollowsAll ==
  /\ \A e \in Ed : Ready(e) => Follows(e, e)
  /\ \A e, f, g \in Ed : Follows(e, f) /\ Follows(f, g) => Follows(e, g)
  BY DEF Follows

LEMMA LineMoveTo ==
  ASSUME NEW e, Ready(e), NEW c \in Nat, c <= Len(e.buf)
  PROVE  Follows(e, Line!MoveTo(e, c))
<1> DEFINE f == Line!MoveTo(e, c)
           t == Line!Move(e.term, c)
<1>1. e \in Ed /\ e.term \in Term
  BY LineRecords DEF Ready
<1>2. t \in Term /\ t.col = Len(Prompt) + c + 1 /\ t.row = e.term.row
  BY <1>1, LineMove
<1>3. f = [[e EXCEPT !.cursor = c] EXCEPT !.term = t]
  BY <1>1 DEF Line!MoveTo, Ed
<1> HIDE DEF t
<1>4. f \in Ed /\ f.cursor = c /\ f.buf = e.buf /\ f.history_i = e.history_i /\ f.term = t
  BY <1>1, <1>2, <1>3 DEF Ed
<1> HIDE DEF f
<1>5. Shows(e) => Shows(f)
  BY <1>2, <1>4 DEF Shows
<1> QED BY <1>4, <1>5 DEF Follows, Ready, f

LEMMA LineBackward ==
  ASSUME NEW e, Ready(e)
  PROVE  /\ Follows(e, Line!MoveBackward(e)) /\ Follows(e, Line!MoveForward(e))
         /\ Follows(e, Line!MoveTo(e, 0)) /\ Follows(e, Line!MoveTo(e, Len(e.buf)))
<1>1. e \in Ed /\ e.cursor \in Nat /\ Len(e.buf) \in Nat /\ e.cursor <= Len(e.buf) /\ Follows(e, e)
  BY LineRecords DEF Ready, Follows
<1>2. Follows(e, Line!MoveBackward(e))
  <2>1. CASE e.cursor = 0
    BY <1>1, <2>1 DEF Line!MoveBackward
  <2>2. CASE e.cursor # 0
    <3>1. e.cursor - 1 \in Nat /\ e.cursor - 1 <= Len(e.buf)
      BY <1>1, <2>2
    <3>2. Follows(e, Line!MoveTo(e, e.cursor - 1))
      BY <3>1, LineMoveTo
    <3> QED BY <2>2, <3>2 DEF Line!MoveBackward
  <2> QED BY <2>1, <2>2
<1>3. Follows(e, Line!MoveForward(e))
  <2>1. CASE ~(e.cursor < Len(e.buf))
    BY <1>1, <2>1 DEF Line!MoveForward
  <2>2. CASE e.cursor < Len(e.buf)
    <3>1. e.cursor + 1 \in Nat /\ e.cursor + 1 <= Len(e.buf)
      BY <1>1, <2>2
    <3>2. Follows(e, Line!MoveTo(e, e.cursor + 1))
      BY <3>1, LineMoveTo
    <3> QED BY <2>2, <3>2 DEF Line!MoveForward
  <2> QED BY <2>1, <2>2
<1>4. Follows(e, Line!MoveTo(e, 0))
  BY <1>1, LineMoveTo
<1>5. Follows(e, Line!MoveTo(e, Len(e.buf)))
  BY <1>1, LineMoveTo
<1> QED BY <1>2, <1>3, <1>4, <1>5

\* A line in two parts: what is left of the cursor, and what takes the rest's place.
LEMMA LineParts ==
  ASSUME NEW s \in Strings, NEW rest \in Strings, NEW c \in Nat, c <= Len(s)
  PROVE  LET b == SubSeq(s, 1, c) \o rest
         IN /\ b \in Strings /\ Len(b) = c + Len(rest)
            /\ \A i \in 1 .. c : b[i] = s[i]
            /\ \A i \in 1 .. Len(rest) : b[c + i] = rest[i]
<1> DEFINE a == SubSeq(s, 1, c)
<1>0. s \in Seq(Characters) /\ rest \in Seq(Characters) /\ c \in 0 .. Len(s)
  BY DEF Strings
<1>1. a \in Seq(Characters) /\ Len(a) = c /\ \A i \in 1 .. c : a[i] = s[i]
  BY <1>0, SeqFront
<1> HIDE DEF a
<1>2. /\ a \o rest \in Seq(Characters) /\ Len(a \o rest) = c + Len(rest)
      /\ \A i \in 1 .. c : (a \o rest)[i] = a[i]
      /\ \A i \in 1 .. Len(rest) : (a \o rest)[c + i] = rest[i]
  BY <1>0, <1>1
<1> QED BY <1>1, <1>2 DEF a, Strings

LEMMA LineRest ==
  ASSUME NEW s \in Strings, NEW i \in Nat
  PROVE  Line!From(s, i) \in Strings
  BY DEF Line!From, Strings

\* RemoveChar and RemoveLine: both redraw what follows the cursor.
LEMMA LineRemoves ==
  ASSUME NEW e, Ready(e)
  PROVE  Follows(e, Line!RemoveChar(e)) /\ Follows(e, Line!RemoveLine(e))
<1>0. /\ e \in Ed /\ e.buf \in Strings /\ e.cursor \in Nat /\ e.cursor <= Len(e.buf) /\ e.term \in Term
      /\ e.history_i <= Len(s5) /\ Len(e.buf) \in Nat
  BY LineRecords DEF Ready
<1>1. ASSUME NEW rest \in Strings,
             NEW f, f = [[e EXCEPT !.buf = SubSeq(e.buf, 1, e.cursor) \o rest]
                           EXCEPT !.term = Line!Redrawn(e, rest)]
      PROVE  Follows(e, f)
  <2> DEFINE b == SubSeq(e.buf, 1, e.cursor) \o rest
             t == Line!Redrawn(e, rest)
  <2>1. /\ b \in Strings /\ Len(b) = e.cursor + Len(rest)
        /\ \A i \in 1 .. e.cursor : b[i] = e.buf[i]
        /\ \A i \in 1 .. Len(rest) : b[e.cursor + i] = rest[i]
    BY <1>0, LineParts
  <2> HIDE DEF b
  <2>2. t \in Term /\ t.col = Len(Prompt) + e.cursor + 1 /\ (Shows(e) => Shown(t.row, b))
    BY <1>0, <2>1, LineRedrawn
  <2> HIDE DEF t
  <2>3. f = [[e EXCEPT !.buf = b] EXCEPT !.term = t]
    BY <1>1 DEF b, t
  <2>4. f \in Ed /\ f.buf = b /\ f.cursor = e.cursor /\ f.history_i = e.history_i /\ f.term = t
    BY <1>0, <2>1, <2>2, <2>3 DEF Ed
  <2>5. e.cursor <= Len(b)
    <3>1. Len(rest) \in Nat
      BY DEF Strings
    <3> QED BY <1>0, <2>1, <3>1
  <2> QED BY <1>0, <2>2, <2>4, <2>5 DEF Follows, Ready, Shows
<1>2. Follows(e, Line!RemoveChar(e))
  <2> DEFINE rest == Line!From(e.buf, e.cursor + 1)
  <2>1. rest \in Strings
    BY <1>0, LineRest
  <2>2. Line!RemoveChar(e) = [[e EXCEPT !.buf = SubSeq(e.buf, 1, e.cursor) \o rest]
                                EXCEPT !.term = Line!Redrawn(e, rest)]
    BY <1>0 DEF Line!RemoveChar, Ed
  <2> HIDE DEF rest
  <2> QED BY <1>1, <2>1, <2>2
<1>3. Follows(e, Line!RemoveLine(e))
  <2>1. << >> \in Strings
    BY DEF Strings
  <2>2. SubSeq(e.buf, 1, e.cursor) = SubSeq(e.buf, 1, e.cursor) \o << >>
    BY <1>0 DEF Strings
  <2>3. Line!RemoveLine(e) = [[e EXCEPT !.buf = SubSeq(e.buf, 1, e.cursor)] EXCEPT !.term = Line!Redrawn(e, << >>)]
    BY <1>0 DEF Line!RemoveLine, Ed
  <2> QED BY <1>1, <2>1, <2>2, <2>3
<1> QED BY <1>2, <1>3

LEMMA LineInserted ==
  ASSUME NEW e, Ready(e), NEW x \in Characters
  PROVE  Follows(e, Line!Inserted(e, x)) /\ Len(Line!Inserted(e, x).buf) = Len(e.buf) + 1
<1>0. /\ e \in Ed /\ e.buf \in Strings /\ e.cursor \in Nat /\ e.cursor <= Len(e.buf) /\ e.term \in Term
      /\ e.history_i <= Len(s5) /\ Len(e.buf) \in Nat
  BY LineRecords DEF Ready
<1> DEFINE f == Line!Inserted(e, x)
           rest == <<x>> \o Line!From(e.buf, e.cursor)
           b == SubSeq(e.buf, 1, e.cursor) \o rest
           t == Line!Redrawn(e, rest)
           u == Line!Move(t, e.cursor + 1)
<1>1. rest \in Strings /\ Len(rest) = Len(e.buf) - e.cursor + 1
  <2> DEFINE y == Line!From(e.buf, e.cursor)
  <2>1. y \in Seq(Characters) /\ Len(y) = Len(e.buf) - e.cursor
    BY <1>0 DEF Line!From, Strings
  <2> HIDE DEF y
  <2>2. <<x>> \o y \in Seq(Characters) /\ Len(<<x>> \o y) = 1 + Len(y)
    BY <2>1
  <2> QED BY <1>0, <2>1, <2>2 DEF Strings, y
<1> HIDE DEF rest
<1>2. /\ b \in Strings /\ Len(b) = e.cursor + Len(rest)
      /\ \A i \in 1 .. e.cursor : b[i] = e.buf[i]
      /\ \A i \in 1 .. Len(rest) : b[e.cursor + i] = rest[i]
  BY <1>0, <1>1, LineParts
<1> HIDE DEF b
<1>3. t \in Term /\ (Shows(e) => Shown(t.row, b))
  BY <1>0, <1>1, <1>2, LineRedrawn
<1> HIDE DEF t
<1>4. u \in Term /\ u.col = Len(Prompt) + (e.cursor + 1) + 1 /\ u.row = t.row
  <2>1. e.cursor + 1 \in Nat
    BY <1>0
  <2> QED BY <1>3, <2>1, LineMove
<1> HIDE DEF u
<1>5. f = [[[e EXCEPT !.buf = b] EXCEPT !.cursor = e.cursor + 1] EXCEPT !.term = u]
  BY <1>0 DEF Line!Inserted, Ed, rest, b, t, u
<1> HIDE DEF f
<1>6. f \in Ed /\ f.buf = b /\ f.cursor = e.cursor + 1 /\ f.history_i = e.history_i /\ f.term = u
  <2>1. e.cursor + 1 \in Nat
    BY <1>0
  <2> QED BY <1>0, <1>2, <1>4, <1>5, <2>1 DEF Ed
<1>7. Len(b) = Len(e.buf) + 1 /\ e.cursor + 1 <= Len(b)
  BY <1>0, <1>1, <1>2
<1>8. Shows(e) => Shows(f)
  BY <1>3, <1>4, <1>6 DEF Shows
<1> QED BY <1>0, <1>6, <1>7, <1>8 DEF Follows, Ready, f
-----------------------------------------------------------------------------
\* A line of the history over what was there.
LEMMA LineRecalled ==
  ASSUME NEW e, Ready(e), s5 \in Seq(Strings), NEW i \in Nat, i <= Len(s5)
  PROVE  Follows(e, Line!Recalled(e, i))
<1>0. /\ e \in Ed /\ e.buf \in Strings /\ e.cursor \in Nat /\ e.term \in Term
      /\ Len(e.buf) \in Nat /\ Len(s5) \in Nat /\ Len(Prompt) \in Nat /\ Line!Width \in Nat
  BY LineRecords, LineConstants DEF Ready
<1> DEFINE f == Line!Recalled(e, i)
           p == Len(Prompt)
           n == Len(e.buf)
           b == IF i < Len(s5) THEN s5[i + 1] ELSE << >>
           t1 == Line!Move(e.term, 0)
           t2 == Line!Put(t1, Line!Blank(n))
           t3 == Line!Move(t2, 0)
           t4 == Line!Put(t3, b)
<1>1. f = [buf |-> b, cursor |-> Len(b), history_i |-> i, term |-> t4]
  BY DEF Line!Recalled
<1>2. b \in Strings /\ Len(b) \in Nat
  <2>1. CASE i < Len(s5)
    <3>1. i + 1 \in 1 .. Len(s5)
      BY <1>0, <2>1
    <3>2. s5[i + 1] \in Strings
      BY <3>1
    <3> QED BY <2>1, <3>2 DEF Strings
  <2>2. CASE ~(i < Len(s5))
    BY <2>2 DEF Strings
  <2> QED BY <2>1, <2>2
<1> HIDE DEF b, f
<1>3. t1 \in Term /\ t1.col = p + 0 + 1 /\ t1.row = e.term.row
  BY <1>0, LineMove
<1>4. Line!Blank(n) \in Strings /\ Len(Line!Blank(n)) = n /\ \A j \in 1 .. n : Line!Blank(n)[j] = Line!Space
  BY <1>0, LineBlank
<1> HIDE DEF t1, n, p
<1>5. /\ t2 \in Term
      /\ \A j \in 1 .. Line!Width :
           t2.row[j] = IF t1.col <= j /\ j < t1.col + Len(Line!Blank(n)) THEN Line!Blank(n)[j - t1.col + 1]
                       ELSE t1.row[j]
  BY <1>3, <1>4, LinePut
<1> HIDE DEF t2
<1>6. t3 \in Term /\ t3.col = p + 1 /\ t3.row = t2.row
  <2>1. t3 \in Term /\ t3.col = Len(Prompt) + 0 + 1 /\ t3.row = t2.row
    BY <1>5, LineMove
  <2> QED BY <1>0, <2>1 DEF p
<1> HIDE DEF t3
<1>7. t4 \in Term /\ t4.col = p + 1 + Len(b)
  BY <1>2, <1>6, LinePut
<1>8. Shows(e) => Shown(t4.row, b)
  <2> SUFFICES ASSUME Shows(e)  PROVE Shown(t4.row, b)
    OBVIOUS
  <2>1. ASSUME NEW j \in 1 .. Line!Width
        PROVE  (j <= p => t3.row[j] = Prompt[j]) /\ (j > p + Len(b) => t3.row[j] = Line!Space)
    <3>0. j \in Nat /\ p \in Nat /\ n \in Nat /\ t1.col = p + 1
      BY <1>0, <1>3 DEF p, n
    <3>1. e.term.row[j] = IF j <= p THEN Prompt[j] ELSE IF j <= p + n THEN e.buf[j - p] ELSE Line!Space
      BY DEF Shows, Shown, p, n
    <3>2. CASE j <= p
      <4>1. ~(t1.col <= j) /\ ~(j > p + Len(b))
        BY <1>2, <3>0, <3>2
      <4> QED BY <1>3, <1>5, <1>6, <3>1, <3>2, <4>1
    <3>3. CASE p < j /\ j <= p + n
      <4>1. t1.col <= j /\ j < t1.col + Len(Line!Blank(n)) /\ j - t1.col + 1 \in 1 .. n /\ ~(j <= p)
        BY <1>4, <3>0, <3>3
      <4> QED BY <1>4, <1>5, <1>6, <4>1
    <3>4. CASE j > p + n
      <4>1. ~(j < t1.col + Len(Line!Blank(n))) /\ ~(j <= p) /\ ~(j <= p + n)
        BY <1>4, <3>0, <3>4
      <4> QED BY <1>3, <1>5, <1>6, <3>1, <4>1
    <3> QED BY <3>0, <3>2, <3>3, <3>4
  <2> HIDE DEF t4
  <2>2. t3.col = Len(Prompt) + 1
    BY <1>6 DEF p
  <2>3. /\ \A j \in 1 .. Line!Width : j <= Len(Prompt) => t3.row[j] = Prompt[j]
        /\ \A j \in 1 .. Line!Width : j > Len(Prompt) + Len(b) => t3.row[j] = Line!Space
    BY <2>1 DEF p
  <2>4. Shown(Line!Put(t3, b).row, b)
    BY <1>2, <1>6, <2>2, <2>3, LineDrawnOver
  <2> QED BY <2>4 DEF t4
<1> HIDE DEF t4
<1>9. f \in Ed /\ f.buf = b /\ f.cursor = Len(b) /\ f.history_i = i /\ f.term = t4
  BY <1>1, <1>2, <1>7 DEF Ed
<1>10. Shows(e) => Shows(f)
  <2>1. t4.col = Len(Prompt) + Len(b) + 1
    BY <1>0, <1>2, <1>7 DEF p
  <2> QED BY <1>8, <1>9, <2>1 DEF Shows
<1>11. f.cursor <= Len(f.buf)
  BY <1>2, <1>9
<1> QED BY <1>9, <1>10, <1>11 DEF Follows, Ready, f

LEMMA LineHistory ==
  ASSUME NEW e, Ready(e), s5 \in Seq(Strings)
  PROVE  Follows(e, Line!HistoryNext(e)) /\ Follows(e, Line!HistoryPrevious(e))
<1>0. e \in Ed /\ e.history_i \in Nat /\ Len(s5) \in Nat /\ e.history_i <= Len(s5)
  BY LineRecords DEF Ready
<1>1. Follows(e, Line!HistoryNext(e))
  <2> DEFINE i == IF e.history_i # Len(s5) THEN e.history_i + 1 ELSE e.history_i
  <2>1. i \in Nat /\ i <= Len(s5)
    BY <1>0
  <2>2. Line!HistoryNext(e) = Line!Recalled(e, i)
    BY DEF Line!HistoryNext
  <2> HIDE DEF i
  <2> QED BY <2>1, <2>2, LineRecalled
<1>2. Follows(e, Line!HistoryPrevious(e))
  <2>1. CASE e.history_i = 0
    BY <2>1 DEF Line!HistoryPrevious, Follows
  <2>2. CASE e.history_i # 0
    <3>1. e.history_i - 1 \in Nat /\ e.history_i - 1 <= Len(s5)
      BY <1>0, <2>2
    <3>2. Follows(e, Line!Recalled(e, e.history_i - 1))
      BY <3>1, LineRecalled
    <3> QED BY <2>2, <3>2 DEF Line!HistoryPrevious
  <2> QED BY <2>1, <2>2
<1> QED BY <1>1, <1>2

\* A completion: one candidate is longer than the line, several go to a new row.
LEMMA LineCompletion ==
  ASSUME NEW e, Ready(e), s6 \in Seq(Strings)
  PROVE  Follows(e, Line!Completion(e))
<1>0. /\ e \in Ed /\ e.buf \in Strings /\ e.cursor \in Nat /\ e.term \in Term /\ e.history_i \in Nat
      /\ Len(e.buf) \in Nat /\ Len(Prompt) \in Nat /\ Line!Width \in Nat /\ e.history_i <= Len(s5)
  BY LineRecords, LineConstants DEF Ready
<1> DEFINE c == Line!Candidates(e.buf)
           n == Len(c)
           b == Line!Completed(e.buf)
           t == IF n > 1 THEN Line!NewRow ELSE [e.term EXCEPT !.col = 1]
           u == Line!Put(t, Prompt \o b)
           f == Line!Completion(e)
<1>1. c \in Seq(Strings) /\ n \in Nat /\ \A i \in 1 .. n : Begins(e.buf, c[i])
  BY <1>0, CandidatesBegin
<1>2. /\ n = 1 => b = Append(c[1], Line!Space)
      /\ n > 1 => Longest(e.buf, c, b, n)
  BY <1>0, CompletedIs
<1>3. n = 0 => f = e
  BY DEF Line!Completion
<1>4. n # 0 => f = [[[e EXCEPT !.buf = b] EXCEPT !.cursor = Len(b)] EXCEPT !.term = u]
  <2>1. n # 0 => f = [e EXCEPT !.buf = b, !.cursor = Len(b),
                               !.term = Line!Put(IF n > 1 THEN Line!NewRow ELSE [@ EXCEPT !.col = 1], Prompt \o b)]
    BY DEF Line!Completion
  <2> QED BY <1>0, <2>1 DEF Ed
<1>a. n \in Nat
  BY <1>1
<1> HIDE DEF c, n, b, u, f
<1>5. CASE n = 0
  BY <1>3, <1>5 DEF f, Follows
<1>6. CASE n # 0
  <2>1. b \in Strings /\ Len(b) \in Nat /\ (n = 1 => Len(e.buf) <= Len(b))
    <3>1. CASE n = 1
      <4>0. 1 \in 1 .. n
        BY <3>1
      <4>1. c[1] \in Seq(Characters) /\ Len(e.buf) <= Len(c[1]) /\ Line!Space \in Characters
        <5>1. c[1] \in Strings
          BY <1>1, <4>0 DEF n
        <5>2. Begins(e.buf, c[1])
          BY <1>1, <4>0
        <5>3. Line!Space \in Characters
          BY LineAssumption DEF Line!Text
        <5> QED BY <5>1, <5>2, <5>3 DEF Begins, Strings
      <4>2. Append(c[1], Line!Space) \in Seq(Characters) /\ Len(Append(c[1], Line!Space)) = Len(c[1]) + 1
        BY <4>1
      <4>3. Len(c[1]) \in Nat
        BY <4>1
      <4>4. b = Append(c[1], Line!Space)
        BY <1>2, <3>1
      <4>5. b \in Seq(Characters) /\ Len(b) = Len(c[1]) + 1
        BY <4>2, <4>4, Zenon
      <4>6. Len(b) \in Nat /\ Len(e.buf) <= Len(b)
        BY <1>0, <4>1, <4>3, <4>5
      <4> QED BY <4>5, <4>6, Zenon DEF Strings
    <3>2. CASE n > 1
      <4>1. b \in Seq(Characters)
        BY <1>2, <3>2 DEF Longest, Strings
      <4>2. n # 1
        BY <1>a, <3>2
      <4> QED BY <4>1, <4>2 DEF Strings
    <3> QED BY <1>a, <1>6, <3>1, <3>2
  <2>2. t \in Term /\ t.col = 1
    <3>1. CASE n > 1
      BY <3>1, LineNewRow
    <3>2. CASE ~(n > 1)
      BY <1>0, <3>2 DEF Term
    <3> QED BY <3>1, <3>2
  <2>3. ASSUME Shows(e), NEW i \in 1 .. Line!Width, i > Len(Prompt) + Len(b)
        PROVE  t.row[i] = Line!Space
    <3>1. CASE n > 1
      BY <3>1, LineNewRow
    <3>2. CASE ~(n > 1)
      <4>1. i \in Nat /\ n = 1
        BY <1>0, <1>a, <1>6, <3>2
      <4>2. ~(i <= Len(Prompt)) /\ ~(i <= Len(Prompt) + Len(e.buf))
        BY <1>0, <2>1, <2>3, <4>1
      <4>3. e.term.row[i] = Line!Space
        BY <2>3, <4>2 DEF Shows, Shown
      <4>4. t.row = e.term.row
        BY <1>0, <3>2 DEF Term
      <4> QED BY <4>3, <4>4
    <3> QED BY <3>1, <3>2
  <2> HIDE DEF t
  <2>4. u \in Term /\ (Shows(e) => u.col = Len(Prompt) + Len(b) + 1 /\ Shown(u.row, b))
    <3>1. u \in Term
      <4>1. Prompt \o b \in Strings
        BY <2>1, LineConstants DEF Strings
      <4> QED BY <2>2, <4>1, LinePut DEF u
    <3>2. ASSUME Shows(e)  PROVE u.col = Len(Prompt) + Len(b) + 1 /\ Shown(u.row, b)
      <4>1. \A i \in 1 .. Line!Width : i > Len(Prompt) + Len(b) => t.row[i] = Line!Space
        BY <2>3, <3>2
      <4> QED BY <2>1, <2>2, <4>1, LineDrawn DEF u
    <3> QED BY <3>1, <3>2
  <2>5. f \in Ed /\ f.buf = b /\ f.cursor = Len(b) /\ f.history_i = e.history_i /\ f.term = u
    BY <1>0, <1>4, <1>6, <2>1, <2>4 DEF Ed
  <2>6. f.cursor <= Len(f.buf)
    BY <2>1, <2>5
  <2>7. Shows(e) => Shows(f)
    BY <2>4, <2>5 DEF Shows
  <2> QED BY <1>0, <2>5, <2>6, <2>7 DEF Follows, Ready, f
<1> QED BY <1>5, <1>6
-----------------------------------------------------------------------------
\* The line is ready for a key and shown, and the file has the history.
EditInv ==
  /\ Ready(s1) /\ Len(s1.buf) <= MaxLine /\ (~s3 => s1.history_i = 0)
  /\ s2 \in {"none", "esc", "esc[", "esc[3"}
  /\ {s5, s6, s8} \subseteq Seq(Strings) /\ Len(s5) <= MaxHistory
  /\ s3 /\ s9 => Shows(s1)
  /\ \A i \in 1 .. Len(s5) : s5[i] # << >>
  /\ s7 => Line!IsSuffix(s5, Line!Lines(s8))

LEMMA EditingIs == EditInv => Line!TypeOK /\ Line!ScreenShowsLine /\ Line!HistoryIsSaved /\ Line!CompletionIsLongest
<1> SUFFICES ASSUME EditInv  PROVE Line!TypeOK /\ Line!ScreenShowsLine /\ Line!HistoryIsSaved /\ Line!CompletionIsLongest
  OBVIOUS
<1>0. /\ s1 \in Ed /\ s1.buf \in Strings /\ s1.cursor \in Nat /\ s1.term \in Term /\ s1.cursor <= Len(s1.buf)
      /\ Len(s1.buf) \in Nat /\ s1.term.row \in [1 .. Line!Width -> Characters]
      /\ s1.history_i <= Len(s5) /\ Len(s5) \in Nat
      /\ s5 \in Seq(Strings) /\ s6 \in Seq(Strings)
  BY LineRecords DEF EditInv, Ready
<1>1. Line!TypeOK
  <2>1. s1.cursor \in 0 .. Len(s1.buf)
    BY <1>0
  <2> QED BY <1>0, <2>1 DEF EditInv, Line!TypeOK
<1>2. Line!ScreenShowsLine
  <2> SUFFICES ASSUME s3, s9
               PROVE  /\ s1.term.row = (Prompt \o s1.buf) \o Line!Blank(Line!Width - Len(Prompt \o s1.buf))
                      /\ s1.term.col = Len(Prompt) + s1.cursor + 1
    BY DEF Line!ScreenShowsLine
  <2>1. Shown(s1.term.row, s1.buf) /\ s1.term.col = Len(Prompt) + s1.cursor + 1 /\ Len(s1.buf) <= MaxLine
    BY DEF EditInv, Shows
  <2> QED BY <1>0, <2>1, LineRow
<1>3. Line!HistoryIsSaved
  BY <1>0 DEF EditInv, Line!HistoryIsSaved
<1>4. Line!CompletionIsLongest
  <2> DEFINE c == Line!Candidates(s1.buf)
             n == Len(c)
             d == Line!Completed(s1.buf)
  <2>1. c \in Seq(Strings) /\ n \in Nat /\ DOMAIN c = 1 .. n /\ \A i \in 1 .. n : c[i] \in Strings
    BY <1>0, CandidatesBegin
  <2>2. /\ n = 1 => d = Append(c[1], Line!Space)
        /\ n > 1 => Longest(s1.buf, c, d, n)
    BY <1>0, CompletedIs
  <2> SUFFICES ASSUME c # << >>
               PROVE  IF n = 1 THEN d = Append(c[1], Line!Space)
                      ELSE /\ Line!IsPrefix(s1.buf, d) /\ \A i \in DOMAIN c : Line!IsPrefix(d, c[i])
                           /\ \/ \E i \in DOMAIN c : Len(c[i]) = Len(d)
                              \/ \E i, j \in DOMAIN c : c[i][Len(d) + 1] # c[j][Len(d) + 1]
    BY DEF Line!CompletionIsLongest
  <2> HIDE DEF c, d
  <2>3. n # 0
    BY <2>1
  <2>4. CASE n = 1
    BY <2>2, <2>4
  <2>5. CASE n # 1
    <3>1. n > 1
      <4> HIDE DEF n
      <4> QED BY <2>1, <2>3, <2>5
    <3>2. Longest(s1.buf, c, d, n)
      BY <2>2, <3>1
    <3> HIDE DEF n
    <3>3. Line!IsPrefix(s1.buf, d) /\ \A i \in DOMAIN c : Line!IsPrefix(d, c[i])
      BY <1>0, <2>1, <3>2, BeginsIs DEF Longest
    <3>4. \/ \E i \in DOMAIN c : Len(c[i]) = Len(d)
          \/ \E i, j \in DOMAIN c : c[i][Len(d) + 1] # c[j][Len(d) + 1]
      BY <2>1, <3>2 DEF Longest
    <3> QED BY <2>5, <3>3, <3>4 DEF n
  <2> QED BY <2>4, <2>5
<1> QED BY <1>1, <1>2, <1>3, <1>4

\* A line that is not read yet, or not any more.
LEMMA LineFresh ==
  ASSUME NEW i \in Nat, NEW t \in Term
  PROVE  /\ Line!Fresh(i, t) \in Ed /\ Line!Fresh(i, t).buf = << >> /\ Line!Fresh(i, t).cursor = 0
         /\ Line!Fresh(i, t).history_i = i /\ Line!Fresh(i, t).term = t
  BY DEF Line!Fresh, Ed, Strings

LEMMA LineDraws ==
  ASSUME NEW e \in Ed
  PROVE  /\ Line!Drawn(e) \in Ed /\ Line!Drawn(e).buf = e.buf /\ Line!Drawn(e).cursor = e.cursor
         /\ Line!Drawn(e).history_i = e.history_i /\ (s9 => Line!Drawn(e) = e)
  BY LineNewRow DEF Line!Drawn, Ed

LEMMA EditInit == Line!Init => EditInv
<1> SUFFICES ASSUME Line!Init  PROVE EditInv
  OBVIOUS
<1>1. /\ s1 = Line!Fresh(0, Line!NewRow) /\ s2 = "none" /\ s3 = FALSE /\ s5 = << >> /\ s6 = << >>
      /\ s7 = FALSE /\ s8 \in Saved
  BY DEF Line!Init
<1>2. s1 \in Ed /\ s1.buf = << >> /\ s1.cursor = 0 /\ s1.history_i = 0
  BY <1>1, LineFresh, LineNewRow
<1>3. ~s3 /\ ~s7
  BY <1>1, Zenon
<1>4. s8 \in Seq(Strings) /\ {s5, s6} \subseteq Seq(Strings) /\ Len(s5) = 0 /\ MaxHistory \in Nat /\ MaxLine \in Nat
  BY <1>1, LineConstants
<1>5. Ready(s1) /\ Len(s1.buf) <= MaxLine /\ Len(s5) <= MaxHistory /\ \A i \in 1 .. Len(s5) : s5[i] # << >>
  BY <1>2, <1>4 DEF Ready
<1> QED BY <1>1, <1>2, <1>3, <1>4, <1>5 DEF EditInv

\* Any key that edits.
LEMMA EditKeeps ==
  ASSUME EditInv, s3, NEW e, Follows(s1, e), Line!Edit(e), s2' \in {"none", "esc", "esc[", "esc[3"}
  PROVE  EditInv'
<1>1. /\ Len(e.buf) <= MaxLine /\ s1' = Line!Drawn(e)
      /\ UNCHANGED <<s3, s4, s5, s6, s7, s8, s9>>
  BY DEF Line!Edit
<1>2. e \in Ed /\ e.cursor <= Len(e.buf) /\ e.history_i <= Len(s5) /\ (Shows(s1) => Shows(e))
  BY DEF Follows, Ready
<1>3. /\ s1' \in Ed /\ s1'.buf = e.buf /\ s1'.cursor = e.cursor /\ s1'.history_i = e.history_i
      /\ s9 => s1' = e
  BY <1>1, <1>2, LineDraws
<1>4. Ready(s1)'
  BY <1>1, <1>2, <1>3 DEF Ready
<1>5. s3' /\ (s9' => Shows(s1)')
  <2>1. s3'
    BY <1>1, Zenon
  <2>2. ASSUME s9'  PROVE Shows(s1)'
    <3>1. s9
      BY <1>1, <2>2, Zenon
    <3>2. Shows(s1)
      BY <3>1, Zenon DEF EditInv
    <3>3. s1' = e /\ Shows(e)
      BY <1>2, <1>3, <3>1, <3>2
    <3> QED BY <3>3, Zenon
  <2> QED BY <2>1, <2>2
<1>6. s7' => Line!IsSuffix(s5, Line!Lines(s8))'
  <2>1. s7 => Line!IsSuffix(s5, Line!Lines(s8))
    BY Zenon DEF EditInv
  <2>2. s7' = s7 /\ s5' = s5 /\ s8' = s8
    BY <1>1, Zenon
  <2> QED BY <2>1, <2>2, Zenon
<1> QED BY <1>1, <1>3, <1>4, <1>5, <1>6 DEF EditInv
-----------------------------------------------------------------------------
LEMMA EditingKeyStep == ASSUME EditInv, Line!EditingKey  PROVE EditInv'
<1>0. Ready(s1) /\ s1 \in Ed /\ s3 /\ s2' \in {"none", "esc", "esc[", "esc[3"}
      /\ s5 \in Seq(Strings) /\ s6 \in Seq(Strings)
  BY DEF EditInv, Ready, Line!EditingKey
<1>1. PICK e \in {Line!Completion(s1), Line!MoveTo(s1, 0), Line!MoveTo(s1, Len(s1.buf)),
                  Line!MoveBackward(s1), Line!MoveForward(s1), Line!RemoveChar(s1), Line!RemoveLine(s1),
                  Line!HistoryNext(s1), Line!HistoryPrevious(s1),
                  Line!RemoveChar(Line!MoveBackward(s1))} : Line!Edit(e)
  BY DEF Line!EditingKey
<1>2. Follows(s1, Line!RemoveChar(Line!MoveBackward(s1)))
  <2> DEFINE f == Line!MoveBackward(s1)
             g == Line!RemoveChar(f)
  <2>1. Follows(s1, f)
    BY <1>0, LineBackward
  <2> HIDE DEF f
  <2>2. Follows(f, g)
    BY <2>1, LineRemoves DEF Follows
  <2> HIDE DEF g
  <2>3. f \in Ed /\ g \in Ed
    BY <2>1, <2>2 DEF Follows, Ready
  <2>4. Follows(s1, g)
    BY <1>0, <2>1, <2>2, <2>3, FollowsAll
  <2> QED BY <2>4 DEF f, g
<1>3. /\ Follows(s1, Line!Completion(s1)) /\ Follows(s1, Line!MoveTo(s1, 0))
      /\ Follows(s1, Line!MoveTo(s1, Len(s1.buf))) /\ Follows(s1, Line!MoveBackward(s1))
      /\ Follows(s1, Line!MoveForward(s1)) /\ Follows(s1, Line!RemoveChar(s1))
      /\ Follows(s1, Line!RemoveLine(s1)) /\ Follows(s1, Line!HistoryNext(s1))
      /\ Follows(s1, Line!HistoryPrevious(s1))
  BY <1>0, LineCompletion, LineBackward, LineRemoves, LineHistory
<1>4. Follows(s1, e)
  BY <1>1, <1>2, <1>3, Zenon
<1> QED BY <1>0, <1>1, <1>4, EditKeeps

LEMMA EscapeSequenceStep == ASSUME EditInv, Line!EscapeSequence  PROVE EditInv'
<1>0. Ready(s1) /\ s1 \in Ed /\ s3 /\ s5 \in Seq(Strings) /\ s6 \in Seq(Strings)
  BY DEF EditInv, Ready, Line!EscapeSequence
<1>1. s2' \in {"none", "esc", "esc[", "esc[3"}
  BY DEF Line!EscapeSequence
<1>2. PICK e \in {s1, Line!HistoryPrevious(s1), Line!HistoryNext(s1), Line!MoveBackward(s1),
                  Line!MoveForward(s1), Line!RemoveChar(s1)} : Line!Edit(e)
  BY DEF Line!EscapeSequence
<1>3. /\ Follows(s1, s1) /\ Follows(s1, Line!MoveBackward(s1))
      /\ Follows(s1, Line!MoveForward(s1)) /\ Follows(s1, Line!RemoveChar(s1))
      /\ Follows(s1, Line!HistoryNext(s1)) /\ Follows(s1, Line!HistoryPrevious(s1))
  BY <1>0, FollowsAll, LineBackward, LineRemoves, LineHistory
<1>4. Follows(s1, e)
  BY <1>2, <1>3, Zenon
<1> QED BY <1>0, <1>1, <1>2, <1>4, EditKeeps

LEMMA TypeTextStep == ASSUME EditInv, Line!TypeText  PROVE EditInv'
<1>0. Ready(s1) /\ s1 \in Ed /\ s3 /\ Len(s1.buf) < MaxLine /\ Len(s1.buf) \in Nat /\ MaxLine \in Nat
  BY LineRecords, LineConstants DEF EditInv, Ready, Line!TypeText
<1>1. PICK c \in Line!Text :
        /\ s9' = (s9 /\ c # Line!Esc)
        /\ s1' = IF s9' THEN Line!Inserted(s1, c) ELSE [Line!Inserted(s1, c) EXCEPT !.term = Line!NewRow]
  BY Zenon DEF Line!TypeText
<1>2. s2' = "none" /\ UNCHANGED <<s3, s4, s5, s6, s7, s8>>
  BY DEF Line!TypeText
<1> DEFINE f == Line!Inserted(s1, c)
<1>3. Follows(s1, f) /\ Len(f.buf) = Len(s1.buf) + 1
  <2>1. c \in Characters
    BY LineAssumption
  <2> QED BY <1>0, <2>1, LineInserted
<1> HIDE DEF f
<1>4. f \in Ed /\ f.cursor <= Len(f.buf) /\ f.history_i <= Len(s5) /\ (Shows(s1) => Shows(f))
  BY <1>3 DEF Follows, Ready
<1>5. /\ s1' \in Ed /\ s1'.buf = f.buf /\ s1'.cursor = f.cursor /\ s1'.history_i = f.history_i
      /\ s9' => s1' = f
  <2>1. CASE s9'
    <3>1. s1' = f
      BY <1>1, <2>1, Zenon DEF f
    <3> QED BY <1>4, <3>1
  <2>2. CASE ~s9'
    <3>1. s1' = [f EXCEPT !.term = Line!NewRow]
      BY <1>1, <2>2, Zenon DEF f
    <3>2. s1' \in Ed /\ s1'.buf = f.buf /\ s1'.cursor = f.cursor /\ s1'.history_i = f.history_i
      BY <1>4, <3>1, LineNewRow DEF Ed
    <3> QED BY <2>2, <3>2, Zenon
  <2> QED BY <2>1, <2>2, Zenon
<1>6. Ready(s1)' /\ Len(s1'.buf) <= MaxLine
  BY <1>0, <1>2, <1>3, <1>4, <1>5 DEF Ready
<1>7. s3' /\ (s9' => Shows(s1)')
  <2>1. s3'
    BY <1>0, <1>2, Zenon
  <2>2. ASSUME s9'  PROVE Shows(s1)'
    <3>1. s9
      BY <1>1, <2>2, Zenon
    <3>2. Shows(s1)
      BY <1>0, <3>1, Zenon DEF EditInv
    <3>3. s1' = f /\ Shows(f)
      BY <1>4, <1>5, <2>2, <3>2, Zenon
    <3> QED BY <3>3, Zenon
  <2> QED BY <2>1, <2>2
<1>8. s7' => Line!IsSuffix(s5, Line!Lines(s8))'
  <2>1. s7 => Line!IsSuffix(s5, Line!Lines(s8))
    BY Zenon DEF EditInv
  <2>2. s7' = s7 /\ s5' = s5 /\ s8' = s8
    BY <1>2, Zenon
  <2> QED BY <2>1, <2>2, Zenon
<1>9. {s5, s6, s8}' \subseteq Seq(Strings) /\ Len(s5)' <= MaxHistory /\ \A i \in 1 .. Len(s5)' : s5'[i] # << >>
  BY <1>2 DEF EditInv
<1> QED BY <1>2, <1>6, <1>7, <1>8, <1>9 DEF EditInv

\* No line is read after the step: what remains is the history and its file.
LEMMA LineEnds ==
  ASSUME EditInv, s1' = Line!Fresh(0, Line!NewRow), ~s3', s2' \in {"none", "esc", "esc[", "esc[3"},
         {s5, s6, s8}' \subseteq Seq(Strings), Len(s5)' <= MaxHistory,
         \A i \in 1 .. Len(s5)' : s5'[i] # << >>,
         s7' => Line!IsSuffix(s5', Line!Lines(s8'))
  PROVE  EditInv'
<1>1. s1' \in Ed /\ s1'.buf = << >> /\ s1'.cursor = 0 /\ s1'.history_i = 0
  BY LineFresh, LineNewRow
<1>2. Len(s5)' \in Nat /\ MaxLine \in Nat
  BY LineConstants
<1>3. Ready(s1)' /\ Len(s1'.buf) <= MaxLine
  BY <1>1, <1>2 DEF Ready
<1> QED BY <1>1, <1>3 DEF EditInv

LEMMA EnterStep == ASSUME EditInv, Line!Enter  PROVE EditInv'
<1> DEFINE b == Line!Stripped(s1.buf)
           new == b # << >> /\ (s5 = << >> \/ b # Line!Last(s5))
<1>1. /\ b \in Entered
      /\ new => Len(s5) < MaxHistory /\ Len(s8) < MaxHistory
      /\ s5' = IF new THEN Append(s5, b) ELSE s5
      /\ s8' = IF new /\ s7 THEN Append(s8, b) ELSE s8
  BY DEF Line!Enter
<1>2. /\ s3' = FALSE /\ s1' = Line!Fresh(0, Line!NewRow) /\ s2' = "none"
      /\ UNCHANGED <<s6, s7>>
  BY DEF Line!Enter
<1> HIDE DEF b
<1>3. b \in Strings /\ s5 \in Seq(Strings) /\ s8 \in Seq(Strings) /\ s6 \in Seq(Strings)
      /\ Len(s5) \in Nat /\ Len(s8) \in Nat /\ Len(s5) <= MaxHistory /\ MaxHistory \in Nat
  BY <1>1, LineConstants DEF EditInv
<1>4. ~s3'
  BY <1>2, Zenon
<1>5. CASE new
  <2>1. /\ s5' \in Seq(Strings) /\ Len(s5)' = Len(s5) + 1 /\ s5'[Len(s5) + 1] = b
        /\ \A i \in 1 .. Len(s5) : s5'[i] = s5[i]
    BY <1>1, <1>3, <1>5, SeqAdd
  <2>2. ASSUME NEW i \in 1 .. Len(s5)'  PROVE s5'[i] # << >>
    <3>1. i = Len(s5) + 1 \/ i \in 1 .. Len(s5)
      BY <1>3, <2>1
    <3>2. \A j \in 1 .. Len(s5) : s5[j] # << >>
      BY DEF EditInv
    <3> QED BY <1>5, <2>1, <3>1, <3>2
  <2>3. Len(s5)' <= MaxHistory
    BY <1>1, <1>3, <1>5, <2>1
  <2>4. s8' \in Seq(Strings)
    BY <1>1, <1>3, SeqAdd
  <2>5. ASSUME s7'  PROVE Line!IsSuffix(s5', Line!Lines(s8'))
    <3>1. s7
      BY <1>2, <2>5, Zenon
    <3>2. s5' = Append(s5, b) /\ s8' = Append(s8, b) /\ b # << >>
      BY <1>1, <1>5, <3>1, Zenon
    <3>3. Line!IsSuffix(s5, Line!Lines(s8))
      BY <3>1, Zenon DEF EditInv
    <3>4. Line!Lines(s8') = Append(Line!Lines(s8), b) /\ Line!Lines(s8) \in Seq(Strings)
      BY <1>3, <3>2, LinesAdd, LinesFull
    <3>5. Line!IsSuffix(Append(s5, b), Append(Line!Lines(s8), b))
      BY <1>3, <3>3, <3>4, SuffixAdd, Zenon
    <3> QED BY <3>2, <3>4, <3>5, Zenon
  <2>6. s6' \in Seq(Strings)
    BY <1>2, <1>3
  <2>7. {s5, s6, s8}' \subseteq Seq(Strings)
    BY <2>1, <2>4, <2>6
  <2> QED BY <1>2, <1>4, <2>2, <2>3, <2>5, <2>7, LineEnds
<1>6. CASE ~new
  <2>1. s5' = s5 /\ s8' = s8 /\ s6' = s6
    BY <1>1, <1>2, <1>6, Zenon
  <2>2. s7' => Line!IsSuffix(s5', Line!Lines(s8'))
    <3>1. s7' = s7
      BY <1>2
    <3>2. s7 => Line!IsSuffix(s5, Line!Lines(s8))
      BY Zenon DEF EditInv
    <3> QED BY <2>1, <3>1, <3>2, Zenon
  <2>3. {s5, s6, s8}' \subseteq Seq(Strings) /\ Len(s5)' <= MaxHistory /\ \A i \in 1 .. Len(s5)' : s5'[i] # << >>
    BY <2>1 DEF EditInv
  <2> QED BY <1>2, <1>4, <2>2, <2>3, LineEnds
<1> QED BY <1>5, <1>6

LEMMA ReadFailsStep == ASSUME EditInv, NEW open \in BOOLEAN, Line!ReadFails(open)  PROVE EditInv'
<1>1. /\ s3' = FALSE /\ s7' = (s7 /\ open) /\ s1' = Line!Fresh(0, Line!NewRow) /\ s2' = "none"
      /\ UNCHANGED <<s5, s6, s8>>
  BY DEF Line!ReadFails
<1>2. ~s3'
  BY <1>1, Zenon
<1>3. s7' => Line!IsSuffix(s5', Line!Lines(s8'))
  <2>1. s7' => s7
    BY <1>1, Zenon
  <2>2. s7 => Line!IsSuffix(s5, Line!Lines(s8))
    BY Zenon DEF EditInv
  <2>3. s5' = s5 /\ s8' = s8
    BY <1>1
  <2> QED BY <2>1, <2>2, <2>3, Zenon
<1>4. {s5, s6, s8}' \subseteq Seq(Strings) /\ Len(s5)' <= MaxHistory /\ \A i \in 1 .. Len(s5)' : s5'[i] # << >>
  BY <1>1 DEF EditInv
<1> QED BY <1>1, <1>2, <1>3, <1>4, LineEnds

LEMMA GetStep == ASSUME EditInv, Line!Get  PROVE EditInv'
<1> DEFINE t == Line!Put(Line!NewRow, Prompt)
           f == Line!Fresh(Len(s5), t)
<1>1. s3' = TRUE /\ s1' = Line!Drawn(f) /\ UNCHANGED <<s2, s5, s6, s7, s8, s9>>
  BY DEF Line!Get
<1>2. s5 \in Seq(Strings) /\ Len(s5) \in Nat /\ Prompt \in Strings /\ MaxLine \in Nat
  BY LineConstants DEF EditInv
<1>3. t \in Term /\ t.col = Len(Prompt) + 0 + 1 /\ Shown(t.row, << >>)
  <2>1. Prompt \o << >> = Prompt /\ << >> \in Strings /\ Len(<< >>) = 0
    BY <1>2 DEF Strings
  <2> DEFINE z == << >>
  <2>2. z \in Strings /\ Prompt \o z = Prompt /\ Len(z) = 0
    BY <2>1
  <2> HIDE DEF z
  <2>3. \A i \in 1 .. Line!Width : i > Len(Prompt) + Len(z) => Line!NewRow.row[i] = Line!Space
    BY LineNewRow
  <2>4. /\ Line!Put(Line!NewRow, Prompt \o z) \in Term
        /\ Line!Put(Line!NewRow, Prompt \o z).col = Len(Prompt) + Len(z) + 1
        /\ Shown(Line!Put(Line!NewRow, Prompt \o z).row, z)
    BY <2>2, <2>3, LineNewRow, LineDrawn
  <2> QED BY <2>2, <2>4, Zenon DEF z
<1> HIDE DEF t
<1>4. f \in Ed /\ f.buf = << >> /\ f.cursor = 0 /\ f.history_i = Len(s5) /\ f.term = t
  BY <1>2, <1>3, LineFresh
<1> HIDE DEF f
<1>5. Shows(f)
  BY <1>3, <1>4, Zenon DEF Shows
<1>6. /\ s1' \in Ed /\ s1'.buf = << >> /\ s1'.cursor = 0 /\ s1'.history_i = Len(s5)
      /\ s9 => s1' = f
  BY <1>1, <1>4, LineDraws
<1>7. Ready(s1)' /\ Len(s1'.buf) <= MaxLine
  BY <1>1, <1>2, <1>6 DEF Ready
<1>8. s3' /\ (s9' => Shows(s1)')
  <2>1. s3' /\ (s9' => s9)
    BY <1>1, Zenon
  <2> QED BY <1>5, <1>6, <2>1, Zenon
<1>9. s7' => Line!IsSuffix(s5, Line!Lines(s8))'
  <2>1. s7 => Line!IsSuffix(s5, Line!Lines(s8))
    BY Zenon DEF EditInv
  <2>2. s7' = s7 /\ s5' = s5 /\ s8' = s8
    BY <1>1, Zenon
  <2> QED BY <2>1, <2>2, Zenon
<1>10. /\ {s5, s6, s8}' \subseteq Seq(Strings) /\ Len(s5)' <= MaxHistory /\ \A i \in 1 .. Len(s5)' : s5'[i] # << >>
       /\ s2' \in {"none", "esc", "esc[", "esc[3"}
  BY <1>1 DEF EditInv
<1> QED BY <1>7, <1>8, <1>9, <1>10 DEF EditInv

\* Between two lines: the state of the line stays, the history or the commands change.
LEMMA BetweenStep ==
  ASSUME EditInv, Line!SetCommands \/ Line!ClearHistory \/ Line!SetHistoryFile  PROVE EditInv'
<1>1. ~s3 /\ UNCHANGED <<s1, s2, s3, s8, s9>>
  BY DEF Line!SetCommands, Line!ClearHistory, Line!SetHistoryFile
<1>2. /\ s1 \in Ed /\ s1.cursor <= Len(s1.buf) /\ s1.history_i = 0 /\ Len(s1.buf) <= MaxLine
      /\ {s5, s6, s8} \subseteq Seq(Strings) /\ Len(s5) <= MaxHistory
      /\ (\A i \in 1 .. Len(s5) : s5[i] # << >>)
      /\ s2 \in {"none", "esc", "esc[", "esc[3"}
  BY <1>1 DEF EditInv, Ready
<1>3. /\ {s5, s6}' \subseteq Seq(Strings) /\ Len(s5)' <= MaxHistory
      /\ (\A i \in 1 .. Len(s5)' : s5'[i] # << >>)
      /\ s7' => Line!IsSuffix(s5', Line!Lines(s8))
  <2>1. CASE Line!SetCommands
    <3>1. s5' = s5 /\ s7' = s7 /\ s6' \in Commands
      BY <2>1 DEF Line!SetCommands
    <3>2. s7 => Line!IsSuffix(s5, Line!Lines(s8))
      BY Zenon DEF EditInv
    <3>3. s7' => Line!IsSuffix(s5', Line!Lines(s8))
      BY <3>1, <3>2, Zenon
    <3>4. s6' \in Seq(Strings)
      BY <3>1, LineConstants
    <3> QED BY <1>2, <3>1, <3>3, <3>4
  <2>2. CASE Line!ClearHistory
    <3>1. s5' = << >> /\ s6' = s6
      BY <2>2 DEF Line!ClearHistory
    <3>2. Line!IsSuffix(s5', Line!Lines(s8))
      BY <1>2, <3>1, LinesFull, SuffixOfAny
    <3>3. s5' \in Seq(Strings) /\ Len(s5)' = 0 /\ MaxHistory \in Nat
      BY <3>1, LineConstants
    <3> QED BY <1>2, <3>1, <3>2, <3>3
  <2>3. CASE Line!SetHistoryFile
    <3>1. s5' = Line!Lines(s8) /\ Len(s5)' <= MaxHistory /\ s6' = s6
      BY <2>3 DEF Line!SetHistoryFile
    <3>2. s5' \in Seq(Strings) /\ \A i \in 1 .. Len(s5)' : s5'[i] # << >>
      BY <1>2, <3>1, LinesFull
    <3>3. Line!IsSuffix(s5', Line!Lines(s8))
      BY <3>1, <3>2, SuffixOfAny
    <3> QED BY <1>2, <3>1, <3>2, <3>3
  <2> QED BY <2>1, <2>2, <2>3
<1>4. Ready(s1)'
  <2>1. Len(s5)' \in Nat
    BY <1>3
  <2> QED BY <1>1, <1>2, <2>1 DEF Ready
<1>5. ~s3'
  BY <1>1, Zenon
<1>6. s7' => Line!IsSuffix(s5, Line!Lines(s8))'
  BY <1>1, <1>3, Zenon
<1>7. s1'.history_i = 0 /\ Len(s1'.buf) <= MaxLine /\ s2' \in {"none", "esc", "esc[", "esc[3"}
      /\ {s5, s6, s8}' \subseteq Seq(Strings)
  BY <1>1, <1>2, <1>3
<1> QED BY <1>3, <1>4, <1>5, <1>6, <1>7 DEF EditInv

LEMMA EditStep == EditInv /\ [Line!Next]_(Line!vars) => EditInv'
<1> SUFFICES ASSUME EditInv, [Line!Next]_(Line!vars)  PROVE EditInv'
  OBVIOUS
<1>1. CASE Line!Next
  <2>1. TRUE \in BOOLEAN /\ FALSE \in BOOLEAN
    OBVIOUS
  <2> QED BY <1>1, <2>1, EditingKeyStep, EscapeSequenceStep, TypeTextStep, EnterStep, ReadFailsStep, GetStep, BetweenStep
          DEF Line!Next
<1>2. CASE UNCHANGED Line!vars
  BY <1>2 DEF Line!vars, EditInv, Ready
<1> QED BY <1>1, <1>2
-----------------------------------------------------------------------------
(* A part starts as its module says, and steps as its module says *)

LEMMA ObjectsStart ==
  ASSUME ObjectsInit
  PROVE  /\ part = "readline" => Line!Init
         /\ part = "map" => Map!Init
         /\ part = "pointer" => Ptr!Init
         /\ part = "signal" => Sig!Init
         /\ part = "octree" => Tree!Init
         /\ part = "positions" => {s1, s2, s3} \subseteq Words /\ s4 \in MortonNumbers
  BY DEF ObjectsInit

LEMMA ObjectsStep ==
  ASSUME [ObjectsNext /\ UNCHANGED part]_<<part, shared>>
  PROVE  /\ part' = part
         /\ part = "readline" => [Line!Next]_(Line!vars)
         /\ part = "map" => [Map!Next]_(Map!vars)
         /\ part = "pointer" => [Ptr!Next]_(Ptr!vars)
         /\ part = "signal" => [Sig!Next]_(Sig!vars)
         /\ part = "octree" => [Tree!Next]_(Tree!vars)
         /\ part = "positions" => UNCHANGED <<s1, s2, s3, s4>>
<1>1. CASE part' = part /\ ObjectsNext
  BY <1>1 DEF ObjectsNext
<1>2. CASE UNCHANGED <<part, shared>>
  BY <1>2 DEF shared, Line!vars, Map!vars, Ptr!vars, Sig!vars, Tree!vars
<1> QED BY <1>1, <1>2, Zenon

\* A place of the octree and its number tell each other at every depth: position()
\* undoes mortonNumber(), the number of an enclosing cell is the number shifted, and
\* enclose() gives the lowest cell above two others (Octree.ipp:11-73, 100-106).
THEOREM PlacesHaveNumbers ==
  ASSUME NEW x \in SUBSET Tree!Word(MAX_LEVEL), NEW y \in SUBSET Tree!Word(MAX_LEVEL),
         NEW z \in SUBSET Tree!Word(MAX_LEVEL), NEW m \in SUBSET Tree!Word(3 * MAX_LEVEL)
  PROVE  Tree!PositionsAreExact(x, y, z, m)
  BY TreePositions

\* Through any changes made meanwhile, a HashMap's iterator meets every key that
\* stays exactly once (HashMap.ipp:33-48, 145-214); an object is deleted when the last
\* of any pointers to it is gone and not before (SharedPtr.ipp:10-45); a signal has
\* the results of the slots it called in their order, also when slots connect others
\* and emit again (Signal.h:55-96); and a number of the octree has one instance, its
\* own, at its level (Octree.ipp:76-135).
THEOREM ContainersAreSound == ObjectsSpec => []ContainersSound
<1> DEFINE Inv == /\ part = "map" => MapInv
                  /\ part = "pointer" => PtrInv
                  /\ part = "signal" => SigInv
                  /\ part = "octree" => TreeInv
                  /\ part = "positions" => {s1, s2, s3} \subseteq Words /\ s4 \in MortonNumbers
<1>1. ObjectsInit => Inv
  BY ObjectsStart, MapInit, PtrInit, SigInit, TreeInit
<1>2. Inv /\ [ObjectsNext /\ UNCHANGED part]_<<part, shared>> => Inv'
  <2> SUFFICES ASSUME Inv, [ObjectsNext /\ UNCHANGED part]_<<part, shared>>  PROVE Inv'
    OBVIOUS
  <2>1. part' = part
    BY ObjectsStep
  <2>2. part = "map" => MapInv'
    BY ObjectsStep, MapStep
  <2>3. part = "pointer" => PtrInv'
    BY ObjectsStep, PtrStep
  <2>4. part = "signal" => SigInv'
    BY ObjectsStep, SigStep
  <2>5. part = "octree" => TreeInv'
    BY ObjectsStep, TreeStep
  <2>6. part = "positions" => {s1, s2, s3}' \subseteq Words /\ s4' \in MortonNumbers
    <3> HAVE part = "positions"
    <3>1. UNCHANGED <<s1, s2, s3, s4>>
      BY ObjectsStep
    <3> QED BY <3>1
  <2>7. Words' = Words /\ MortonNumbers' = MortonNumbers
    BY DEF Words, MortonNumbers, Tree!Word
  <2> QED BY <2>1, <2>2, <2>3, <2>4, <2>5, <2>6, <2>7
<1>3. Inv => ContainersSound
  <2> SUFFICES ASSUME Inv  PROVE ContainersSound
    OBVIOUS
  <2>1. part = "positions" => Tree!PositionsAreExact(s1, s2, s3, s4)
    <3> HAVE part = "positions"
    <3>1. {s1, s2, s3} \subseteq SUBSET Tree!Word(MAX_LEVEL) /\ s4 \in SUBSET Tree!Word(3 * MAX_LEVEL)
      BY DEF Words, MortonNumbers
    <3> QED BY <3>1, TreePositions
  <2>2. part = "map" => Map!TypeOK /\ Map!InItsBucket /\ Map!IterationIsExact
    BY MapSound
  <2>3. part = "pointer" => Ptr!ObjectsAreCounted
    BY PtrCounted
  <2>4. part = "signal" => Sig!ResultsInOrder
    BY SigSound
  <2>5. part = "octree" => Tree!InstancesAreDistinct
    BY TreeSound
  <2> QED BY <2>1, <2>2, <2>3, <2>4, <2>5 DEF ContainersSound
<1> QED BY <1>1, <1>2, <1>3, PTL DEF ObjectsSpec

\* After any keys, recalls, completions and timed-out reads the terminal shows the
\* prompt, the line and the cursor's place, the history has no empty line and is the
\* end of what its file has, and a completion goes as far as all commands with that
\* beginning agree (Readline.ipp:23-56, 132-385, 416-439).
THEOREM EditingIsSound == ObjectsSpec => []EditingSound
<1> DEFINE Inv == part = "readline" => EditInv
<1>1. ObjectsInit => Inv
  BY ObjectsStart, EditInit
<1>2. Inv /\ [ObjectsNext /\ UNCHANGED part]_<<part, shared>> => Inv'
  BY ObjectsStep, EditStep
<1>3. Inv => EditingSound
  BY EditingIs DEF EditingSound
<1> QED BY <1>1, <1>2, <1>3, PTL DEF ObjectsSpec
-----------------------------------------------------------------------------
(* CamelliaCipher: s1 is M, s2 K, s3 C, s4 phase, s5 r, s6 e *)

\* Words of 128, 64 and 32 bits.
Wide == SUBSET (0 .. 127)
Half == SUBSET (0 .. 63)
Quarter == SUBSET (0 .. 31)

\* Xor undoes itself.
LEMMA CamXorTwice ==
  /\ \A a, b : Cam!Xor(Cam!Xor(a, b), b) = a
  /\ \A a, b : Cam!Xor(b, Cam!Xor(b, a)) = a
BY Zenon DEF Cam!Xor

LEMMA CamXorType ==
  /\ \A a, b \in Wide : Cam!Xor(a, b) \in Wide
  /\ \A a, b \in Half : Cam!Xor(a, b) \in Half
  /\ \A a, b \in Quarter : Cam!Xor(a, b) \in Quarter
BY DEF Cam!Xor, Wide, Half, Quarter

\* A block is its two halves.
LEMMA CamBlock ==
  ASSUME NEW a \in Half, NEW b \in Half
  PROVE  /\ Cam!Block(a, b) \in Wide /\ Cam!L(Cam!Block(a, b)) = a /\ Cam!R(Cam!Block(a, b)) = b
<1> DEFINE x == Cam!Block(a, b)
<1>1. /\ \A i \in a : i \in Int /\ 0 <= i /\ i <= 63
      /\ \A i \in b : i \in Int /\ 0 <= i /\ i <= 63
  BY DEF Half
<1>2. \A i : i \in x <=> ((\E j \in a : i = j + 64) /\ i \in 0 .. 127) \/ (i \in b /\ i \in 0 .. 63)
  BY DEF Cam!Block, Cam!R, Cam!Shl, Cam!Word
<1> HIDE DEF x
<1>3. x \in Wide
  BY <1>2 DEF Wide
<1>4. \A i : i \in Cam!L(x) <=> \E j \in x : j >= 64 /\ i = j - 64
  BY DEF Cam!L, Cam!Shr
<1>5. ASSUME NEW i \in Cam!L(x)  PROVE i \in a
  <2>1. PICK j \in x : j >= 64 /\ i = j - 64
    BY <1>4
  <2>2. j \notin 0 .. 63
    BY <2>1
  <2>3. PICK k \in a : j = k + 64
    BY <1>2, <2>2
  <2> QED BY <1>1, <2>1, <2>3
<1>6. ASSUME NEW i \in a  PROVE i \in Cam!L(x)
  <2>1. i + 64 \in 0 .. 127 /\ i + 64 >= 64 /\ i = (i + 64) - 64
    BY <1>1
  <2>2. i + 64 \in x
    BY <1>2, <2>1
  <2> QED BY <1>4, <2>1, <2>2
<1>7. \A i : i \in Cam!R(x) <=> i \in x /\ i \in 0 .. 63
  BY DEF Cam!R, Cam!Word
<1>8. ASSUME NEW i  PROVE i \in Cam!R(x) <=> i \in b
  <2>1. ASSUME NEW j \in a, i = j + 64  PROVE i \notin 0 .. 63
    BY <1>1, <2>1
  <2>2. i \in b => i \in 0 .. 63
    BY DEF Half
  <2> QED BY <1>2, <1>7, <2>1, <2>2
<1> QED BY <1>3, <1>5, <1>6, <1>8 DEF x

LEMMA CamHalves ==
  ASSUME NEW x \in Wide
  PROVE  Cam!L(x) \in Half /\ Cam!R(x) \in Half /\ Cam!Block(Cam!L(x), Cam!R(x)) = x
<1>1. \A i \in x : i \in 0 .. 127
  BY DEF Wide
<1>2. \A i : i \in Cam!L(x) <=> \E j \in x : j >= 64 /\ i = j - 64
  BY DEF Cam!L, Cam!Shr
<1>3. \A i : i \in Cam!R(x) <=> i \in x /\ i \in 0 .. 63
  BY DEF Cam!R, Cam!Word
<1>4. Cam!L(x) \in Half
  <2>1. ASSUME NEW i \in Cam!L(x)  PROVE i \in 0 .. 63
    BY <1>1, <1>2
  <2> QED BY <2>1 DEF Half
<1>5. Cam!R(x) \in Half
  BY <1>3 DEF Half
<1> DEFINE y == Cam!Block(Cam!L(x), Cam!R(x))
<1>6. \A i : i \in y <=> \/ ((\E j \in Cam!L(x) : i = j + 64) /\ i \in 0 .. 127)
                   \/ (i \in Cam!R(x) /\ i \in 0 .. 63)
  BY DEF Cam!Block, Cam!R, Cam!Shl, Cam!Word
<1> HIDE DEF y
<1>7. ASSUME NEW i \in y  PROVE i \in x
  <2>1. CASE i \in Cam!R(x)
    BY <1>3, <2>1
  <2>2. CASE i \notin Cam!R(x)
    <3>1. PICK j \in Cam!L(x) : i = j + 64
      BY <1>6, <2>2
    <3>2. PICK k \in x : k >= 64 /\ j = k - 64
      BY <1>2
    <3>3. i = k
      BY <1>1, <3>1, <3>2
    <3> QED BY <3>3
  <2> QED BY <2>1, <2>2
<1>8. ASSUME NEW i \in x  PROVE i \in y
  <2>1. CASE i \in 0 .. 63
    BY <1>3, <1>6, <2>1
  <2>2. CASE i \notin 0 .. 63
    <3>1. i >= 64 /\ i \in 0 .. 127 /\ i = (i - 64) + 64
      BY <1>1, <2>2
    <3>2. i - 64 \in Cam!L(x)
      BY <1>2, <3>1
    <3> QED BY <1>6, <3>1, <3>2
  <2> QED BY <2>1, <2>2
<1>9. y = x
  BY <1>7, <1>8
<1> QED BY <1>4, <1>5, <1>9 DEF y

\* F gives a word of 64 bits, whatever its boxes.
LEMMA CamF == \A x, k : Cam!F(x, k) \in Half
  BY DEF Cam!F, Cam!P, Cam!Word, Half

\* A round backwards undoes it.
LEMMA CamRound ==
  ASSUME NEW x \in Wide, NEW k
  PROVE  Cam!Round(x, k) \in Wide /\ Cam!Back(Cam!Round(x, k), k) = x
<1> DEFINE l == Cam!L(x)
           r == Cam!R(x)
           f == Cam!F(l, k)
           n == Cam!Xor(r, f)
<1>1. l \in Half /\ r \in Half /\ f \in Half /\ Cam!Block(l, r) = x
  BY CamHalves, CamF
<1>2. n \in Half
  BY <1>1, CamXorType
<1>3. Cam!Xor(n, f) = r
  BY CamXorTwice
<1>4. Cam!Round(x, k) = Cam!Block(n, l)
  BY DEF Cam!Round
<1>5. /\ Cam!Block(n, l) \in Wide
      /\ Cam!L(Cam!Block(n, l)) = n /\ Cam!R(Cam!Block(n, l)) = l
  BY <1>1, <1>2, CamBlock
<1>6. Cam!Back(Cam!Block(n, l), k) = Cam!Block(l, Cam!Xor(n, f))
  BY <1>5 DEF Cam!Back
<1> QED BY <1>1, <1>3, <1>4, <1>5, <1>6

\* The halves of 64 bits.
LEMMA CamQuarter ==
  ASSUME NEW a \in Quarter, NEW b \in Quarter
  PROVE  /\ Cam!Halves(a, b) \in Half /\ Cam!High(Cam!Halves(a, b)) = a /\ Cam!Low(Cam!Halves(a, b)) = b
<1> DEFINE x == Cam!Halves(a, b)
<1>1. /\ \A i \in a : i \in Int /\ 0 <= i /\ i <= 31
      /\ \A i \in b : i \in Int /\ 0 <= i /\ i <= 31
  BY DEF Quarter
<1>2. \A i : i \in x <=> ((\E j \in a : i = j + 32) /\ i \in 0 .. 63) \/ i \in b
  BY DEF Cam!Halves, Cam!Shl, Cam!Word
<1> HIDE DEF x
<1>3. x \in Half
  BY <1>1, <1>2 DEF Half
<1>4. \A i : i \in Cam!High(x) <=> \E j \in x : j >= 32 /\ i = j - 32
  BY DEF Cam!High, Cam!Shr
<1>5. ASSUME NEW i \in Cam!High(x)  PROVE i \in a
  <2>1. PICK j \in x : j >= 32 /\ i = j - 32
    BY <1>4
  <2>2. j \notin b
    BY <1>1, <2>1
  <2>3. PICK k \in a : j = k + 32
    BY <1>2, <2>2
  <2> QED BY <1>1, <2>1, <2>3
<1>6. ASSUME NEW i \in a  PROVE i \in Cam!High(x)
  <2>1. i + 32 \in 0 .. 63 /\ i + 32 >= 32 /\ i = (i + 32) - 32
    BY <1>1
  <2>2. i + 32 \in x
    BY <1>2, <2>1
  <2> QED BY <1>4, <2>1, <2>2
<1>7. \A i : i \in Cam!Low(x) <=> i \in x /\ i \in 0 .. 31
  BY DEF Cam!Low, Cam!Word
<1>8. ASSUME NEW i  PROVE i \in Cam!Low(x) <=> i \in b
  <2>1. ASSUME NEW j \in a, i = j + 32  PROVE i \notin 0 .. 31
    BY <1>1, <2>1
  <2>2. i \in b => i \in 0 .. 31
    BY DEF Quarter
  <2> QED BY <1>2, <1>7, <2>1, <2>2
<1> QED BY <1>3, <1>5, <1>6, <1>8 DEF x

LEMMA CamOfQuarters ==
  ASSUME NEW x \in Half
  PROVE  Cam!High(x) \in Quarter /\ Cam!Low(x) \in Quarter /\ Cam!Halves(Cam!High(x), Cam!Low(x)) = x
<1>1. \A i \in x : i \in 0 .. 63
  BY DEF Half
<1>2. \A i : i \in Cam!High(x) <=> \E j \in x : j >= 32 /\ i = j - 32
  BY DEF Cam!High, Cam!Shr
<1>3. \A i : i \in Cam!Low(x) <=> i \in x /\ i \in 0 .. 31
  BY DEF Cam!Low, Cam!Word
<1>4. Cam!High(x) \in Quarter
  <2>1. ASSUME NEW i \in Cam!High(x)  PROVE i \in 0 .. 31
    BY <1>1, <1>2
  <2> QED BY <2>1 DEF Quarter
<1>5. Cam!Low(x) \in Quarter
  BY <1>3 DEF Quarter
<1> DEFINE y == Cam!Halves(Cam!High(x), Cam!Low(x))
<1>6. \A i : i \in y <=> ((\E j \in Cam!High(x) : i = j + 32) /\ i \in 0 .. 63) \/ i \in Cam!Low(x)
  BY DEF Cam!Halves, Cam!Shl, Cam!Word
<1> HIDE DEF y
<1>7. ASSUME NEW i \in y  PROVE i \in x
  <2>1. CASE i \in Cam!Low(x)
    BY <1>3, <2>1
  <2>2. CASE i \notin Cam!Low(x)
    <3>1. PICK j \in Cam!High(x) : i = j + 32
      BY <1>6, <2>2
    <3>2. PICK k \in x : k >= 32 /\ j = k - 32
      BY <1>2
    <3>3. i = k
      BY <1>1, <3>1, <3>2
    <3> QED BY <3>3
  <2> QED BY <2>1, <2>2
<1>8. ASSUME NEW i \in x  PROVE i \in y
  <2>1. CASE i \in 0 .. 31
    BY <1>3, <1>6, <2>1
  <2>2. CASE i \notin 0 .. 31
    <3>1. i >= 32 /\ i \in 0 .. 63 /\ i = (i - 32) + 32
      BY <1>1, <2>2
    <3>2. i - 32 \in Cam!High(x)
      BY <1>2, <3>1
    <3> QED BY <1>6, <3>1, <3>2
  <2> QED BY <2>1, <2>2
<1>9. y = x
  BY <1>7, <1>8
<1> QED BY <1>4, <1>5, <1>9 DEF y

LEMMA CamMasked == \A x, kl : Cam!Masked(x, kl) \subseteq Cam!Turned(x)
  BY DEF Cam!Masked

LEMMA CamTurned ==
  ASSUME NEW x \in Quarter, NEW kl  PROVE Cam!Masked(x, kl) \in Quarter
<1>1. Cam!Turned(x) \in Quarter
  BY DEF Cam!Turned, Quarter
<1> QED BY <1>1, CamMasked DEF Quarter

\* FL and FLinv undo each other.
LEMMA CamFL ==
  ASSUME NEW x \in Half, NEW kl
  PROVE  Cam!FL(x, kl) \in Half /\ Cam!FLinv(Cam!FL(x, kl), kl) = x
<1> DEFINE h == Cam!High(x)
           l == Cam!Low(x)
           m == Cam!Masked(h, kl)
           low == Cam!Xor(m, l)
           o == low \cup Cam!Low(kl)
           high == Cam!Xor(o, h)
<1>1. h \in Quarter /\ l \in Quarter /\ Cam!Halves(h, l) = x
  BY CamOfQuarters
<1>2. m \in Quarter
  BY <1>1, CamTurned
<1>3. low \in Quarter
  BY <1>1, <1>2, CamXorType
<1>4. o \in Quarter
  BY <1>3 DEF Cam!Low, Cam!Word, Quarter
<1>5. high \in Quarter
  BY <1>1, <1>4, CamXorType
<1>6. Cam!FL(x, kl) = Cam!Halves(high, low)
  BY DEF Cam!FL
<1>7. /\ Cam!Halves(high, low) \in Half
      /\ Cam!High(Cam!Halves(high, low)) = high /\ Cam!Low(Cam!Halves(high, low)) = low
  BY <1>3, <1>5, CamQuarter
<1>8. Cam!Xor(o, high) = h /\ Cam!Xor(m, low) = l
  BY CamXorTwice
<1>9. Cam!FLinv(Cam!Halves(high, low), kl) = Cam!Halves(Cam!Xor(o, high), Cam!Xor(Cam!Masked(Cam!Xor(o, high), kl), low))
  BY <1>7 DEF Cam!FLinv
<1> QED BY <1>1, <1>6, <1>7, <1>8, <1>9

LEMMA CamFLinv ==
  ASSUME NEW y \in Half, NEW kl
  PROVE  Cam!FLinv(y, kl) \in Half /\ Cam!FL(Cam!FLinv(y, kl), kl) = y
<1> DEFINE h == Cam!High(y)
           l == Cam!Low(y)
           o == l \cup Cam!Low(kl)
           high == Cam!Xor(o, h)
           m == Cam!Masked(high, kl)
           low == Cam!Xor(m, l)
<1>1. h \in Quarter /\ l \in Quarter /\ Cam!Halves(h, l) = y
  BY CamOfQuarters
<1>2. o \in Quarter
  BY <1>1 DEF Cam!Low, Cam!Word, Quarter
<1>3. high \in Quarter
  BY <1>1, <1>2, CamXorType
<1>4. m \in Quarter
  BY <1>3, CamTurned
<1>5. low \in Quarter
  BY <1>1, <1>4, CamXorType
<1>6. Cam!FLinv(y, kl) = Cam!Halves(high, low)
  BY DEF Cam!FLinv
<1>7. /\ Cam!Halves(high, low) \in Half
      /\ Cam!High(Cam!Halves(high, low)) = high /\ Cam!Low(Cam!Halves(high, low)) = low
  BY <1>3, <1>5, CamQuarter
<1>8. Cam!Xor(m, low) = l /\ Cam!Xor(o, high) = h
  BY CamXorTwice
<1>9. Cam!FL(Cam!Halves(high, low), kl)
      = Cam!Halves(Cam!Xor(Cam!Xor(m, low) \cup Cam!Low(kl), high), Cam!Xor(m, low))
  BY <1>7 DEF Cam!FL
<1> QED BY <1>1, <1>6, <1>7, <1>8, <1>9
-----------------------------------------------------------------------------
\* The round keys and the FL layer after a round, as encryption and decryption
\* take them.
CamKey(i) == Cam!Sub(s2, "k", i)
CamHasFL(i) == i \in {6, 12} \/ (s2.size # 128 /\ i = 18)
CamAfter(i, m) ==
  IF CamHasFL(i)
  THEN Cam!Block(Cam!FL(Cam!L(m), Cam!Sub(s2, "kl", (2 * i) \div 6 - 2)),
                 Cam!FLinv(Cam!R(m), Cam!Sub(s2, "kl", (2 * i) \div 6 - 1)))
  ELSE m
CamBefore(i, m) ==
  IF i \in {6, 12, 18}
  THEN Cam!Block(Cam!FLinv(Cam!L(m), Cam!Sub(s2, "kl", (2 * i) \div 6 - 2)),
                 Cam!FL(Cam!R(m), Cam!Sub(s2, "kl", (2 * i) \div 6 - 1)))
  ELSE m

\* The blocks that encryption has passed through after each of n rounds.
CamPassed(g, n) ==
  /\ g \in [0 .. 24 -> Wide] /\ g[0] = Cam!Xor(s1, Cam!Whitening(s2, 0))
  /\ \A i \in 1 .. n : g[i] = Cam!Round(CamAfter(i - 1, g[i - 1]), CamKey(i - 1))

\* Decryption goes back through the blocks that encryption has passed.
CamInv ==
  /\ s2.size \in {128, 192, 256} /\ s1 \in Wide
  /\ s4 \in {"encrypt", "decrypt", "done"}
  /\ s4 = "encrypt" => /\ s5 \in 1 .. Cam!Rounds(s2) + 1
                       /\ \E g : CamPassed(g, s5 - 1) /\ s6 = CamAfter(s5 - 1, g[s5 - 1])
  /\ s4 = "decrypt" => /\ s5 \in 0 .. Cam!Rounds(s2)
                       /\ \E g : CamPassed(g, s5) /\ s6 = g[s5]
  /\ s4 = "done" => s6 = s1

LEMMA CamWhitening == ASSUME NEW i  PROVE Cam!Whitening(s2, i) \in Wide
<1> DEFINE a == Cam!Sub(s2, "kw", i)
           b == Cam!Sub(s2, "kw", i + 1)
<1>1. Cam!Whitening(s2, i) = Cam!Shl(a, 64, 128) \cup Cam!R(b)
  BY DEF Cam!Whitening, Cam!Block
<1>2. Cam!Shl(a, 64, 128) \in Wide
  BY DEF Cam!Shl, Cam!Word, Wide
<1>3. Cam!R(b) \in Wide
  BY DEF Cam!R, Cam!Word, Wide
<1> QED BY <1>1, <1>2, <1>3 DEF Wide

\* What follows a round is undone before it is.
LEMMA CamLayer ==
  ASSUME s2.size \in {128, 192, 256}, NEW i \in 0 .. Cam!Rounds(s2) - 1, NEW m \in Wide
  PROVE  CamAfter(i, m) \in Wide /\ CamBefore(i, CamAfter(i, m)) = m
<1>1. CamHasFL(i) <=> i \in {6, 12, 18}
  BY DEF CamHasFL, Cam!Rounds
<1> DEFINE a == Cam!Sub(s2, "kl", (2 * i) \div 6 - 2)
           b == Cam!Sub(s2, "kl", (2 * i) \div 6 - 1)
           x == Cam!FL(Cam!L(m), a)
           y == Cam!FLinv(Cam!R(m), b)
<1>2. CASE CamHasFL(i)
  <2>1. CamAfter(i, m) = Cam!Block(x, y)
    BY <1>2 DEF CamAfter
  <2>2. Cam!L(m) \in Half /\ Cam!R(m) \in Half /\ Cam!Block(Cam!L(m), Cam!R(m)) = m
    BY CamHalves
  <2>3. x \in Half /\ Cam!FLinv(x, a) = Cam!L(m)
    BY <2>2, CamFL
  <2>4. y \in Half /\ Cam!FL(y, b) = Cam!R(m)
    BY <2>2, CamFLinv
  <2>5. Cam!Block(x, y) \in Wide /\ Cam!L(Cam!Block(x, y)) = x /\ Cam!R(Cam!Block(x, y)) = y
    BY <2>3, <2>4, CamBlock
  <2>6. CamBefore(i, Cam!Block(x, y)) = Cam!Block(Cam!FLinv(x, a), Cam!FL(y, b))
    BY <1>1, <1>2, <2>5 DEF CamBefore
  <2> QED BY <2>1, <2>2, <2>3, <2>4, <2>5, <2>6
<1>3. CASE ~CamHasFL(i)
  BY <1>1, <1>3 DEF CamAfter, CamBefore
<1> QED BY <1>2, <1>3

LEMMA CamInit == Cam!Init => CamInv
<1> SUFFICES ASSUME Cam!Init  PROVE CamInv
  OBVIOUS
<1>1. PICK sk \in CipherKeys : s2 = Cam!setKey(sk[2], sk[1])
  BY DEF Cam!Init
<1>2. s2.size \in {128, 192, 256}
  BY <1>1, CodecsAssumption DEF Cam!setKey
<1>3. s1 \in Wide
  BY CodecsAssumption DEF Cam!Init, Cam!Word, Wide
<1> DEFINE b == Cam!Xor(s1, Cam!Whitening(s2, 0))
           g == [i \in 0 .. 24 |-> b]
<1>4. b \in Wide
  BY <1>3, CamWhitening, CamXorType
<1> HIDE DEF b
<1>5. g \in [0 .. 24 -> Wide] /\ g[0] = b
  BY <1>4
<1>6. CamPassed(g, 0)
  BY <1>5 DEF CamPassed, b
<1>7. s4 = "encrypt" /\ s5 = 1 /\ s6 = b
  BY DEF Cam!Init, b
<1>8. CamAfter(0, g[0]) = b
  BY <1>5 DEF CamAfter, CamHasFL
<1>9. \E f : CamPassed(f, s5 - 1) /\ s6 = CamAfter(s5 - 1, f[s5 - 1])
  <2>1. s5 - 1 = 0
    BY <1>7
  <2> HIDE DEF g
  <2> WITNESS g
  <2> QED BY <1>6, <1>7, <1>8, <2>1
<1>10. s5 \in 1 .. Cam!Rounds(s2) + 1
  BY <1>2, <1>7 DEF Cam!Rounds
<1> QED BY <1>2, <1>3, <1>7, <1>9, <1>10 DEF CamInv

\* The next block of an encryption follows those it has passed.
LEMMA CamPasses ==
  ASSUME CamInv, NEW g, NEW n \in 0 .. 23, CamPassed(g, n), n < Cam!Rounds(s2)
  PROVE  \E h : /\ CamPassed(h, n + 1) /\ h[n + 1] = Cam!Round(CamAfter(n, g[n]), CamKey(n))
<1> DEFINE b == Cam!Round(CamAfter(n, g[n]), CamKey(n))
           h == [g EXCEPT ![n + 1] = b]
<1>1. n + 1 \in 1 .. 24 /\ n \in 0 .. 24 /\ n \in 0 .. Cam!Rounds(s2) - 1
      /\ s2.size \in {128, 192, 256} /\ g \in [0 .. 24 -> Wide]
  BY DEF CamInv, Cam!Rounds, CamPassed
<1>2. b \in Wide
  BY <1>1, CamLayer, CamRound
<1> HIDE DEF b
<1>3. /\ h \in [0 .. 24 -> Wide] /\ h[n + 1] = b
      /\ \A i \in 0 .. n : h[i] = g[i]
  BY <1>1, <1>2
<1> HIDE DEF h
<1>4. ASSUME NEW i \in 1 .. n + 1  PROVE h[i] = Cam!Round(CamAfter(i - 1, h[i - 1]), CamKey(i - 1))
  <2>1. CASE i = n + 1
    <3>1. i - 1 = n /\ h[n] = g[n]
      BY <1>1, <1>3, <2>1
    <3> QED BY <1>3, <2>1, <3>1 DEF b
  <2>2. CASE i # n + 1
    <3>1. i \in 1 .. n /\ i \in 0 .. n /\ i - 1 \in 0 .. n
      BY <1>1, <2>2
    <3>2. g[i] = Cam!Round(CamAfter(i - 1, g[i - 1]), CamKey(i - 1))
      BY <3>1 DEF CamPassed
    <3> QED BY <1>3, <3>1, <3>2
  <2> QED BY <2>1, <2>2
<1>5. h[0] = Cam!Xor(s1, Cam!Whitening(s2, 0))
  BY <1>1, <1>3 DEF CamPassed
<1>6. CamPassed(h, n + 1)
  BY <1>3, <1>4, <1>5 DEF CamPassed
<1> QED BY <1>3, <1>6 DEF b

LEMMA CamForward ==
  ASSUME CamInv, NEW m, s5 \in 1 .. 24
  PROVE  Cam!Forward(m, (2 * s5) \div 6) = CamAfter(s5, m)
  BY DEF Cam!Forward, CamAfter, CamHasFL

LEMMA CamBackward ==
  ASSUME CamInv, NEW m, s5 \in 1 .. 24
  PROVE  Cam!Backward(m, (2 * (s5 - 1)) \div 6) = CamBefore(s5 - 1, m)
<1>1. s5 \in {7, 13, 19} <=> s5 - 1 \in {6, 12, 18}
  OBVIOUS
<1> QED BY <1>1 DEF Cam!Backward, CamBefore

LEMMA CamEncrypts == ASSUME CamInv, Cam!EncryptRound  PROVE CamInv'
<1>1. /\ s4 = "encrypt" /\ s5 <= Cam!Rounds(s2) /\ s5' = s5 + 1
      /\ s1' = s1 /\ s2' = s2 /\ s4' = s4
      /\ s6' = Cam!Forward(Cam!Round(s6, Cam!Sub(s2, "k", s5 - 1)), (2 * s5) \div 6)
  BY DEF Cam!EncryptRound
<1>2. PICK g : CamPassed(g, s5 - 1) /\ s6 = CamAfter(s5 - 1, g[s5 - 1])
  BY <1>1 DEF CamInv
<1>3. s5 \in 1 .. 24 /\ s5 - 1 \in 0 .. 23 /\ s5 - 1 < Cam!Rounds(s2) /\ s5 - 1 + 1 = s5
  BY <1>1 DEF CamInv, Cam!Rounds
<1>4. PICK h : CamPassed(h, s5) /\ h[s5] = Cam!Round(CamAfter(s5 - 1, g[s5 - 1]), CamKey(s5 - 1))
  <2>1. \E f : CamPassed(f, s5 - 1 + 1) /\ f[s5 - 1 + 1] = Cam!Round(CamAfter(s5 - 1, g[s5 - 1]), CamKey(s5 - 1))
    BY <1>2, <1>3, CamPasses
  <2> QED BY <1>3, <2>1
<1>5. s6' = CamAfter(s5, h[s5])
  BY <1>1, <1>2, <1>3, <1>4, CamForward DEF CamKey
<1>6. s5' - 1 = s5 /\ s5' \in 1 .. Cam!Rounds(s2) + 1
  BY <1>1, <1>3 DEF CamInv, Cam!Rounds
<1>7. PICK n : n = s5
  OBVIOUS
<1>8. CamPassed(h, n)' /\ s6' = CamAfter(n, h[n])'
  BY <1>1, <1>4, <1>5, <1>7 DEF CamPassed, CamAfter, CamHasFL, CamKey
<1>9. (\E f : CamPassed(f, s5 - 1) /\ s6 = CamAfter(s5 - 1, f[s5 - 1]))'
  BY <1>6, <1>7, <1>8, Zenon
<1> QED BY <1>1, <1>6, <1>9 DEF CamInv

LEMMA CamEncrypted == ASSUME CamInv, Cam!Encrypted  PROVE CamInv'
<1>1. /\ s4 = "encrypt" /\ s5 > Cam!Rounds(s2) /\ s4' = "decrypt" /\ s5' = Cam!Rounds(s2)
      /\ s1' = s1 /\ s2' = s2
      /\ s6' = Cam!Swapped(Cam!Xor(Cam!Xor(Cam!Swapped(s6), Cam!Whitening(s2, 2)), Cam!Whitening(s2, 2)))
  BY DEF Cam!Encrypted
<1>2. PICK g : CamPassed(g, s5 - 1) /\ s6 = CamAfter(s5 - 1, g[s5 - 1])
  BY <1>1 DEF CamInv
<1> DEFINE n == Cam!Rounds(s2)
<1>3. n \in {18, 24} /\ s5 = n + 1 /\ s5 - 1 = n /\ ~CamHasFL(n)
  BY <1>1 DEF CamInv, Cam!Rounds, CamHasFL
<1>4. CamPassed(g, n) /\ s6 = g[n] /\ s6 \in Wide
  BY <1>2, <1>3 DEF CamAfter, CamPassed
<1>5. s6' = Cam!Swapped(Cam!Swapped(s6))
  BY <1>1, CamXorTwice
<1>6. Cam!Swapped(Cam!Swapped(s6)) = s6
  BY <1>4, CamHalves, CamBlock DEF Cam!Swapped
<1>7. (\E f : CamPassed(f, s5) /\ s6 = f[s5])'
  <2>1. PICK k : k = n
    OBVIOUS
  <2>2. CamPassed(g, k)' /\ s6' = g[k] /\ s5' = k
    BY <1>1, <1>4, <1>5, <1>6, <2>1 DEF CamPassed, CamAfter, CamHasFL, CamKey
  <2> QED BY <2>2, Zenon
<1>8. s5' \in 0 .. Cam!Rounds(s2')
  BY <1>1, <1>3
<1> QED BY <1>1, <1>7, <1>8 DEF CamInv

LEMMA CamDecrypts == ASSUME CamInv, Cam!DecryptRound  PROVE CamInv'
<1>1. /\ s4 = "decrypt" /\ s5 >= 1 /\ s5' = s5 - 1
      /\ s1' = s1 /\ s2' = s2 /\ s4' = s4
      /\ s6' = Cam!Backward(Cam!Back(s6, Cam!Sub(s2, "k", s5 - 1)), (2 * (s5 - 1)) \div 6)
  BY DEF Cam!DecryptRound
<1>2. PICK g : CamPassed(g, s5) /\ s6 = g[s5]
  BY <1>1 DEF CamInv
<1>3. /\ s5 \in 1 .. 24 /\ s5 - 1 \in 0 .. Cam!Rounds(s2) - 1 /\ s5 - 1 \in 0 .. 24 /\ s5 \in 1 .. s5
      /\ s2.size \in {128, 192, 256} /\ Cam!Rounds(s2) \in {18, 24}
  BY <1>1 DEF CamInv, Cam!Rounds
<1>4. g[s5 - 1] \in Wide
  BY <1>2, <1>3 DEF CamPassed
<1> DEFINE m == CamAfter(s5 - 1, g[s5 - 1])
<1>5. m \in Wide /\ CamBefore(s5 - 1, m) = g[s5 - 1]
  BY <1>3, <1>4, CamLayer
<1>6. s6 = Cam!Round(m, CamKey(s5 - 1))
  BY <1>2, <1>3 DEF CamPassed
<1>7. Cam!Back(s6, CamKey(s5 - 1)) = m
  BY <1>5, <1>6, CamRound
<1>8. s6' = g[s5 - 1]
  BY <1>1, <1>3, <1>5, <1>7, CamBackward DEF CamKey
<1>9. PICK n : n = s5 - 1
  OBVIOUS
<1>10. CamPassed(g, n)
  BY <1>2, <1>3, <1>9 DEF CamPassed
<1>11. CamPassed(g, n)' /\ s6' = g[n] /\ s5' = n
  BY <1>1, <1>8, <1>9, <1>10 DEF CamPassed, CamAfter, CamHasFL, CamKey
<1>12. (\E f : CamPassed(f, s5) /\ s6 = f[s5])'
  BY <1>11, Zenon
<1>13. s5' \in 0 .. Cam!Rounds(s2')
  BY <1>1, <1>3
<1> QED BY <1>1, <1>12, <1>13 DEF CamInv

LEMMA CamDecrypted == ASSUME CamInv, Cam!Decrypted  PROVE CamInv'
<1>1. /\ s4 = "decrypt" /\ s5 = 0 /\ s4' = "done" /\ s1' = s1 /\ s2' = s2
      /\ s6' = Cam!Xor(s6, Cam!Whitening(s2, 0))
  BY DEF Cam!Decrypted
<1>2. s6 = Cam!Xor(s1, Cam!Whitening(s2, 0))
  BY <1>1 DEF CamInv, CamPassed
<1>3. s6' = s1
  BY <1>1, <1>2, CamXorTwice
<1> QED BY <1>1, <1>3 DEF CamInv

LEMMA CamStep == CamInv /\ [Cam!Next]_(Cam!vars) => CamInv'
<1> SUFFICES ASSUME CamInv, [Cam!Next]_(Cam!vars)  PROVE CamInv'
  OBVIOUS
<1>1. CASE UNCHANGED Cam!vars
  BY <1>1 DEF CamInv, Cam!vars, CamPassed, CamAfter, CamHasFL, CamKey
<1> QED BY <1>1, CamEncrypts, CamEncrypted, CamDecrypts, CamDecrypted DEF Cam!Next
-----------------------------------------------------------------------------
(* PixelFormats *)

\* A row and a place in it tell a place of the buffer.
LEMMA PixPlace ==
  ASSUME NEW W \in Nat \ {0}, NEW q \in Nat, NEW p \in 0 .. W - 1
  PROVE  (W * q + p) \div W = q /\ (W * q + p) % W = p
OBVIOUS

LEMMA PixRow ==
  ASSUME NEW W \in Nat \ {0}, NEW h \in Nat, NEW k \in 0 .. W * h - 1
  PROVE  /\ k \div W \in 0 .. h - 1 /\ k % W \in 0 .. W - 1
         /\ k = W * (k \div W) + (k % W)
OBVIOUS

\* The pictures of PicturesSurvive, and where a byte of the second swap comes from.
Offsets(n) == [k \in 0 .. n - 1 |-> k]
Blank(n) == [k \in 0 .. n - 1 |-> -1]
Mirror(W, h, bytes, k) == W * (h - 1 - (k \div W)) + (k % W) - (k % bytes) + 2 - (k % bytes)

\* 24 bits of each pixel's 32 are kept, and put back.
LEMMA PixConverts ==
  ASSUME NEW size \in Nat
  PROVE  LET B == Offsets(size * 4)
             blank == Blank(size * 3)
         IN /\ Pix!convert(Pix!convert(B, blank, size, 4, 3), B, size, 3, 4) = B
            /\ \A k \in DOMAIN Offsets(size * 3) : Pix!convert(B, blank, size, 4, 3)[k] # -1
<1> USE DEF Offsets, Blank
<1> DEFINE B == Offsets(size * 4)
           blank == Blank(size * 3)
           mid == Pix!convert(B, blank, size, 4, 3)
           back == Pix!convert(mid, B, size, 3, 4)
<1>1. DOMAIN mid = 0 .. size * 3 - 1 /\ DOMAIN back = 0 .. size * 4 - 1 /\ DOMAIN B = 0 .. size * 4 - 1
  BY DEF Pix!convert
<1>2. ASSUME NEW k \in 0 .. size * 3 - 1
      PROVE  mid[k] = 4 * (k \div 3) + (k % 3)
  <2>1. k % 3 < 3 /\ k \div 3 < size /\ 4 * (k \div 3) + (k % 3) \in 0 .. size * 4 - 1
    OBVIOUS
  <2> QED BY <2>1 DEF Pix!convert
<1>3. ASSUME NEW k \in 0 .. size * 4 - 1
      PROVE  back[k] = k
  <2>1. CASE k % 4 < 3
    <3> DEFINE j == 3 * (k \div 4) + (k % 4)
    <3>1. k \div 4 < size /\ j \in 0 .. size * 3 - 1 /\ j \div 3 = k \div 4 /\ j % 3 = k % 4
      BY <2>1
    <3>2. mid[j] = 4 * (k \div 4) + (k % 4)  BY <1>2, <3>1
    <3>3. back[k] = mid[j]  BY <2>1, <3>1 DEF Pix!convert
    <3> HIDE DEF mid, back, j
    <3> QED BY <3>2, <3>3
  <2>2. CASE ~(k % 4 < 3)
    BY <2>2 DEF Pix!convert
  <2> QED BY <2>1, <2>2
<1>4. back = B
  <2> HIDE DEF mid
  <2>1. \E f : back = [k \in 0 .. size * 4 - 1 |-> f[k]]
    <3>1. back = [k \in 0 .. size * 4 - 1 |-> back[k]]
      BY DEF Pix!convert
    <3> QED BY <3>1
  <2> HIDE DEF back
  <2> QED BY <1>1, <1>3, <2>1
<1>5. ASSUME NEW k \in 0 .. size * 3 - 1
      PROVE  mid[k] # -1
  <2> HIDE DEF mid
  <2> QED BY <1>2
<1> QED BY <1>4, <1>5

\* Two swaps give the picture back.
LEMMA PixAxis ==
  ASSUME NEW width \in Nat \ {0}, NEW h \in Nat \ {0}, NEW bytes \in {3, 4}
  PROVE  LET B == Offsets(width * h * bytes)
         IN Pix!swapRGBandAxis(Pix!swapRGBandAxis(B, B, width, h, bytes), B, width, h, bytes) = B
<1> DEFINE W == width * bytes
           size == W * h
           B == Offsets(width * h * bytes)
           Source(k) == Mirror(W, h, bytes, k)
           once == Pix!swapRGBandAxis(B, B, width, h, bytes)
           twice == Pix!swapRGBandAxis(once, B, width, h, bytes)
<1>1. width * h * bytes = size
  <2>1. CASE bytes = 3  BY <2>1
  <2>2. CASE bytes = 4  BY <2>2
  <2> QED BY <2>1, <2>2
<1>2. B = [k \in 0 .. size - 1 |-> k] /\ DOMAIN B = 0 .. size - 1
  BY <1>1 DEF Offsets
<1>3. /\ once = [k \in 0 .. size - 1 |-> IF k % bytes < 3 THEN B[Source(k)] ELSE B[k]]
      /\ twice = [k \in 0 .. size - 1 |-> IF k % bytes < 3 THEN once[Source(k)] ELSE B[k]]
  BY <1>2, Zenon DEF Pix!swapRGBandAxis, Mirror
<1>4. ASSUME NEW k \in 0 .. size - 1, k % bytes < 3
      PROVE  Source(k) \in 0 .. size - 1 /\ Source(k) % bytes < 3 /\ Source(Source(k)) = k
  <2> DEFINE s == Source(k)
  <2>1. W \in Nat \ {0}  OBVIOUS
  <2> DEFINE q == k \div W
             p == k % W
             c == k % bytes
             t == p - c + 2 - c
             u == h - 1 - q
  <2>2. q \in 0 .. h - 1 /\ p \in 0 .. W - 1 /\ k = W * q + p
    BY <2>1, PixRow
  <2>3. c \in 0 .. 2  BY <1>4
  <2>4. u \in 0 .. h - 1 /\ h - 1 - u = q  BY <2>2
  <2>5. ASSUME NEW i \in Nat, NEW j \in Nat
        PROVE  (W * i + j) % bytes = j % bytes
    <3>1. PICK x \in Int : x = width * i  OBVIOUS
    <3>2. W * i = bytes * x  BY <3>1
    <3>3. CASE bytes = 3  BY <3>1, <3>2, <3>3
    <3>4. CASE bytes = 4  BY <3>1, <3>2, <3>4
    <3> QED BY <3>3, <3>4
  <2>6. PICK m \in 0 .. width - 1 : p = bytes * m + c
    <3>1. p % bytes = c
      <4>1. q \in Nat /\ p \in Nat /\ k = W * q + p  BY <2>1, <2>2
      <4> HIDE DEF q, p
      <4>2. (W * q + p) % bytes = p % bytes  BY <2>5, <4>1
      <4> QED BY <4>1, <4>2
    <3>2. CASE bytes = 3
      <4>1. W = 3 * width  BY <3>2
      <4> HIDE DEF p, q, c, W
      <4>2. p = 3 * (p \div 3) + c /\ p < 3 * width  BY <2>2, <3>1, <3>2, <4>1
      <4> QED BY <4>2, <2>2, <2>3, <3>2
    <3>3. CASE bytes = 4
      <4>1. W = 4 * width  BY <3>3
      <4> HIDE DEF p, q, c, W
      <4>2. p = 4 * (p \div 4) + c /\ p < 4 * width  BY <2>2, <3>1, <3>3, <4>1
      <4> QED BY <4>2, <2>2, <2>3, <3>3
    <3> QED BY <3>2, <3>3
  <2>7. t \in 0 .. W - 1 /\ t = bytes * m + (2 - c) /\ t % bytes = 2 - c
    <3>1. t = bytes * m + (2 - c)  BY <2>3, <2>6
    <3>2. CASE bytes = 3
      <4> HIDE DEF t, c
      <4> QED BY <2>3, <2>6, <3>1, <3>2
    <3>3. CASE bytes = 4
      <4> HIDE DEF t, c
      <4> QED BY <2>3, <2>6, <3>1, <3>3
    <3> QED BY <3>2, <3>3
  <2>8. s = W * u + t  BY DEF Mirror
  <2> HIDE DEF q, p, c, t, u, s, W
  <2>9. s \div W = u /\ s % W = t
    <3>1. u \in Nat /\ t \in 0 .. W - 1  BY <2>4, <2>7
    <3>2. (W * u + t) \div W = u /\ (W * u + t) % W = t  BY <2>1, <3>1, PixPlace
    <3> QED BY <2>8, <3>2
  <2>10. s % bytes = 2 - c
    <3>1. u \in Nat /\ t \in Nat  BY <2>1, <2>4, <2>7
    <3>2. (W * u + t) % bytes = t % bytes  BY <2>5, <3>1
    <3> QED BY <2>7, <2>8, <3>2
  <2>11. s \in 0 .. W * h - 1
    <3>1. W * u \in Nat /\ W * u + W <= W * h  BY <2>1, <2>4
    <3>2. PICK wu \in Nat, wh \in Nat : wu = W * u /\ wh = W * h  BY <2>1, <3>1
    <3> QED BY <2>1, <2>7, <2>8, <3>1, <3>2
  <2>12. W * (h - 1 - (s \div W)) + (s % W) - (s % bytes) + 2 - (s % bytes) = W * q + p
    <3>1. W * (h - 1 - (s \div W)) = W * q  BY <2>4, <2>9
    <3>2. t - (2 - c) + 2 - (2 - c) = p  BY <2>2, <2>3 DEF t
    <3>3. PICK wq \in Int : wq = W * q  BY <2>1, <2>2
    <3> QED BY <2>2, <2>3, <2>7, <2>9, <2>10, <3>1, <3>2, <3>3
  <2>13. s % bytes < 3 /\ Mirror(W, h, bytes, s) = k
    BY <2>2, <2>3, <2>10, <2>12 DEF Mirror
  <2> QED BY <2>11, <2>13, Zenon DEF s
<1> HIDE DEF once, twice, size, Source, W, B
<1>5. ASSUME NEW k \in 0 .. size - 1
      PROVE  (IF k % bytes < 3 THEN once[Source(k)] ELSE B[k]) = k
  BY <1>2, <1>3, <1>4
<1>6. twice = [k \in 0 .. size - 1 |-> k]
  BY <1>3, <1>5, Zenon
<1> QED BY <1>2, <1>6, Zenon DEF twice, once, B

\* The same for swapRGB24, which is all that a picture of one row needs.
LEMMA PixSwap ==
  ASSUME NEW width \in Nat \ {0}, NEW h \in Nat \ {0}
  PROVE  LET B == Offsets(width * h * 3)
         IN /\ Pix!swapRGB24(Pix!swapRGB24(B, width, h), width, h) = B
            /\ h = 1 => Pix!swapRGB24(B, width, h)
                        = Pix!swapRGBandAxis(B, Blank(width * h * 3), width, h, 3)
<1> DEFINE size == width * h * 3
           B == Offsets(size)
           once == Pix!swapRGB24(B, width, h)
           twice == Pix!swapRGB24(once, width, h)
           Other(k) == k - (k % 3) + 2 - (k % 3)
           Lim == 3 * width * h
<1>1. B = [k \in 0 .. size - 1 |-> k] /\ DOMAIN B = 0 .. size - 1
  BY DEF Offsets
<1>2. /\ once = [k \in 0 .. size - 1 |-> IF k < Lim THEN B[Other(k)] ELSE B[k]]
      /\ twice = [k \in 0 .. size - 1 |-> IF k < Lim THEN once[Other(k)] ELSE once[k]]
  <2> HIDE DEF B, size
  <2> QED BY <1>1, Zenon DEF Pix!swapRGB24
<1>3. ASSUME NEW k \in 0 .. size - 1
      PROVE  k < Lim /\ Other(k) \in 0 .. size - 1 /\ Other(Other(k)) = k
  <2>1. PICK n \in Nat : n = width * h  OBVIOUS
  <2>2. size = 3 * n /\ Lim = 3 * n  BY <2>1
  <2> HIDE DEF size
  <2> QED BY <2>1, <2>2
<1> HIDE DEF Other, once, twice, Lim
<1>4. ASSUME NEW k \in 0 .. size - 1
      PROVE  (IF k < Lim THEN once[Other(k)] ELSE once[k]) = k
  <2>1. PICK j : j = Other(k)  OBVIOUS
  <2>2. j \in 0 .. size - 1 /\ j < Lim /\ Other(j) = k /\ k < Lim
    <3> HIDE DEF size
    <3> QED BY <1>3, <2>1
  <2> HIDE DEF B, size
  <2>3. once[j] = B[Other(j)]  BY <1>2, <2>2
  <2>4. B[k] = k  BY <1>1
  <2>5. k < Lim  BY <2>2
  <2>6. once[j] = k  BY <2>2, <2>3, <2>4
  <2>7. once[Other(k)] = k  BY <2>1, <2>6
  <2> QED BY <2>5, <2>7
<1>5. twice = B
  <2> DEFINE F(k) == IF k < Lim THEN once[Other(k)] ELSE once[k]
  <2>1. \A k \in 0 .. size - 1 : F(k) = k  BY <1>4
  <2>2. twice = [k \in 0 .. size - 1 |-> F(k)]  BY <1>2
  <2> HIDE DEF B, size, F
  <2>3. twice = [k \in 0 .. size - 1 |-> k]  BY <2>1, <2>2, Zenon
  <2> QED BY <1>1, <2>3
<1>6. ASSUME h = 1
      PROVE  once = Pix!swapRGBandAxis(B, Blank(size), width, h, 3)
  <2> DEFINE W == width * 3
             Source(k) == Mirror(W, h, 3, k)
  <2>1. Pix!swapRGBandAxis(B, Blank(size), width, h, 3)
          = [k \in 0 .. size - 1 |-> IF k % 3 < 3 THEN B[Source(k)] ELSE Blank(size)[k]]
    <3>1. DOMAIN Blank(size) = 0 .. size - 1  BY DEF Blank
    <3> HIDE DEF B, size
    <3> QED BY <3>1, Zenon DEF Pix!swapRGBandAxis, Mirror
  <2>2. ASSUME NEW k \in 0 .. size - 1
        PROVE  (IF k < Lim THEN B[Other(k)] ELSE B[k])
                  = IF k % 3 < 3 THEN B[Source(k)] ELSE Blank(size)[k]
    <3>1. size = W /\ W \in Nat \ {0}  BY <1>6
    <3>2. k \div W = 0 /\ k % W = k  BY <3>1
    <3>3. Source(k) = Other(k)  BY <1>6, <3>1, <3>2 DEF Other, Mirror
    <3>4. k % 3 < 3  OBVIOUS
    <3> HIDE DEF Source, W, B, size
    <3> QED BY <1>3, <3>3, <3>4
  <2> HIDE DEF Source, W, B, size
  <2> QED BY <1>2, <2>1, <2>2, Zenon
<1> QED BY <1>5, <1>6, Zenon DEF twice, once

\* Every picture survives.
LEMMA PixSurvives ==
  ASSUME NEW width \in Nat \ {0}, NEW h \in Nat \ {0}
  PROVE  Pix!PicturesSurvive(width, h)
<1>1. width * h \in Nat /\ 3 \in {3, 4} /\ 4 \in {3, 4}  OBVIOUS
<1> QED BY <1>1, PixConverts, PixAxis, PixSwap, Zenon DEF Pix!PicturesSurvive, Offsets, Blank
-----------------------------------------------------------------------------
(* SHA256: s1 is blocks, s2 data, s3 count, s4 dnum, s5 pushed *)

\* What has been pushed is in the blocks and in the one that is filled.
ShaInv ==
  /\ s3 \in Nat /\ s4 \in 0 .. ShaBlock - 1 /\ s5 = ShaBlock * s3 + s4
  /\ s1 = [k \in 1 .. s3 |-> [i \in 1 .. ShaBlock |-> ShaBlock * (k - 1) + i]]
  /\ s2 = [i \in 1 .. ShaBlock |-> IF i <= s4 THEN ShaBlock * s3 + i ELSE "0"]

LEMMA ShaInit == Sha!Init => ShaInv
BY CodecsAssumption DEF Sha!Init, Sha!Zeros, ShaInv

LEMMA ShaTypes == ShaInv => s3 \in Nat /\ s4 \in Nat /\ s5 \in Nat
<1> SUFFICES ASSUME ShaInv  PROVE s3 \in Nat /\ s4 \in Nat /\ s5 \in Nat
  OBVIOUS
<1>1. s3 \in Nat /\ s4 \in Nat  BY CodecsAssumption DEF ShaInv
<1>2. PICK v \in Nat : v = ShaBlock * s3  BY <1>1, CodecsAssumption
<1> QED BY <1>1, <1>2 DEF ShaInv

LEMMA ShaPush == ASSUME ShaInv, Sha!push  PROVE ShaInv'
<1>0. ShaBlock \in Nat /\ ShaBlock > 8  BY CodecsAssumption
<1> DEFINE d == [s2 EXCEPT ![s4 + 1] = s5 + 1]
<1>1. d = [i \in 1 .. ShaBlock |-> IF i <= s4 + 1 THEN ShaBlock * s3 + i ELSE "0"]
  <2>1. PICK b \in Nat : b = ShaBlock * s3  BY <1>0 DEF ShaInv
  <2>2. s4 \in 0 .. ShaBlock - 1 /\ s5 = b + s4
        /\ s2 = [i \in 1 .. ShaBlock |-> IF i <= s4 THEN b + i ELSE "0"]
    BY <2>1 DEF ShaInv
  <2>3. d = [i \in 1 .. ShaBlock |-> IF i <= s4 + 1 THEN b + i ELSE "0"]
    <3>1. d = [i \in DOMAIN s2 |-> IF i = s4 + 1 THEN s5 + 1 ELSE s2[i]]  OBVIOUS
    <3>2. DOMAIN s2 = 1 .. ShaBlock  BY <2>2
    <3>3. ASSUME NEW i \in 1 .. ShaBlock
          PROVE  (IF i = s4 + 1 THEN s5 + 1 ELSE s2[i]) = IF i <= s4 + 1 THEN b + i ELSE "0"
      <4>1. s2[i] = IF i <= s4 THEN b + i ELSE "0"  BY <2>2
      <4>2. s4 \in Int  BY <1>0, <2>2
      <4> QED BY <2>1, <2>2, <4>1, <4>2
    <3> HIDE DEF d
    <3> QED BY <3>1, <3>2, <3>3
  <2> QED BY <2>1, <2>3
<1>2. /\ s5' = s5 + 1
      /\ IF s4 + 1 = ShaBlock
         THEN s1' = Append(s1, d) /\ s3' = s3 + 1 /\ s4' = 0 /\ s2' = Sha!Zeros
         ELSE s2' = d /\ s4' = s4 + 1 /\ s1' = s1 /\ s3' = s3
  BY DEF Sha!push
<1> HIDE DEF d
<1>3. CASE s4 + 1 = ShaBlock
  <2>1. s1' = Append(s1, d) /\ s3' = s3 + 1 /\ s4' = 0 /\ s2' = Sha!Zeros  BY <1>2, <1>3
  <2>2. d = [i \in 1 .. ShaBlock |-> ShaBlock * ((s3 + 1) - 1) + i]
    <3>1. (s3 + 1) - 1 = s3  BY DEF ShaInv
    <3>2. d = [i \in 1 .. ShaBlock |-> ShaBlock * s3 + i]  BY <1>0, <1>1, <1>3
    <3> QED BY <3>1, <3>2
  <2>3. s1' = [k \in 1 .. s3 + 1 |-> [i \in 1 .. ShaBlock |-> ShaBlock * (k - 1) + i]]
    <3> DEFINE B(k) == [i \in 1 .. ShaBlock |-> ShaBlock * (k - 1) + i]
    <3>1. s1 = [k \in 1 .. s3 |-> B(k)] /\ s3 \in Nat /\ d = B(s3 + 1)  BY <2>2 DEF ShaInv
    <3> HIDE DEF B
    <3>2. Append(s1, d) = [k \in 1 .. s3 + 1 |-> B(k)]  BY <3>1
    <3> QED BY <2>1, <3>2 DEF B
  <2>4. ShaBlock * (s3 + 1) = ShaBlock * s3 + ShaBlock  BY <1>0 DEF ShaInv
  <2>5. s5' = ShaBlock * s3' + s4' /\ s3' \in Nat /\ s4' \in 0 .. ShaBlock - 1
    <3>0. s3 \in Nat /\ s4 \in Nat /\ s5 = ShaBlock * s3 + s4  BY <1>0 DEF ShaInv
    <3>1. PICK b \in Nat : b = ShaBlock * s3  BY <1>0, <3>0
    <3>2. s5' = b + s4 + 1 /\ ShaBlock * s3' = b + ShaBlock  BY <1>2, <2>1, <2>4, <3>0, <3>1
    <3>3. s3' \in Nat /\ s4' = 0  BY <2>1, <3>0
    <3>4. s5' = b + ShaBlock  BY <1>0, <1>3, <3>0, <3>2
    <3>5. s5' = ShaBlock * s3' + s4'
      <4>1. PICK p : p = ShaBlock * s3'  OBVIOUS
      <4>2. p = b + ShaBlock  BY <3>2, <4>1
      <4>3. s5' = p + s4'  BY <1>0, <3>3, <3>4, <4>2
      <4> QED BY <4>1, <4>3
    <3> QED BY <1>0, <3>3, <3>5
  <2>6. s2' = [i \in 1 .. ShaBlock |-> IF i <= s4' THEN ShaBlock * s3' + i ELSE "0"]
    BY <1>0, <2>1 DEF Sha!Zeros
  <2> QED BY <2>1, <2>3, <2>5, <2>6 DEF ShaInv
<1>4. CASE s4 + 1 # ShaBlock
  <2>1. s2' = d /\ s4' = s4 + 1 /\ s1' = s1 /\ s3' = s3  BY <1>2, <1>4
  <2>2. s4' \in 0 .. ShaBlock - 1  BY <1>0, <1>4, <2>1 DEF ShaInv
  <2>3. s5' = ShaBlock * s3' + s4'
    <3>1. PICK b \in Nat : b = ShaBlock * s3  BY <1>0 DEF ShaInv
    <3> QED BY <1>2, <2>1, <3>1 DEF ShaInv
  <2>4. s2' = [i \in 1 .. ShaBlock |-> IF i <= s4' THEN ShaBlock * s3' + i ELSE "0"]
    BY <1>1, <2>1
  <2> QED BY <2>1, <2>2, <2>3, <2>4 DEF ShaInv
<1> QED BY <1>3, <1>4

LEMMA ShaStep == ShaInv /\ [Sha!Next]_(Sha!vars) => ShaInv'
<1> SUFFICES ASSUME ShaInv, [Sha!Next]_(Sha!vars)  PROVE ShaInv'
  OBVIOUS
<1>1. CASE UNCHANGED Sha!vars
  BY <1>1 DEF Sha!vars, ShaInv
<1>2. CASE Sha!Reset
  BY <1>2, CodecsAssumption DEF Sha!Reset, Sha!reset, Sha!Zeros, ShaInv
<1> QED BY <1>1, <1>2, ShaPush DEF Sha!Next

\* The zeros of the standard's padding.
LEMMA ShaZeros ==
  ASSUME NEW B \in Nat \ {0}, NEW n \in Nat, NEW z \in 0 .. B - 1, NEW q \in Nat, n + 1 + z + 8 = B * q
  PROVE  (CHOOSE x \in 0 .. B - 1 : (n + 1 + x + 8) % B = 0) = z
<1>1. (n + 1 + z + 8) % B = 0
  <2>1. 0 \in 0 .. B - 1 /\ B * q + 0 = B * q  OBVIOUS
  <2>2. (B * q + 0) % B = 0  BY <2>1, PixPlace
  <2> QED BY <2>1, <2>2
<1>2. ASSUME NEW x \in 0 .. B - 1, (n + 1 + x + 8) % B = 0
      PROVE  x = z
  <2>1. PICK r \in Nat : n + 1 + x + 8 = B * r
    <3>1. PICK m \in Nat : m = n + 1 + x + 8  OBVIOUS
    <3>2. m % B = 0  BY <1>2, <3>1
    <3>3. m = B * (m \div B) /\ m \div B \in Nat  BY <3>2
    <3> QED BY <3>1, <3>3
  <2>2. CASE r = q  BY <2>1, <2>2
  <2>3. CASE r < q
    <3>1. B * r + B <= B * q  BY <2>3
    <3>2. PICK u \in Nat, v \in Nat : u = B * r /\ v = B * q  OBVIOUS
    <3> QED BY <2>1, <3>1, <3>2
  <2>4. CASE r > q
    <3>1. B * q + B <= B * r  BY <2>4
    <3>2. PICK u \in Nat, v \in Nat : u = B * r /\ v = B * q  OBVIOUS
    <3> QED BY <2>1, <3>1, <3>2
  <2> QED BY <2>2, <2>3, <2>4
<1> HIDE <1>1
<1> QED BY <1>1, <1>2

\* The message with its padding, place by place, where b bytes are in full blocks,
\* d follow, and z zeros.
PaddedBytes == Nat \cup {"0", "80"} \cup {Sha!Bits(s5)[i] : i \in 1 .. 8}
Padding(z) == [i \in 1 .. s5 |-> i] \o <<Sha!One>> \o [i \in 1 .. z |-> "0"] \o Sha!Bits(s5)

LEMMA ShaMessage ==
  ASSUME s5 \in Nat, NEW z \in Nat
  PROVE  /\ Padding(z) \in Seq(PaddedBytes) /\ Len(Padding(z)) = s5 + z + 9
         /\ \A i \in 1 .. s5 : Padding(z)[i] = i
         /\ Padding(z)[s5 + 1] = "80"
         /\ \A i \in s5 + 2 .. s5 + z + 1 : Padding(z)[i] = "0"
         /\ \A i \in 1 .. 8 : Padding(z)[s5 + z + 1 + i] = Sha!Bits(s5)[i]
<1> DEFINE p1 == [i \in 1 .. s5 |-> i]
           p2 == <<Sha!One>>
           p3 == [i \in 1 .. z |-> "0"]
           p4 == Sha!Bits(s5)
<1>1. p1 \in Seq(PaddedBytes) /\ Len(p1) = s5 /\ \A i \in 1 .. s5 : p1[i] = i
  BY DEF PaddedBytes
<1>2. p2 \in Seq(PaddedBytes) /\ Len(p2) = 1 /\ p2[1] = "80"
  BY DEF PaddedBytes, Sha!One
<1>3. p3 \in Seq(PaddedBytes) /\ Len(p3) = z /\ \A i \in 1 .. z : p3[i] = "0"
  BY DEF PaddedBytes
<1>4. p4 \in Seq(PaddedBytes) /\ Len(p4) = 8
  <2>1. DOMAIN p4 = 1 .. 8 /\ p4 = [i \in 1 .. 8 |-> p4[i]]  BY DEF Sha!Bits
  <2>2. \A i \in 1 .. 8 : p4[i] \in PaddedBytes  BY DEF PaddedBytes
  <2> HIDE DEF p4
  <2> QED BY <2>1, <2>2
<1>5. Padding(z) = ((p1 \o p2) \o p3) \o p4
  BY DEF Padding
<1> HIDE DEF p1, p2, p3, p4
<1>6. /\ p1 \o p2 \in Seq(PaddedBytes) /\ Len(p1 \o p2) = s5 + 1
      /\ \A i \in 1 .. s5 : (p1 \o p2)[i] = i
      /\ (p1 \o p2)[s5 + 1] = "80"
  <2>1. /\ p1 \o p2 \in Seq(PaddedBytes) /\ Len(p1 \o p2) = Len(p1) + Len(p2)
        /\ \A i \in 1 .. Len(p1) : (p1 \o p2)[i] = p1[i]
        /\ \A i \in 1 .. Len(p2) : (p1 \o p2)[Len(p1) + i] = p2[i]
    BY <1>1, <1>2, SeqCat
  <2> QED BY <1>1, <1>2, <2>1
<1> DEFINE q == p1 \o p2
<1> HIDE DEF q
<1>7. /\ q \o p3 \in Seq(PaddedBytes) /\ Len(q \o p3) = s5 + 1 + z
      /\ \A i \in 1 .. s5 : (q \o p3)[i] = i
      /\ (q \o p3)[s5 + 1] = "80"
      /\ \A i \in 1 .. z : (q \o p3)[s5 + 1 + i] = "0"
  <2>1. /\ q \o p3 \in Seq(PaddedBytes) /\ Len(q \o p3) = Len(q) + Len(p3)
        /\ \A i \in 1 .. Len(q) : (q \o p3)[i] = q[i]
        /\ \A i \in 1 .. Len(p3) : (q \o p3)[Len(q) + i] = p3[i]
    <3>1. q \in Seq(PaddedBytes)  BY <1>6 DEF q
    <3>2. p3 \in Seq(PaddedBytes)  BY <1>3
    <3> QED BY <3>1, <3>2, SeqCat
  <2>2. Len(q) = s5 + 1 /\ (\A i \in 1 .. s5 : q[i] = i) /\ q[s5 + 1] = "80"
    BY <1>6 DEF q
  <2> QED BY <1>3, <2>1, <2>2
<1> DEFINE r == q \o p3
<1> HIDE DEF r
<1>8. /\ r \o p4 \in Seq(PaddedBytes) /\ Len(r \o p4) = s5 + z + 9
      /\ \A i \in 1 .. s5 : (r \o p4)[i] = i
      /\ (r \o p4)[s5 + 1] = "80"
      /\ \A i \in 1 .. z : (r \o p4)[s5 + 1 + i] = "0"
      /\ \A i \in 1 .. 8 : (r \o p4)[s5 + z + 1 + i] = p4[i]
  <2>1. /\ r \o p4 \in Seq(PaddedBytes) /\ Len(r \o p4) = Len(r) + Len(p4)
        /\ \A i \in 1 .. Len(r) : (r \o p4)[i] = r[i]
        /\ \A i \in 1 .. Len(p4) : (r \o p4)[Len(r) + i] = p4[i]
    <3>1. r \in Seq(PaddedBytes)  BY <1>7 DEF r
    <3>2. p4 \in Seq(PaddedBytes)  BY <1>4
    <3> QED BY <3>1, <3>2, SeqCat
  <2>2. /\ Len(r) = s5 + 1 + z /\ (\A i \in 1 .. s5 : r[i] = i) /\ r[s5 + 1] = "80"
        /\ \A i \in 1 .. z : r[s5 + 1 + i] = "0"
    BY <1>7 DEF r
  <2>3. \A i \in 1 .. s5 + 1 + z : (r \o p4)[i] = r[i]
    BY <2>1, <2>2
  <2>4. \A i \in 1 .. 8 : (r \o p4)[s5 + z + 1 + i] = p4[i]
    <3>1. ASSUME NEW i \in 1 .. 8
          PROVE  (r \o p4)[s5 + z + 1 + i] = p4[i]
      <4>1. Len(r) + i = s5 + z + 1 + i  BY <2>2
      <4>2. (r \o p4)[Len(r) + i] = p4[i]  BY <1>4, <2>1
      <4> QED BY <4>1, <4>2
    <3> QED BY <3>1
  <2>5. Len(r \o p4) = s5 + z + 9
    BY <1>4, <2>1, <2>2
  <2>6. \A i \in 1 .. s5 : (r \o p4)[i] = i  BY <2>2, <2>3
  <2>7. (r \o p4)[s5 + 1] = "80"  BY <2>2, <2>3
  <2>8. ASSUME NEW i \in 1 .. z
        PROVE  (r \o p4)[s5 + 1 + i] = "0"
    <3>1. s5 + 1 + i \in 1 .. s5 + 1 + z  OBVIOUS
    <3> QED BY <2>2, <2>3, <3>1
  <2> QED BY <2>1, <2>4, <2>5, <2>6, <2>7, <2>8
<1>9. ASSUME NEW i \in s5 + 2 .. s5 + z + 1
      PROVE  (r \o p4)[i] = "0"
  <2>1. i - (s5 + 1) \in 1 .. z /\ s5 + 1 + (i - (s5 + 1)) = i  OBVIOUS
  <2> QED BY <1>8, <2>1
<1> QED BY <1>5, <1>8, <1>9 DEF r, q, p4

\* The k-th block of the padded message.
BlockOf(z, k) == SubSeq(Padding(z), ShaBlock * (k - 1) + 1, ShaBlock * k)

LEMMA ShaStandard ==
  ASSUME s5 \in Nat, NEW z \in 0 .. ShaBlock - 1, NEW q \in Nat, s5 + 1 + z + 8 = ShaBlock * q,
         z # 0 => Sha!hash = [k \in 1 .. q |-> BlockOf(z, k)]
  PROVE  Sha!PaddingIsStandard
<1> DEFINE Fills(x) == (s5 + 1 + x + 8) % ShaBlock = 0
           zeros == CHOOSE x \in 0 .. ShaBlock - 1 : Fills(x)
           standard == [k \in 1 .. Len(Padding(z)) \div ShaBlock |-> BlockOf(z, k)]
<1>1. ShaBlock \in Nat \ {0}  BY CodecsAssumption
<1>2. zeros = z  BY <1>1, ShaZeros
<1>3. Len(Padding(z)) \div ShaBlock = q
  <2>1. z \in Nat /\ 0 \in 0 .. ShaBlock - 1  BY <1>1
  <2>2. Len(Padding(z)) = ShaBlock * q + 0
    <3>1. Len(Padding(z)) = s5 + z + 9  BY <2>1, ShaMessage
    <3>2. PICK v \in Nat : v = ShaBlock * q  BY <1>1
    <3> QED BY <2>1, <3>1, <3>2
  <2>3. (ShaBlock * q + 0) \div ShaBlock = q  BY <1>1, <2>1, PixPlace
  <2> QED BY <2>2, <2>3
<1>4. z # 0 => Sha!hash = standard
  <2>1. standard = [k \in 1 .. q |-> BlockOf(z, k)]  BY <1>3
  <2> HIDE DEF standard
  <2> QED BY <2>1
<1>5. Sha!PaddingIsStandard <=>
        (zeros # 0 => Sha!hash = [k \in 1 .. Len(Padding(zeros)) \div ShaBlock |-> BlockOf(zeros, k)])
  BY Zenon DEF Sha!PaddingIsStandard, Padding, BlockOf
<1> HIDE DEF zeros
<1> QED BY <1>2, <1>4, <1>5

\* The blocks that have been pushed are the first of the padded message.
LEMMA ShaCut ==
  ASSUME ShaInv, NEW z \in Nat, NEW q \in Nat, s5 + 1 + z + 8 = ShaBlock * q, NEW k \in 1 .. q
  PROVE  /\ BlockOf(z, k) \in Seq(PaddedBytes) /\ Len(BlockOf(z, k)) = ShaBlock
         /\ \A i \in 1 .. ShaBlock : BlockOf(z, k)[i] = Padding(z)[ShaBlock * (k - 1) + i]
         /\ k <= s3 => BlockOf(z, k) = s1[k]
<1> DEFINE a == ShaBlock * (k - 1)
<1>1. ShaBlock \in Nat \ {0} /\ s3 \in Nat /\ s5 \in Nat
  BY CodecsAssumption, ShaTypes
<1>2. Padding(z) \in Seq(PaddedBytes) /\ Len(Padding(z)) = s5 + z + 9
  BY <1>1, ShaMessage
<1>3. a \in Nat /\ ShaBlock * k = a + ShaBlock /\ a + ShaBlock <= s5 + z + 9
  <2>1. ShaBlock * k = a + ShaBlock /\ a \in Nat  BY <1>1
  <2>2. ShaBlock * k <= ShaBlock * q  BY <1>1
  <2>3. PICK u \in Nat, v \in Nat : u = ShaBlock * k /\ v = ShaBlock * q  BY <1>1
  <2> HIDE DEF a
  <2> QED BY <1>1, <2>1, <2>2, <2>3
<1>4. BlockOf(z, k) = SubSeq(Padding(z), a + 1, a + ShaBlock)
  BY <1>3 DEF BlockOf
<1>5. /\ BlockOf(z, k) \in Seq(PaddedBytes) /\ Len(BlockOf(z, k)) = ShaBlock
      /\ \A i \in 1 .. ShaBlock : BlockOf(z, k)[i] = Padding(z)[a + i]
  <2> HIDE DEF a
  <2>1. ShaBlock \in Nat /\ a \in Nat /\ a + ShaBlock <= Len(Padding(z))  BY <1>1, <1>2, <1>3
  <2>2. /\ SubSeq(Padding(z), a + 1, a + ShaBlock) \in Seq(PaddedBytes)
        /\ Len(SubSeq(Padding(z), a + 1, a + ShaBlock)) = ShaBlock
        /\ \A i \in 1 .. ShaBlock : SubSeq(Padding(z), a + 1, a + ShaBlock)[i] = Padding(z)[a + i]
    BY <1>2, <2>1, SeqPart
  <2> QED BY <1>4, <2>2
<1>6. ASSUME k <= s3
      PROVE  BlockOf(z, k) = s1[k]
  <2>1. s1[k] = [i \in 1 .. ShaBlock |-> a + i]  BY <1>6 DEF ShaInv
  <2>2. a + ShaBlock <= s5
    <3>1. ShaBlock * k <= ShaBlock * s3  BY <1>1, <1>6
    <3>2. PICK u \in Nat, v \in Nat : u = ShaBlock * k /\ v = ShaBlock * s3  BY <1>1
    <3>3. s5 = v + s4 /\ s4 \in Nat  BY <3>2, ShaTypes DEF ShaInv
    <3> HIDE DEF a
    <3> QED BY <1>1, <1>3, <3>1, <3>2, <3>3
  <2> HIDE DEF a
  <2>3. ASSUME NEW i \in 1 .. ShaBlock
        PROVE  BlockOf(z, k)[i] = a + i
    <3>1. a + i \in 1 .. s5  BY <1>1, <1>3, <2>2
    <3>2. Padding(z)[a + i] = a + i  BY <1>1, <3>1, ShaMessage
    <3> QED BY <1>5, <3>2
  <2>4. BlockOf(z, k) = [i \in 1 .. ShaBlock |-> BlockOf(z, k)[i]]
    BY <1>1, <1>5
  <2> QED BY <2>1, <2>3, <2>4
<1> QED BY <1>5, <1>6 DEF a

LEMMA ShaWithLength ==
  ASSUME ShaInv, NEW d \in [1 .. ShaBlock -> PaddedBytes]
  PROVE  /\ Sha!WithLength(d) \in Seq(PaddedBytes) /\ Len(Sha!WithLength(d)) = ShaBlock
         /\ \A i \in 1 .. ShaBlock - 8 : Sha!WithLength(d)[i] = d[i]
         /\ \A i \in 1 .. 8 : Sha!WithLength(d)[ShaBlock - 8 + i] = Sha!Bits(s5)[i]
<1> DEFINE front == SubSeq(d, 1, ShaBlock - 8)
           bits == Sha!Bits(s5)
<1>1. ShaBlock \in Nat /\ ShaBlock > 8  BY CodecsAssumption
<1>2. s3 * ShaBlock + s4 = s5  BY <1>1 DEF ShaInv
<1>3. Sha!WithLength(d) = front \o bits  BY <1>2 DEF Sha!WithLength
<1>4. d \in Seq(PaddedBytes) /\ Len(d) = ShaBlock  BY <1>1
<1>5. /\ front \in Seq(PaddedBytes) /\ Len(front) = ShaBlock - 8
      /\ \A i \in 1 .. ShaBlock - 8 : front[i] = d[i]
  BY <1>1, <1>4, SeqFront
<1>6. bits \in Seq(PaddedBytes) /\ Len(bits) = 8
  <2>1. bits = [i \in 1 .. 8 |-> bits[i]]  BY DEF Sha!Bits
  <2>2. \A i \in 1 .. 8 : bits[i] \in PaddedBytes  BY DEF PaddedBytes
  <2> HIDE DEF bits
  <2> QED BY <2>1, <2>2
<1> HIDE DEF front, bits
<1>7. /\ front \o bits \in Seq(PaddedBytes) /\ Len(front \o bits) = Len(front) + Len(bits)
      /\ \A i \in 1 .. Len(front) : (front \o bits)[i] = front[i]
      /\ \A i \in 1 .. Len(bits) : (front \o bits)[Len(front) + i] = bits[i]
  <2>1. front \in Seq(PaddedBytes) /\ bits \in Seq(PaddedBytes)  BY <1>5, <1>6
  <2> QED BY <2>1, SeqCat
<1>8. Len(front \o bits) = ShaBlock /\ \A i \in 1 .. ShaBlock - 8 : (front \o bits)[i] = d[i]
  BY <1>1, <1>5, <1>6, <1>7
<1>9. \A i \in 1 .. 8 : (front \o bits)[ShaBlock - 8 + i] = bits[i]
  BY <1>5, <1>6, <1>7
<1> QED BY <1>3, <1>7, <1>8, <1>9 DEF bits

\* What end() puts in the place of the message's last bytes.
LEMMA ShaPadded ==
  ASSUME ShaInv
  PROVE  /\ Sha!Padded \in [1 .. ShaBlock -> PaddedBytes] /\ Sha!Zeros \in [1 .. ShaBlock -> PaddedBytes]
         /\ \A i \in 1 .. ShaBlock :
              Sha!Padded[i] = IF i <= s4 THEN ShaBlock * s3 + i ELSE IF i = s4 + 1 THEN "80" ELSE "0"
         /\ \A i \in 1 .. ShaBlock : Sha!Zeros[i] = "0"
<1>1. PICK b \in Nat : b = ShaBlock * s3  BY ShaTypes, CodecsAssumption
<1>2. s2 = [i \in 1 .. ShaBlock |-> IF i <= s4 THEN b + i ELSE "0"]  BY <1>1 DEF ShaInv
<1>3. Sha!Padded = [i \in 1 .. ShaBlock |-> IF i <= s4 THEN b + i ELSE IF i = s4 + 1 THEN "80" ELSE "0"]
  BY <1>2 DEF Sha!Padded, Sha!One
<1>4. \A i \in 1 .. ShaBlock : b + i \in PaddedBytes /\ "80" \in PaddedBytes /\ "0" \in PaddedBytes
  BY <1>1 DEF PaddedBytes
<1> QED BY <1>1, <1>3, <1>4 DEF Sha!Zeros

\* Whether the length has room in the block or not.
LEMMA ShaFits ==
  ASSUME ShaInv, s4 < ShaBlock - 9
  PROVE  Sha!PaddingIsStandard
<1> DEFINE z == ShaBlock - 9 - s4
           q == s3 + 1
           last == Sha!WithLength(Sha!Padded)
<1>1. ShaBlock \in Nat /\ ShaBlock > 8 /\ s3 \in Nat /\ s4 \in Nat /\ s5 \in Nat
  BY CodecsAssumption, ShaTypes
<1>2. PICK b \in Nat : b = ShaBlock * s3 /\ ShaBlock * q = b + ShaBlock  BY <1>1
<1>3. s5 = b + s4  BY <1>2 DEF ShaInv
<1>4. z \in 1 .. ShaBlock - 1 /\ s5 + 1 + z + 8 = ShaBlock * q  BY <1>1, <1>2, <1>3
<1>5. Sha!hash = Append(s1, last)  BY DEF Sha!hash
<1>6. BlockOf(z, q) = last
  <2>1. /\ last \in Seq(PaddedBytes) /\ Len(last) = ShaBlock
        /\ \A i \in 1 .. ShaBlock - 8 : last[i] = Sha!Padded[i]
        /\ \A i \in 1 .. 8 : last[ShaBlock - 8 + i] = Sha!Bits(s5)[i]
    BY ShaPadded, ShaWithLength
  <2>2. /\ BlockOf(z, q) \in Seq(PaddedBytes) /\ Len(BlockOf(z, q)) = ShaBlock
        /\ \A i \in 1 .. ShaBlock : BlockOf(z, q)[i] = Padding(z)[b + i]
    <3>0. q - 1 = s3 /\ q \in Nat \ {0} /\ z \in Nat  BY <1>1, <1>4
    <3>1. q \in 1 .. q /\ z \in Nat /\ q \in Nat  BY <3>0
    <3>2. ShaBlock * (q - 1) = b  BY <1>2, <3>0
    <3> HIDE DEF z, q
    <3>3. /\ BlockOf(z, q) \in Seq(PaddedBytes) /\ Len(BlockOf(z, q)) = ShaBlock
          /\ \A i \in 1 .. ShaBlock : BlockOf(z, q)[i] = Padding(z)[ShaBlock * (q - 1) + i]
      BY <1>4, <3>1, ShaCut
    <3> QED BY <3>2, <3>3
  <2> HIDE DEF last
  <2>3. ASSUME NEW i \in 1 .. ShaBlock
        PROVE  Padding(z)[b + i] = last[i]
    <3>1. z \in Nat /\ s5 + z + 1 = b + (ShaBlock - 8)  BY <1>1, <1>3, <1>4
    <3> HIDE DEF z
    <3>0. /\ \A j \in 1 .. s5 : Padding(z)[j] = j
          /\ Padding(z)[s5 + 1] = "80"
          /\ \A j \in s5 + 2 .. s5 + z + 1 : Padding(z)[j] = "0"
          /\ \A j \in 1 .. 8 : Padding(z)[s5 + z + 1 + j] = Sha!Bits(s5)[j]
      BY <1>1, <3>1, ShaMessage
    <3>2. CASE i <= s4
      <4>1. b + i \in 1 .. s5 /\ i <= ShaBlock - 8  BY <1>1, <1>3, <3>2
      <4>2. Padding(z)[b + i] = b + i  BY <1>1, <3>1, <4>1, <3>0
      <4>3. last[i] = b + i  BY <1>2, <2>1, <3>2, <4>1, ShaPadded
      <4> QED BY <4>2, <4>3
    <3>3. CASE i = s4 + 1
      <4>1. b + i = s5 + 1 /\ i <= ShaBlock - 8 /\ ~(i <= s4)  BY <1>1, <1>3, <3>3
      <4>2. Padding(z)[b + i] = "80"  BY <1>1, <3>1, <4>1, <3>0
      <4>3. last[i] = "80"  BY <2>1, <3>3, <4>1, ShaPadded
      <4> QED BY <4>2, <4>3
    <3>4. CASE i > s4 + 1 /\ i <= ShaBlock - 8
      <4>1. b + i \in s5 + 2 .. s5 + z + 1 /\ ~(i <= s4) /\ i # s4 + 1  BY <1>1, <1>3, <3>1, <3>4
      <4>2. Padding(z)[b + i] = "0"  BY <1>1, <3>1, <4>1, <3>0
      <4>3. last[i] = "0"  BY <2>1, <3>4, <4>1, ShaPadded
      <4> QED BY <4>2, <4>3
    <3>5. CASE i > ShaBlock - 8
      <4> DEFINE j == i - (ShaBlock - 8)
      <4>1. j \in 1 .. 8 /\ b + i = s5 + z + 1 + j /\ i = ShaBlock - 8 + j  BY <1>1, <3>1, <3>5
      <4> HIDE DEF j
      <4>2. Padding(z)[s5 + z + 1 + j] = Sha!Bits(s5)[j]  BY <1>1, <3>1, <4>1, <3>0
      <4>3. last[i] = Sha!Bits(s5)[j]  BY <2>1, <4>1
      <4> QED BY <4>1, <4>2, <4>3
    <3> QED BY <1>1, <3>2, <3>3, <3>4, <3>5
  <2> HIDE DEF z, q
  <2> QED BY <2>1, <2>2, <2>3, SeqSame
<1>7. Sha!hash = [k \in 1 .. q |-> BlockOf(z, k)]
  <2>1. \A k \in 1 .. s3 : BlockOf(z, k) = s1[k]
    <3>1. \A k \in 1 .. s3 : k \in 1 .. q /\ k <= s3  BY <1>1
    <3>2. z \in Nat /\ q \in Nat  BY <1>1, <1>4
    <3> HIDE DEF z, q
    <3> QED BY <1>4, <3>1, <3>2, ShaCut
  <2>2. s1 = [k \in 1 .. s3 |-> BlockOf(z, k)]
    <3>1. s1 = [k \in 1 .. s3 |-> s1[k]]  BY DEF ShaInv
    <3> HIDE DEF z
    <3> QED BY <2>1, <3>1
  <2>3. Append(s1, BlockOf(z, s3 + 1)) = [k \in 1 .. s3 + 1 |-> BlockOf(z, k)]
    <3> HIDE DEF z
    <3> QED BY <1>1, <2>2
  <2> HIDE DEF z, last
  <2> QED BY <1>5, <1>6, <2>3
<1>8. z # 0 /\ z \in 0 .. ShaBlock - 1 /\ q \in Nat  BY <1>1, <1>4
<1> HIDE DEF z, q
<1> QED BY <1>1, <1>4, <1>7, <1>8, ShaStandard

LEMMA ShaOverflows ==
  ASSUME ShaInv, s4 >= ShaBlock - 9
  PROVE  Sha!PaddingIsStandard
<1> DEFINE last == Sha!WithLength(Sha!Zeros)
           more == <<Sha!Padded, last>>
<1>1. ShaBlock \in Nat /\ ShaBlock > 8 /\ s3 \in Nat /\ s4 \in Nat /\ s5 \in Nat /\ s4 < ShaBlock
  BY CodecsAssumption, ShaTypes DEF ShaInv
<1>2. PICK b \in Nat : b = ShaBlock * s3 /\ ShaBlock * (s3 + 1) = b + ShaBlock
                       /\ ShaBlock * (s3 + 2) = b + 2 * ShaBlock
  BY <1>1
<1>3. s5 = b + s4  BY <1>2 DEF ShaInv
<1>4. Sha!hash = s1 \o more  BY <1>1 DEF Sha!hash
<1>5. /\ last \in Seq(PaddedBytes) /\ Len(last) = ShaBlock
      /\ \A i \in 1 .. ShaBlock - 8 : last[i] = "0"
      /\ \A i \in 1 .. 8 : last[ShaBlock - 8 + i] = Sha!Bits(s5)[i]
  <2>1. /\ last \in Seq(PaddedBytes) /\ Len(last) = ShaBlock
        /\ \A i \in 1 .. ShaBlock - 8 : last[i] = Sha!Zeros[i]
        /\ \A i \in 1 .. 8 : last[ShaBlock - 8 + i] = Sha!Bits(s5)[i]
    BY ShaPadded, ShaWithLength
  <2>2. \A i \in 1 .. ShaBlock - 8 : Sha!Zeros[i] = "0"  BY <1>1, ShaPadded
  <2> HIDE DEF last
  <2> QED BY <2>1, <2>2
<1>6. Sha!Padded \in Seq(PaddedBytes) /\ Len(Sha!Padded) = ShaBlock
  <2>1. Sha!Padded \in [1 .. ShaBlock -> PaddedBytes]  BY ShaPadded
  <2> QED BY <1>1, <2>1
<1>7. s1 \in Seq(Seq(PaddedBytes)) /\ Len(s1) = s3
  <2>1. \A k \in 1 .. s3 : s1[k] \in Seq(PaddedBytes)
    <3>1. ASSUME NEW k \in 1 .. s3
          PROVE  [i \in 1 .. ShaBlock |-> ShaBlock * (k - 1) + i] \in Seq(PaddedBytes)
      <4>1. PICK a \in Nat : a = ShaBlock * (k - 1)  BY <1>1
      <4>2. \A i \in 1 .. ShaBlock : a + i \in PaddedBytes  BY <4>1 DEF PaddedBytes
      <4>3. [i \in 1 .. ShaBlock |-> a + i] \in Seq(PaddedBytes)  BY <1>1, <4>2
      <4> QED BY <4>1, <4>3
    <3> QED BY <3>1 DEF ShaInv
  <2>2. s1 = [k \in 1 .. s3 |-> s1[k]]  BY DEF ShaInv
  <2> DEFINE T == Seq(PaddedBytes)
  <2> HIDE DEF T
  <2>3. s1 \in Seq(T) /\ Len(s1) = s3
    <3>1. \A k \in 1 .. s3 : s1[k] \in T  BY <2>1 DEF T
    <3> QED BY <1>1, <2>2, <3>1
  <2> QED BY <2>3 DEF T
<1>8. /\ Sha!hash \in Seq(Seq(PaddedBytes)) /\ Len(Sha!hash) = s3 + 2
      /\ \A k \in 1 .. s3 : Sha!hash[k] = s1[k]
      /\ Sha!hash[s3 + 1] = Sha!Padded /\ Sha!hash[s3 + 2] = last
  <2> HIDE DEF last
  <2>1. more \in Seq(Seq(PaddedBytes)) /\ Len(more) = 2 /\ more[1] = Sha!Padded /\ more[2] = last
    BY <1>5, <1>6
  <2> HIDE DEF more
  <2>2. /\ s1 \o more \in Seq(Seq(PaddedBytes)) /\ Len(s1 \o more) = Len(s1) + Len(more)
        /\ \A k \in 1 .. Len(s1) : (s1 \o more)[k] = s1[k]
        /\ \A k \in 1 .. Len(more) : (s1 \o more)[Len(s1) + k] = more[k]
    <3> DEFINE T == Seq(PaddedBytes)
    <3>1. s1 \in Seq(T) /\ more \in Seq(T)  BY <1>7, <2>1
    <3> HIDE DEF T
    <3>2. /\ s1 \o more \in Seq(T) /\ Len(s1 \o more) = Len(s1) + Len(more)
          /\ \A k \in 1 .. Len(s1) : (s1 \o more)[k] = s1[k]
          /\ \A k \in 1 .. Len(more) : (s1 \o more)[Len(s1) + k] = more[k]
      BY <3>1, SeqCat
    <3> QED BY <3>2 DEF T
  <2>3. \A k \in 1 .. 2 : (s1 \o more)[s3 + k] = more[k]  BY <1>7, <2>1, <2>2
  <2>4. (s1 \o more)[s3 + 1] = more[1] /\ (s1 \o more)[s3 + 2] = more[2]
    <3>1. 1 \in 1 .. 2 /\ 2 \in 1 .. 2  OBVIOUS
    <3> QED BY <2>3, <3>1
  <2> QED BY <1>1, <1>4, <1>7, <2>1, <2>2, <2>4
\* The one bit and the length fill the block: nothing is claimed.
<1>9. CASE s4 = ShaBlock - 9
  <2>1. s5 + 1 + 0 + 8 = ShaBlock * (s3 + 1) /\ 0 \in 0 .. ShaBlock - 1 /\ s3 + 1 \in Nat
    BY <1>1, <1>2, <1>3, <1>9
  <2> QED BY <1>1, <2>1, ShaStandard
\* The length has a block of its own.
<1>10. CASE s4 > ShaBlock - 9
  <2> DEFINE z == 2 * ShaBlock - 9 - s4
             q == s3 + 2
  <2>1. z \in 1 .. ShaBlock - 1 /\ s5 + 1 + z + 8 = ShaBlock * q  BY <1>1, <1>2, <1>3, <1>10
  <2>2. z \in Nat /\ q \in Nat /\ s5 + z + 1 = b + ShaBlock + (ShaBlock - 8)  BY <1>1, <1>3, <2>1
  <2>3. ASSUME NEW k \in 1 .. q
        PROVE  /\ BlockOf(z, k) \in Seq(PaddedBytes) /\ Len(BlockOf(z, k)) = ShaBlock
               /\ \A i \in 1 .. ShaBlock : BlockOf(z, k)[i] = Padding(z)[ShaBlock * (k - 1) + i]
               /\ k <= s3 => BlockOf(z, k) = s1[k]
    <3> HIDE DEF z, q
    <3> QED BY <2>1, <2>2, ShaCut
  <2>4. ASSUME NEW i \in 1 .. ShaBlock
        PROVE  Padding(z)[b + i] = Sha!Padded[i]
    <3> HIDE DEF z
    <3>0. /\ \A j \in 1 .. s5 : Padding(z)[j] = j
          /\ Padding(z)[s5 + 1] = "80"
          /\ \A j \in s5 + 2 .. s5 + z + 1 : Padding(z)[j] = "0"
          /\ \A j \in 1 .. 8 : Padding(z)[s5 + z + 1 + j] = Sha!Bits(s5)[j]
      BY <1>1, <2>2, ShaMessage
    <3>1. CASE i <= s4
      <4>1. b + i \in 1 .. s5  BY <1>1, <1>3, <3>1
      <4>2. Padding(z)[b + i] = b + i  BY <2>2, <4>1, <3>0
      <4>3. Sha!Padded[i] = b + i  BY <1>2, <3>1, ShaPadded
      <4> QED BY <4>2, <4>3
    <3>2. CASE i = s4 + 1
      <4>1. b + i = s5 + 1 /\ ~(i <= s4)  BY <1>1, <1>3, <3>2
      <4>2. Padding(z)[b + i] = "80"  BY <2>2, <4>1, <3>0
      <4>3. Sha!Padded[i] = "80"  BY <3>2, <4>1, ShaPadded
      <4> QED BY <4>2, <4>3
    <3>3. CASE i > s4 + 1
      <4>1. b + i \in s5 + 2 .. s5 + z + 1 /\ ~(i <= s4) /\ i # s4 + 1  BY <1>1, <1>3, <2>2, <3>3
      <4>2. Padding(z)[b + i] = "0"  BY <2>2, <4>1, <3>0
      <4>3. Sha!Padded[i] = "0"  BY <4>1, ShaPadded
      <4> QED BY <4>2, <4>3
    <3> QED BY <1>1, <3>1, <3>2, <3>3
  <2>5. ASSUME NEW i \in 1 .. ShaBlock
        PROVE  Padding(z)[b + ShaBlock + i] = last[i]
    <3> HIDE DEF z, last
    <3>0. /\ \A j \in 1 .. s5 : Padding(z)[j] = j
          /\ Padding(z)[s5 + 1] = "80"
          /\ \A j \in s5 + 2 .. s5 + z + 1 : Padding(z)[j] = "0"
          /\ \A j \in 1 .. 8 : Padding(z)[s5 + z + 1 + j] = Sha!Bits(s5)[j]
      BY <1>1, <2>2, ShaMessage
    <3>1. CASE i <= ShaBlock - 8
      <4>1. b + ShaBlock + i \in s5 + 2 .. s5 + z + 1  BY <1>1, <1>3, <2>2, <3>1
      <4>2. Padding(z)[b + ShaBlock + i] = "0"  BY <2>2, <4>1, <3>0
      <4>3. last[i] = "0"  BY <1>5, <3>1
      <4> QED BY <4>2, <4>3
    <3>2. CASE i > ShaBlock - 8
      <4> DEFINE j == i - (ShaBlock - 8)
      <4>1. j \in 1 .. 8 /\ b + ShaBlock + i = s5 + z + 1 + j /\ i = ShaBlock - 8 + j
        BY <1>1, <2>2, <3>2
      <4> HIDE DEF j
      <4>2. Padding(z)[s5 + z + 1 + j] = Sha!Bits(s5)[j]  BY <2>2, <4>1, <3>0
      <4>3. last[i] = Sha!Bits(s5)[j]  BY <1>5, <4>1
      <4> QED BY <4>1, <4>2, <4>3
    <3> QED BY <1>1, <3>1, <3>2
  <2>6. BlockOf(z, s3 + 1) = Sha!Padded
    <3>1. s3 + 1 \in 1 .. q /\ ShaBlock * ((s3 + 1) - 1) = b  BY <1>1, <1>2
    <3> HIDE DEF z, q
    <3>2. /\ BlockOf(z, s3 + 1) \in Seq(PaddedBytes) /\ Len(BlockOf(z, s3 + 1)) = ShaBlock
          /\ \A i \in 1 .. ShaBlock : BlockOf(z, s3 + 1)[i] = Padding(z)[b + i]
      BY <2>3, <3>1
    <3> QED BY <1>6, <2>4, <3>2, SeqSame
  <2>7. BlockOf(z, s3 + 2) = last
    <3>1. s3 + 2 \in 1 .. q /\ ShaBlock * ((s3 + 2) - 1) = b + ShaBlock
      <4>1. (s3 + 2) - 1 = s3 + 1  BY <1>1
      <4> QED BY <1>1, <1>2, <4>1
    <3> HIDE DEF z, q, last
    <3>2. /\ BlockOf(z, s3 + 2) \in Seq(PaddedBytes) /\ Len(BlockOf(z, s3 + 2)) = ShaBlock
          /\ \A i \in 1 .. ShaBlock : BlockOf(z, s3 + 2)[i] = Padding(z)[b + ShaBlock + i]
      BY <2>3, <3>1
    <3> QED BY <1>5, <2>5, <3>2, SeqSame
  <2>8. Sha!hash = [k \in 1 .. q |-> BlockOf(z, k)]
    <3> HIDE DEF z, last
    <3>1. \A k \in 1 .. s3 + 2 : Sha!hash[k] = BlockOf(z, k)
      <4>1. \A k \in 1 .. s3 : Sha!hash[k] = BlockOf(z, k)
        <5>1. \A k \in 1 .. s3 : k \in 1 .. q /\ k <= s3  BY <1>1
        <5> HIDE DEF q
        <5> QED BY <1>8, <2>3, <5>1
      <4>2. Sha!hash[s3 + 1] = BlockOf(z, s3 + 1) /\ Sha!hash[s3 + 2] = BlockOf(z, s3 + 2)
        BY <1>8, <2>6, <2>7
      <4>3. \A k \in 1 .. s3 + 2 : k \in 1 .. s3 \/ k = s3 + 1 \/ k = s3 + 2  BY <1>1
      <4> QED BY <4>1, <4>2, <4>3
    <3>2. Sha!hash = [k \in 1 .. s3 + 2 |-> Sha!hash[k]]  BY <1>1, <1>8
    <3> QED BY <3>1, <3>2
  <2>9. z # 0 /\ z \in 0 .. ShaBlock - 1 /\ q \in Nat  BY <1>1, <2>1
  <2> HIDE DEF z, q
  <2> QED BY <1>1, <2>1, <2>8, <2>9, ShaStandard
<1> QED BY <1>1, <1>9, <1>10

LEMMA ShaSound == ShaInv => Sha!PaddingIsStandard
<1> SUFFICES ASSUME ShaInv  PROVE Sha!PaddingIsStandard
  OBVIOUS
<1>1. s4 < ShaBlock - 9 \/ s4 >= ShaBlock - 9
  BY CodecsAssumption, ShaTypes
<1> QED BY <1>1, ShaFits, ShaOverflows
-----------------------------------------------------------------------------
(* CodecsSound *)

LEMMA CodecsStart ==
  CodecsInit => /\ part = "camellia" => Cam!Init
                /\ part = "sha" => Sha!Init
                /\ part = "pixels" => s1 \in Nat \ {0} /\ s2 \in Nat \ {0}
BY CodecsAssumption DEF CodecsInit

LEMMA CodecsStep ==
  ASSUME [CodecsNext /\ UNCHANGED part]_<<part, shared>>
  PROVE  /\ part' = part
         /\ part = "camellia" => [Cam!Next]_(Cam!vars)
         /\ part = "sha" => [Sha!Next]_(Sha!vars)
         /\ part = "pixels" => UNCHANGED <<s1, s2>>
BY DEF CodecsNext, shared, Cam!vars, Sha!vars

\* Whatever the boxes, the constants, the key and the block, decryption gives back
\* what was encrypted; pictures of any size survive their conversions; and SHA256
\* pads messages as its standard says, of every length but ShaBlock - 9 modulo ShaBlock,
\* 55 modulo 64 in the code, where it adds a block too many (CamelliaCipher.ipp:389-445,
\* XWidget.ipp:280-375, SHA256.ipp:98-189).
THEOREM CodecsAreSound == CodecsSpec => []CodecsSound
<1> DEFINE Inv == /\ part = "camellia" => CamInv
                  /\ part = "sha" => ShaInv
                  /\ part = "pixels" => s1 \in Nat \ {0} /\ s2 \in Nat \ {0}
<1>1. CodecsInit => Inv
  BY CodecsStart, CamInit, ShaInit
<1>2. Inv /\ [CodecsNext /\ UNCHANGED part]_<<part, shared>> => Inv'
  <2> SUFFICES ASSUME Inv, [CodecsNext /\ UNCHANGED part]_<<part, shared>>  PROVE Inv'
    OBVIOUS
  <2>1. part = "camellia" => CamInv'
    BY CodecsStep, CamStep
  <2>2. part = "sha" => ShaInv'
    BY CodecsStep, ShaStep
  <2>3. part = "pixels" => (s1 \in Nat \ {0} /\ s2 \in Nat \ {0})'
    BY CodecsStep
  <2> QED BY <2>1, <2>2, <2>3, CodecsStep
<1>3. Inv => CodecsSound
  <2>1. CamInv => Cam!DecryptInverts
    BY DEF CamInv, Cam!DecryptInverts
  <2> QED BY <2>1, ShaSound, PixSurvives DEF CodecsSound
<1> QED BY <1>1, <1>2, <1>3, PTL DEF CodecsSpec
=============================================================================
