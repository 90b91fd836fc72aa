---------------------------- MODULE CLog_proofs ----------------------------
(***************************************************************************)
(* Theorems about CLog, for every number of writers, writes, rotations and *)
(* crashes, every size at which it rotates and every answer of fopen and   *)
(* of the thread library that the assumptions admit.                       *)
(***************************************************************************)
EXTENDS CLog, SequenceTheorems, FiniteSetTheorems, WellFoundedInduction,
        TLAPS

\* Every message of S was accepted before every message of T.
Before(S, T) == \A x \in S, y \in T : x < y

\* The messages in the file of a name.
FileItems(n) == IF dir[n] = None THEN {} ELSE Items(content[dir[n]])

\* The writers between isOpen() and the lock.
Inside == {w \in Writers : writing[w]}

\* The name of the file an open fwriter_current writes to: the last rename of a
\* rotation moves it while the proxy goes on writing.
CurrentName == IF rotator = "reopen" THEN 1 ELSE 0

\* Rotator, owner and writers agree on whether there is a log.
Control == /\ RotatorBelongs
           /\ owner # "idle" => current # None
           /\ owner = "closing" => rotator = "off"
           /\ current = None => currentQueue = <<>> /\ ~currentOpen
           /\ rotator # "closeOld" => oldQueue = <<>>
           /\ \A w \in Writers : writing[w] => owner = "idle" /\ current # None

\* A rotation uses one more inode and one more name, and has them.
Counted == /\ accepted + Cardinality(Inside) <= MaxWrites
           /\ inodes <= opens + rotations
           /\ rotator \in {"shift", "reopen"} => inodes + 1 <= opens + rotations
           /\ \A n \in Names : dir[n] # None => n <= rotations
           /\ rotator = "shift" => shift + 1 <= rotations

\* No file has two names, and each proxy writes to the file of the name it is
\* thought to write to.
Disk == /\ \A n, m \in Names : dir[n] # None /\ dir[n] = dir[m] => n = m
        /\ \A n \in Names : dir[n] <= inodes
        /\ \A f \in Inodes : f > inodes => content[f] = <<>>
        /\ NeverOverwrites
        /\ rotator = "reopen" => dir[0] = None
        /\ currentOpen => current # None /\ dir[CurrentName] = current
        /\ oldQueue # <<>> => old # None /\ dir[1] = old

\* Older files, the queue of the replaced proxy, `filename` and the queue of the
\* current proxy hold the messages in this order.
Order == /\ \A n \in Names : dir[n] # None => Increasing(content[dir[n]])
         /\ Increasing(currentQueue) /\ Increasing(oldQueue)
         /\ \A n, m \in Names : n < m => Before(FileItems(m), FileItems(n))
         /\ \A n \in Names : Before(FileItems(n), Items(currentQueue))
         /\ \A n \in Names \ {0} : Before(FileItems(n), Items(oldQueue))
         /\ Before(Items(oldQueue), FileItems(0))
         /\ Before(Items(oldQueue), Items(currentQueue))

IInv == TypeOK /\ Control /\ Counted /\ Disk /\ Order /\ AllLogged
-----------------------------------------------------------------------------

(* Sequences of messages. *)

\* The items of a concatenation are those of its parts.
LEMMA ItemsConcat ==
  ASSUME NEW s \in Seq(Nat), NEW t \in Seq(Nat)
  PROVE  Items(s \o t) = Items(s) \cup Items(t)
<1>1. /\ s \o t \in Seq(Nat) /\ Len(s \o t) = Len(s) + Len(t)
      /\ \A i \in 1 .. Len(s) + Len(t) :
           (s \o t)[i] = IF i <= Len(s) THEN s[i] ELSE t[i - Len(s)]
  BY ConcatProperties
<1>2. /\ Len(s) \in Nat /\ Len(t) \in Nat
      /\ DOMAIN s = 1 .. Len(s) /\ DOMAIN t = 1 .. Len(t)
      /\ DOMAIN (s \o t) = 1 .. Len(s) + Len(t)
  BY <1>1, LenProperties
<1>3. ASSUME NEW x \in Items(s \o t)  PROVE x \in Items(s) \cup Items(t)
  <2>1. PICK i \in 1 .. Len(s) + Len(t) : x = (s \o t)[i]
    BY <1>2, <1>3 DEF Items
  <2>2. CASE i <= Len(s)
    BY <1>1, <1>2, <2>1, <2>2 DEF Items
  <2>3. CASE ~(i <= Len(s))
    <3>1. i - Len(s) \in 1 .. Len(t) /\ x = t[i - Len(s)]
      BY <1>1, <1>2, <2>1, <2>3
    <3> QED BY <1>2, <3>1 DEF Items
  <2> QED BY <2>2, <2>3
<1>4. ASSUME NEW x \in Items(s)  PROVE x \in Items(s \o t)
  <2>1. PICK i \in 1 .. Len(s) : x = s[i]
    BY <1>2, <1>4 DEF Items
  <2>2. i \in 1 .. Len(s) + Len(t) /\ x = (s \o t)[i]
    BY <1>1, <1>2, <2>1
  <2> QED BY <1>2, <2>2 DEF Items
<1>5. ASSUME NEW x \in Items(t)  PROVE x \in Items(s \o t)
  <2>1. PICK i \in 1 .. Len(t) : x = t[i]
    BY <1>2, <1>5 DEF Items
  <2>2. /\ Len(s) + i \in 1 .. Len(s) + Len(t)
        /\ ~(Len(s) + i <= Len(s)) /\ Len(s) + i - Len(s) = i
    BY <1>2, <2>1
  <2>3. x = (s \o t)[Len(s) + i]
    BY <1>1, <2>1, <2>2
  <2> QED BY <1>2, <2>2, <2>3 DEF Items
<1> QED BY <1>3, <1>4, <1>5

\* The empty sequence has no items.
LEMMA ItemsEmpty == Items(<<>>) = {}
BY DEF Items

\* The items of a sequence are of its type.
LEMMA ItemsIn ==
  ASSUME NEW S, NEW s \in Seq(S)  PROVE Items(s) \in SUBSET S
BY LenProperties, ElementOfSeq DEF Items

\* One more item.
LEMMA ItemsAppend ==
  ASSUME NEW s \in Seq(Nat), NEW n \in Nat
  PROVE  Items(Append(s, n)) = Items(s) \cup {n}
<1>1. /\ Len(s) \in Nat /\ DOMAIN s = 1 .. Len(s)
      /\ DOMAIN Append(s, n) = 1 .. Len(s) + 1
      /\ Append(s, n)[Len(s) + 1] = n
      /\ \A i \in 1 .. Len(s) : Append(s, n)[i] = s[i]
  BY LenProperties, AppendProperties
<1>2. 1 .. Len(s) + 1 = (1 .. Len(s)) \cup {Len(s) + 1}
  BY <1>1
<1> QED BY <1>1, <1>2 DEF Items

\* A sequence stays increasing when a larger item is appended.
LEMMA IncreasingAppend ==
  ASSUME NEW s \in Seq(Nat), NEW n \in Nat, Increasing(s),
         \A x \in Items(s) : x < n
  PROVE  Increasing(Append(s, n))
<1>1. /\ Len(s) \in Nat /\ DOMAIN s = 1 .. Len(s)
      /\ DOMAIN Append(s, n) = 1 .. Len(s) + 1
      /\ Append(s, n)[Len(s) + 1] = n
      /\ \A i \in 1 .. Len(s) : Append(s, n)[i] = s[i]
  BY LenProperties, AppendProperties
<1>2. \A i \in 1 .. Len(s) : s[i] < n
  BY <1>1 DEF Items
<1>3. ASSUME NEW i \in 1 .. Len(s) + 1, NEW j \in 1 .. Len(s) + 1, i < j
      PROVE  Append(s, n)[i] < Append(s, n)[j]
  <2>1. i \in 1 .. Len(s)
    BY <1>1, <1>3
  <2>2. CASE j = Len(s) + 1
    BY <1>1, <1>2, <2>1, <2>2
  <2>3. CASE j \in 1 .. Len(s)
    BY <1>1, <1>3, <2>1, <2>3 DEF Increasing
  <2> QED BY <1>1, <2>2, <2>3
<1> QED BY <1>1, <1>3 DEF Increasing

\* Both parts of an increasing concatenation are increasing and disjoint.
LEMMA IncreasingConcat ==
  ASSUME NEW s \in Seq(Nat), NEW t \in Seq(Nat), Increasing(s \o t)
  PROVE  Increasing(s) /\ Increasing(t) /\ Items(s) \cap Items(t) = {}
<1>1. /\ s \o t \in Seq(Nat) /\ Len(s \o t) = Len(s) + Len(t)
      /\ \A i \in 1 .. Len(s) + Len(t) :
           (s \o t)[i] = IF i <= Len(s) THEN s[i] ELSE t[i - Len(s)]
  BY ConcatProperties
<1>2. /\ Len(s) \in Nat /\ Len(t) \in Nat
      /\ DOMAIN s = 1 .. Len(s) /\ DOMAIN t = 1 .. Len(t)
      /\ DOMAIN (s \o t) = 1 .. Len(s) + Len(t)
  BY <1>1, LenProperties
<1>3. \A i \in 1 .. Len(s) : i \in 1 .. Len(s) + Len(t) /\ (s \o t)[i] = s[i]
  BY <1>1, <1>2
<1>4. \A j \in 1 .. Len(t) : /\ Len(s) + j \in 1 .. Len(s) + Len(t)
                             /\ (s \o t)[Len(s) + j] = t[j]
  <2> TAKE j \in 1 .. Len(t)
  <2>1. /\ Len(s) + j \in 1 .. Len(s) + Len(t)
        /\ ~(Len(s) + j <= Len(s)) /\ Len(s) + j - Len(s) = j
    BY <1>2
  <2> QED BY <1>1, <2>1
<1>5. Increasing(s)
  BY <1>2, <1>3 DEF Increasing
<1>6. ASSUME NEW i \in 1 .. Len(t), NEW j \in 1 .. Len(t), i < j
      PROVE  t[i] < t[j]
  <2>1. Len(s) + i < Len(s) + j
    BY <1>2, <1>6
  <2> QED BY <1>2, <1>4, <2>1 DEF Increasing
<1>7. ASSUME NEW i \in 1 .. Len(s), NEW j \in 1 .. Len(t)
      PROVE  s[i] # t[j]
  <2>1. i < Len(s) + j
    BY <1>2
  <2>2. s[i] < t[j]
    BY <1>2, <1>3, <1>4, <2>1 DEF Increasing
  <2>3. s[i] \in Nat /\ t[j] \in Nat
    BY ElementOfSeq
  <2> QED BY <2>2, <2>3
<1> QED BY <1>2, <1>5, <1>6, <1>7 DEF Increasing, Items

\* Messages that follow those of an increasing sequence extend it.
LEMMA IncreasingJoin ==
  ASSUME NEW s \in Seq(Nat), NEW t \in Seq(Nat), Increasing(s), Increasing(t),
         Before(Items(s), Items(t))
  PROVE  Increasing(s \o t)
<1>1. /\ s \o t \in Seq(Nat) /\ Len(s \o t) = Len(s) + Len(t)
      /\ \A i \in 1 .. Len(s) + Len(t) :
           (s \o t)[i] = IF i <= Len(s) THEN s[i] ELSE t[i - Len(s)]
  BY ConcatProperties
<1>2. /\ Len(s) \in Nat /\ Len(t) \in Nat
      /\ DOMAIN s = 1 .. Len(s) /\ DOMAIN t = 1 .. Len(t)
      /\ DOMAIN (s \o t) = 1 .. Len(s) + Len(t)
  BY <1>1, LenProperties
<1>3. \A i \in 1 .. Len(s), j \in 1 .. Len(t) : s[i] < t[j]
  BY <1>2 DEF Before, Items
<1>4. ASSUME NEW i \in 1 .. Len(s) + Len(t), NEW j \in 1 .. Len(s) + Len(t), i < j
      PROVE  (s \o t)[i] < (s \o t)[j]
  <2>1. CASE j <= Len(s)
    <3>1. i \in 1 .. Len(s) /\ j \in 1 .. Len(s) /\ i <= Len(s)
      BY <1>2, <1>4, <2>1
    <3>2. (s \o t)[i] = s[i] /\ (s \o t)[j] = s[j]
      BY <1>1, <2>1, <3>1
    <3>3. s[i] < s[j]
      BY <1>2, <1>4, <3>1 DEF Increasing
    <3> QED BY <3>2, <3>3
  <2>2. CASE ~(i <= Len(s))
    <3>1. /\ i - Len(s) \in 1 .. Len(t) /\ j - Len(s) \in 1 .. Len(t)
          /\ i - Len(s) < j - Len(s) /\ ~(j <= Len(s))
      BY <1>2, <1>4, <2>2
    <3>2. (s \o t)[i] = t[i - Len(s)] /\ (s \o t)[j] = t[j - Len(s)]
      BY <1>1, <1>2, <1>4, <2>2, <3>1
    <3>3. t[i - Len(s)] < t[j - Len(s)]
      BY <1>2, <3>1 DEF Increasing
    <3> QED BY <3>2, <3>3
  <2>3. CASE i <= Len(s) /\ ~(j <= Len(s))
    <3>1. i \in 1 .. Len(s) /\ j - Len(s) \in 1 .. Len(t)
      BY <1>2, <1>4, <2>3
    <3> QED BY <1>1, <1>3, <2>3, <3>1
  <2> QED BY <2>1, <2>2, <2>3
<1> QED BY <1>2, <1>4 DEF Increasing

\* In an increasing concatenation the first part comes before the second.
LEMMA IncreasingBefore ==
  ASSUME NEW s \in Seq(Nat), NEW t \in Seq(Nat), Increasing(s \o t)
  PROVE  Before(Items(s), Items(t))
<1>1. /\ s \o t \in Seq(Nat) /\ Len(s \o t) = Len(s) + Len(t)
      /\ \A i \in 1 .. Len(s) + Len(t) :
           (s \o t)[i] = IF i <= Len(s) THEN s[i] ELSE t[i - Len(s)]
  BY ConcatProperties
<1>2. /\ Len(s) \in Nat /\ Len(t) \in Nat
      /\ DOMAIN s = 1 .. Len(s) /\ DOMAIN t = 1 .. Len(t)
      /\ DOMAIN (s \o t) = 1 .. Len(s) + Len(t)
  BY <1>1, LenProperties
<1>3. ASSUME NEW i \in 1 .. Len(s), NEW j \in 1 .. Len(t)
      PROVE  s[i] < t[j]
  <2>1. /\ i \in 1 .. Len(s) + Len(t) /\ Len(s) + j \in 1 .. Len(s) + Len(t)
        /\ i <= Len(s) /\ ~(Len(s) + j <= Len(s)) /\ Len(s) + j - Len(s) = j
        /\ i < Len(s) + j
    BY <1>2
  <2>2. (s \o t)[i] = s[i] /\ (s \o t)[Len(s) + j] = t[j]
    BY <1>1, <2>1
  <2> QED BY <1>2, <2>1, <2>2 DEF Increasing
<1> QED BY <1>2, <1>3 DEF Before, Items

\* Cutting a sequence in two.
LEMMA Cut ==
  ASSUME NEW s \in Seq(Nat), NEW k \in 1 .. Len(s),
         NEW front, front = SubSeq(s, 1, k),
         NEW rest, rest = SubSeq(s, k + 1, Len(s))
  PROVE  front \in Seq(Nat) /\ rest \in Seq(Nat) /\ s = front \o rest
<1>1. Len(s) \in Nat /\ k \in Nat /\ k <= Len(s) /\ 1 <= k
  BY LenProperties
<1>2. \A i \in 1 .. Len(s) : s[i] \in Nat
  BY ElementOfSeq
<1>3. /\ front \in Seq(Nat) /\ Len(front) = k
      /\ \A i \in 1 .. k : front[i] = s[i]
  <2>1. \A i \in 1 .. k : s[i] \in Nat
    BY <1>1, <1>2
  <2>2. /\ front \in Seq(Nat) /\ Len(front) = IF 1 <= k THEN k - 1 + 1 ELSE 0
        /\ \A i \in 1 .. k - 1 + 1 : front[i] = s[1 + i - 1]
    BY <1>1, <2>1, SubSeqProperties
  <2> QED BY <1>1, <2>2
<1>4. /\ rest \in Seq(Nat) /\ Len(rest) = Len(s) - k
      /\ \A i \in 1 .. Len(s) - k : rest[i] = s[k + i]
  <2>1. \A i \in k + 1 .. Len(s) : s[i] \in Nat
    BY <1>1, <1>2
  <2>2. /\ rest \in Seq(Nat)
        /\ Len(rest) = IF k + 1 <= Len(s) THEN Len(s) - (k + 1) + 1 ELSE 0
        /\ \A i \in 1 .. Len(s) - (k + 1) + 1 : rest[i] = s[k + 1 + i - 1]
    BY <1>1, <2>1, SubSeqProperties
  <2>3. Len(rest) = Len(s) - k
    <3>1. CASE k < Len(s)
      BY <1>1, <2>2, <3>1
    <3>2. CASE k = Len(s)
      BY <1>1, <2>2, <3>2
    <3> QED BY <1>1, <3>1, <3>2
  <2>4. ASSUME NEW i \in 1 .. Len(s) - k  PROVE rest[i] = s[k + i]
    <3>1. i \in 1 .. Len(s) - (k + 1) + 1 /\ k + 1 + i - 1 = k + i
      BY <1>1
    <3> QED BY <2>2, <3>1
  <2> QED BY <2>2, <2>3, <2>4
<1>5. /\ front \o rest \in Seq(Nat) /\ Len(front \o rest) = Len(s)
      /\ \A i \in 1 .. Len(s) : (front \o rest)[i] = s[i]
  <2>1. /\ front \o rest \in Seq(Nat) /\ Len(front \o rest) = Len(front) + Len(rest)
        /\ \A i \in 1 .. Len(front) + Len(rest) :
             (front \o rest)[i] = IF i <= Len(front) THEN front[i]
                                                   ELSE rest[i - Len(front)]
    BY <1>3, <1>4, ConcatProperties
  <2>2. Len(front) + Len(rest) = Len(s)
    BY <1>1, <1>3, <1>4
  <2>3. ASSUME NEW i \in 1 .. Len(s)  PROVE (front \o rest)[i] = s[i]
    <3>1. CASE i <= k
      BY <1>1, <1>3, <2>1, <2>2, <3>1
    <3>2. CASE ~(i <= k)
      <4>1. i - k \in 1 .. Len(s) - k /\ k + (i - k) = i
        BY <1>1, <3>2
      <4> QED BY <1>3, <1>4, <2>1, <2>2, <3>2, <4>1
    <3> QED BY <3>1, <3>2
  <2> QED BY <2>1, <2>2, <2>3
<1>6. s = front \o rest
  BY <1>5, SeqEqual
<1> QED BY <1>3, <1>4, <1>6

\* Both parts of a cut have the type of the whole.
LEMMA CutType ==
  ASSUME NEW S, NEW s \in Seq(S), NEW k \in 1 .. Len(s)
  PROVE  SubSeq(s, 1, k) \in Seq(S) /\ SubSeq(s, k + 1, Len(s)) \in Seq(S)
<1>1. Len(s) \in Nat /\ k \in Nat /\ k <= Len(s)
  BY LenProperties
<1>2. \A i \in 1 .. Len(s) : s[i] \in S
  BY ElementOfSeq
<1>3. (\A i \in 1 .. k : s[i] \in S) /\ (\A i \in k + 1 .. Len(s) : s[i] \in S)
  BY <1>1, <1>2
<1> QED BY <1>1, <1>3, SubSeqProperties

\* What a cut does to the items of an increasing sequence.
LEMMA IncreasingCut ==
  ASSUME NEW s \in Seq(Nat), NEW k \in 1 .. Len(s), Increasing(s)
  PROVE  \E front, rest \in Seq(Nat) :
           /\ front = SubSeq(s, 1, k) /\ rest = SubSeq(s, k + 1, Len(s))
           /\ Items(s) = Items(front) \cup Items(rest)
           /\ Increasing(front) /\ Increasing(rest)
           /\ Before(Items(front), Items(rest))
<1>1. PICK front, rest : front = SubSeq(s, 1, k) /\ rest = SubSeq(s, k + 1, Len(s))
  BY Zenon
<1>2. front \in Seq(Nat) /\ rest \in Seq(Nat) /\ s = front \o rest
  BY <1>1, Cut, SMTT(30)
<1>3. Increasing(front \o rest)
  BY <1>2, Zenon
<1>4. Items(s) = Items(front) \cup Items(rest)
  BY <1>2, ItemsConcat
<1>5. Increasing(front) /\ Increasing(rest)
  BY <1>2, <1>3, IncreasingConcat
<1>6. Before(Items(front), Items(rest))
  BY <1>2, <1>3, IncreasingBefore
<1> QED BY <1>1, <1>2, <1>4, <1>5, <1>6, Zenon

-----------------------------------------------------------------------------
(* Control and counters *)

\* Any set of numbers has a least one.
LEMMA Least ==
  ASSUME NEW T \in SUBSET Nat, T # {}
  PROVE  \E x \in T : \A y \in T : x <= y
<1> DEFINE Less == {p \in Nat \X Nat : p[1] < p[2]}
<1>1. IsWellFoundedOn(Less, Nat)
  BY NatLessThanWellFounded DEF OpToRel
<1>2. PICK x \in T : \A y \in T : ~ (<<y, x>> \in Less)
  <2> HIDE DEF Less
  <2> QED BY <1>1, WFMin
<1>3. ASSUME NEW y \in T  PROVE x <= y
  <2>1. x \in Nat /\ y \in Nat
    OBVIOUS
  <2>2. y < x => <<y, x>> \in Less
    BY <2>1
  <2> QED BY <1>2, <2>1, <2>2
<1> QED BY <1>2, <1>3

\* What the thread library and join() make of a handle is a handle.
LEMMA HandleType ==
  ASSUME NEW h \in HandleStates, NEW running \in BOOLEAN, NEW created \in BOOLEAN
  PROVE  /\ Started(h, running, created) \in HandleStates
         /\ AfterProbe(h, running) \in HandleStates
         /\ Terminated(h) \in HandleStates /\ Joined(h) \in HandleStates
BY DEF Started, AfterProbe, Terminated, Joined, HandleStates

\* isRunning() answers with a Boolean, and with yes for a live thread.
LEMMA ProbeType == /\ \A h : Probe(h) \in SUBSET BOOLEAN
                   /\ Probe("live") = {TRUE}
BY HandleAssumption DEF Probe, HandleAssumption

\* The bounds are numbers, and so are inodes and names.
LEMMA Numbers ==
  /\ MaxOpens \in Nat /\ MaxRotations \in Nat /\ MaxWrites \in Nat
  /\ MaxCrashes \in Nat
  /\ Inodes \subseteq Nat \ {0} /\ Names \subseteq Nat /\ 0 \in Names /\ 1 \in Names
  /\ None \notin Inodes /\ None \in Nat
BY CLogAssumption DEF CLogAssumption, Inodes, Names, None

\* fopen gives an inode, never None.
LEMMA OpenedSome == TypeOK => OpenedInode \in Nat /\ OpenedInode # None
<1> SUFFICES ASSUME TypeOK  PROVE OpenedInode \in Nat /\ OpenedInode # None
  OBVIOUS
<1>1. inodes \in Nat /\ dir[0] \in Inodes \cup {None}
  BY Numbers DEF TypeOK
<1>2. CASE Created
  BY <1>1, <1>2 DEF OpenedInode, None
<1>3. CASE ~Created
  BY <1>1, <1>3, Numbers DEF OpenedInode, Created
<1> QED BY <1>2, <1>3

\* Who runs, and whether there is a log, in every step.
LEMMA ControlStep == TypeOK /\ Control /\ [Next]_vars => Control'
<1> SUFFICES ASSUME TypeOK, Control, [Next]_vars  PROVE Control'
  OBVIOUS
<1> USE DEF Control, RotatorBelongs, files, currentVars, oldVars, flags, counters
<1>1. CASE RotatorSleeps
  BY <1>1 DEF RotatorSleeps
<1>2. CASE RotatorReturns
  BY <1>2 DEF RotatorReturns
<1>3. CASE RotationStarts
  BY <1>3 DEF RotationStarts
<1>4. CASE Shift
  BY <1>4 DEF Shift
<1>5. CASE Reopen
  BY <1>5, OpenedSome DEF Reopen
<1>6. CASE CloseOld
  BY <1>6 DEF CloseOld
<1>7. CASE SpuriousWakeup
  BY <1>7 DEF SpuriousWakeup
<1>8. CASE CurrentWrites
  BY <1>8 DEF CurrentWrites
<1>9. CASE OldWrites
  BY <1>9 DEF OldWrites
<1>10. ASSUME NEW w \in Writers, WriteEnters(w)  PROVE Control'
  BY <1>10 DEF WriteEnters, TypeOK
<1>11. ASSUME NEW w \in Writers, Write(w)  PROVE Control'
  BY <1>11 DEF Write, Notified, TypeOK
<1>12. CASE Open
  <2>1. current' # None
    BY <1>12, OpenedSome DEF Open
  <2>2. rotator = "off"
    BY <1>12 DEF Open
  <2>3. rotator' # "off" => tid' = "live"
    <3>1. PICK running \in Probe(tid), created \in CreateOutcomes :
            /\ tid' = Started(tid, running, created)
            /\ rotator' = IF ~running /\ created THEN "check" ELSE rotator
      BY <1>12 DEF Open
    <3>2. running \in BOOLEAN /\ created \in BOOLEAN
      BY ProbeType, HandleAssumption DEF HandleAssumption
    <3> QED BY <2>2, <3>1, <3>2 DEF Started
  <2> QED BY <1>12, <2>1, <2>2, <2>3 DEF Open
<1>13. CASE CloseRaisesStop
  BY <1>13 DEF CloseRaisesStop, Notified
<1>14. CASE CloseProbes
  BY <1>14, ProbeType DEF CloseProbes, AfterProbe
<1>15. CASE CloseJoins
  BY <1>15 DEF CloseJoins, JoinReturns
<1>16. CASE CloseCurrent
  BY <1>16 DEF CloseCurrent
<1>17. CASE Crash
  BY <1>17 DEF Crash
<1>18. CASE UNCHANGED vars
  BY <1>18 DEF vars
<1> QED
  BY <1>1, <1>2, <1>3, <1>4, <1>5, <1>6, <1>7, <1>8, <1>9, <1>10, <1>11, <1>12,
     <1>13, <1>14, <1>15, <1>16, <1>17, <1>18
     DEF Next, Rotator, Close, Finished
-----------------------------------------------------------------------------
(* The counters, and that every inode, name and message is within its bound *)

\* The writers that are inside are finitely many.
LEMMA InsideFinite == IsFiniteSet(Inside) /\ Cardinality(Inside) \in Nat
<1>1. Inside \in SUBSET Writers /\ IsFiniteSet(Writers)
  BY CLogAssumption DEF CLogAssumption, Inside
<1>2. IsFiniteSet(Inside)
  BY <1>1, FS_Subset
<1> QED BY <1>2, FS_CardinalityType

\* A rotation finds a free suffix, the first one, and no name beyond the number
\* of rotations is taken.
LEMMA FirstFreeFound ==
  ASSUME TypeOK, Counted, rotations < MaxRotations
  PROVE  /\ FirstFree \in Names \ {0} /\ dir[FirstFree] = None
         /\ FirstFree <= rotations + 1
<1> DEFINE Free == {n \in Names \ {0} : dir[n] = None}
<1>1. /\ rotations \in Nat /\ rotations + 1 \in Names \ {0}
      /\ \A n \in Names \ {0} : n \in Nat
  BY Numbers DEF TypeOK, Names
<1>2. dir[rotations + 1] = None
  BY <1>1 DEF Counted
<1>3. Free \in SUBSET Nat /\ Free # {}
  BY <1>1, <1>2
<1>4. PICK n \in Free : \A m \in Free : n <= m
  <2> HIDE DEF Free
  <2> QED BY <1>3, Least
<1>5. \A m \in 1 .. n - 1 : dir[m] # None
  <2> SUFFICES ASSUME NEW m \in 1 .. n - 1, dir[m] = None  PROVE FALSE
    OBVIOUS
  <2>1. m \in Names \ {0} /\ m < n
    BY <1>1, <1>4, Numbers DEF Names
  <2> QED BY <1>1, <1>4, <2>1
<1>6. /\ FirstFree \in Names \ {0} /\ dir[FirstFree] = None
      /\ \A m \in 1 .. FirstFree - 1 : dir[m] # None
  BY <1>4, <1>5 DEF FirstFree
<1>7. FirstFree <= rotations + 1
  BY <1>1, <1>2, <1>6
<1> QED BY <1>6, <1>7

\* The inode that open() or a rotation opens exists, and is a new one whenever
\* `filename` does not exist, as in a rotation.
LEMMA OpenedBound ==
  ASSUME TypeOK, Counted, Disk,
         \/ rotator = "reopen"
         \/ opens < MaxOpens
  PROVE  /\ OpenedInode \in Inodes
         /\ Created => OpenedInode = inodes + 1
         /\ rotator = "reopen" => Created
<1>1. /\ inodes \in Nat /\ opens \in Nat /\ rotations \in Nat
      /\ opens <= MaxOpens /\ rotations <= MaxRotations
      /\ dir[0] \in Inodes \cup {None}
  BY Numbers DEF TypeOK
<1>2. inodes + 1 \in Inodes
  BY <1>1, Numbers DEF Counted, Inodes
<1> QED BY <1>1, <1>2 DEF OpenedInode, Created, Disk

\* The counters keep to their bounds in every step.
LEMMA CountedStep == TypeOK /\ Control /\ Counted /\ Disk /\ [Next]_vars => Counted'
<1> SUFFICES ASSUME TypeOK, Control, Counted, Disk, [Next]_vars  PROVE Counted'
  OBVIOUS
<1> USE DEF Counted, files, currentVars, oldVars, flags, counters
<1>0. /\ inodes \in Nat /\ opens \in Nat /\ rotations \in Nat /\ accepted \in Nat
      /\ \A n \in Names : n \in Nat
      /\ shift \in Names
      /\ dir \in [Names -> Inodes \cup {None}]
  BY Numbers DEF TypeOK
<1>a. UNCHANGED writing => Inside' = Inside
  BY DEF Inside
<1>1. CASE RotatorSleeps
  BY <1>1, <1>a DEF RotatorSleeps
<1>2. CASE RotatorReturns
  BY <1>2, <1>a DEF RotatorReturns
<1>3. CASE RotationStarts
  <2>1. FirstFree \in Nat \ {0} /\ FirstFree <= rotations + 1
    BY <1>0, <1>3, FirstFreeFound DEF RotationStarts
  <2>2. FirstShift + 1 <= rotations + 1
    BY <1>0, <2>1 DEF FirstShift
  <2> QED BY <1>0, <1>3, <1>a, <2>2 DEF RotationStarts
<1>4. CASE Shift
  <2>1. \A n \in Names : dir'[n] # None => n <= rotations
    BY <1>0, <1>4, Numbers DEF Shift, Rename
  <2>2. rotator' = "shift" => shift' + 1 <= rotations
    BY <1>0, <1>4 DEF Shift
  <2> QED BY <1>0, <1>4, <1>a, <2>1, <2>2 DEF Shift
<1>5. CASE Reopen
  <2>1. inodes' <= opens + rotations
    BY <1>0, <1>5 DEF Reopen, FopenCurrent
  <2>2. \A n \in Names : dir'[n] # None => n <= rotations
    <3>1. \A n \in Names : dir'[n] = dir[n] \/ n = 0
      BY <1>0, <1>5 DEF Reopen, FopenCurrent
    <3> QED BY <1>0, <3>1
  <2> QED BY <1>5, <1>a, <2>1, <2>2 DEF Reopen
<1>6. CASE CloseOld
  BY <1>6, <1>a DEF CloseOld
<1>7. CASE SpuriousWakeup
  BY <1>7, <1>a DEF SpuriousWakeup
<1>8. CASE CurrentWrites
  BY <1>8, <1>a DEF CurrentWrites
<1>9. CASE OldWrites
  BY <1>9, <1>a DEF OldWrites
<1>10. ASSUME NEW w \in Writers, WriteEnters(w)  PROVE Counted'
  <2>1. Inside' = Inside \cup {w}
    BY <1>10 DEF WriteEnters, Inside, TypeOK
  <2>2. /\ Cardinality(Inside \cup {w}) <= Cardinality(Inside) + 1
        /\ Cardinality(Inside \cup {w}) \in Nat
    <3>1. Cardinality(Inside \cup {w}) =
            IF w \in Inside THEN Cardinality(Inside) ELSE Cardinality(Inside) + 1
      BY InsideFinite, FS_AddElement
    <3> QED BY <3>1, InsideFinite
  <2>3. accepted + Cardinality(Inside) < MaxWrites
    BY <1>10 DEF WriteEnters, Inside
  <2>4. accepted' + Cardinality(Inside') <= MaxWrites
    BY <1>0, <1>10, <2>1, <2>2, <2>3, InsideFinite, Numbers DEF WriteEnters
  <2> QED BY <1>10, <2>4 DEF WriteEnters
<1>11. ASSUME NEW w \in Writers, Write(w)  PROVE Counted'
  <2>1. Inside' = Inside \ {w} /\ w \in Inside
    BY <1>11 DEF Write, Inside, TypeOK
  <2>2. Cardinality(Inside \ {w}) = Cardinality(Inside) - 1
    BY <2>1, InsideFinite, FS_RemoveElement
  <2>3. accepted' + Cardinality(Inside') <= MaxWrites
    BY <1>0, <1>11, <2>1, <2>2, InsideFinite, Numbers DEF Write
  <2>4. rotator' \in {"shift", "reopen"} => rotator \in {"shift", "reopen"}
    BY <1>11 DEF Write, Notified
  <2>5. rotator' = "shift" => rotator = "shift"
    BY <1>11 DEF Write, Notified
  <2> QED BY <1>11, <2>3, <2>4, <2>5 DEF Write
<1>12. CASE Open
  <2>1. inodes' <= opens' + rotations'
    BY <1>0, <1>12 DEF Open, FopenCurrent
  <2>2. \A n \in Names : dir'[n] # None => n <= rotations
    <3>1. \A n \in Names : dir'[n] = dir[n] \/ n = 0
      BY <1>0, <1>12 DEF Open, FopenCurrent
    <3> QED BY <1>0, <3>1
  <2>3. rotator' \notin {"shift", "reopen"}
    BY <1>12 DEF Open, Control, RotatorBelongs
  <2> QED BY <1>12, <1>a, <2>1, <2>2, <2>3 DEF Open
<1>13. CASE CloseRaisesStop
  BY <1>13, <1>a DEF CloseRaisesStop, Notified
<1>14. CASE CloseProbes
  BY <1>14, <1>a DEF CloseProbes
<1>15. CASE CloseJoins
  BY <1>15, <1>a DEF CloseJoins
<1>16. CASE CloseCurrent
  BY <1>16, <1>a DEF CloseCurrent
<1>17. CASE Crash
  <2>1. Inside' = {}
    BY <1>17 DEF Crash, Inside
  <2>2. accepted' + Cardinality(Inside') <= MaxWrites
    BY <1>0, <1>17, <2>1, FS_EmptySet, InsideFinite, Numbers DEF Crash
  <2> QED BY <1>17, <2>2 DEF Crash
<1>18. CASE UNCHANGED vars
  BY <1>18, <1>a DEF vars
<1> QED
  BY <1>1, <1>2, <1>3, <1>4, <1>5, <1>6, <1>7, <1>8, <1>9, <1>10, <1>11, <1>12,
     <1>13, <1>14, <1>15, <1>16, <1>17, <1>18
     DEF Next, Rotator, Close, Finished
-----------------------------------------------------------------------------
(* Type correctness *)

\* Every variable has its type in every step.
LEMMA TypeStep ==
  TypeOK /\ Control /\ Counted /\ Disk /\ Counted' /\ [Next]_vars => TypeOK'
<1> SUFFICES ASSUME TypeOK, Control, Counted, Disk, Counted', [Next]_vars
             PROVE  TypeOK'
  OBVIOUS
<1> USE DEF TypeOK, files, currentVars, oldVars, flags, counters, RotatorStates,
            OwnerStates
<1>1. CASE RotatorSleeps
  BY <1>1 DEF RotatorSleeps
<1>2. CASE RotatorReturns
  BY <1>2, HandleType DEF RotatorReturns
<1>3. CASE RotationStarts
  <2>1. shift' \in Names
    BY <1>3, FirstFreeFound, Numbers, SMTT(30) DEF RotationStarts, FirstShift, Names
  <2>2. rotations' \in 0 .. MaxRotations
    BY <1>3, Numbers DEF RotationStarts
  <2> QED BY <1>3, <2>1, <2>2 DEF RotationStarts
<1>4. CASE Shift
  <2>1. shift + 1 \in Names
    BY <1>4, Numbers DEF Shift, Counted, Names
  <2>2. dir' \in [Names -> Inodes \cup {None}]
    BY <1>4, <2>1 DEF Shift, Rename
  <2>3. shift' \in Names
    BY <1>4, Numbers DEF Shift, Names
  <2>4. rotate_at_first' \in BOOLEAN
    BY <1>4, Zenon DEF Shift
  <2>5. rotator' \in RotatorStates
    BY <1>4 DEF Shift
  <2> QED BY <1>4, <2>2, <2>3, <2>4, <2>5 DEF Shift
<1>5. CASE Reopen
  <2>1. OpenedInode \in Inodes
    BY <1>5, OpenedBound DEF Reopen
  <2>2. lost' \in SUBSET (1 .. MaxWrites)
    BY <1>5, ItemsIn DEF Reopen
  <2>3. currentOpen' \in BOOLEAN
    BY <1>5, CLogAssumption, Zenon DEF Reopen, CLogAssumption
  <2>4. /\ dir' \in [Names -> Inodes \cup {None}]
        /\ content' \in [Inodes -> Seq(1 .. MaxWrites)]
        /\ inodes' \in 0 .. MaxOpens + MaxRotations
    <3>1. CASE FopenCurrent /\ FopenEmpties
      <4>1. dir' \in [Names -> Inodes \cup {None}]
        BY <2>1, <3>1 DEF FopenCurrent
      <4>2. content' \in [Inodes -> Seq(1 .. MaxWrites)]
        BY <3>1, EmptySeq DEF FopenEmpties
      <4>3. inodes' \in 0 .. MaxOpens + MaxRotations
        BY <2>1, <3>1, Numbers DEF FopenCurrent, OpenedInode, Inodes
      <4> QED BY <4>1, <4>2, <4>3
    <3>2. CASE UNCHANGED files
      BY <3>2
    <3> QED BY <1>5, <3>1, <3>2 DEF Reopen
  <2>5. currentQueue' \in Seq(1 .. MaxWrites) /\ oldQueue' \in Seq(1 .. MaxWrites)
    BY <1>5, EmptySeq DEF Reopen
  <2> QED BY <1>5, <2>1, <2>2, <2>3, <2>4, <2>5 DEF Reopen
<1>6. CASE CloseOld
  BY <1>6, EmptySeq DEF CloseOld
<1>7. CASE SpuriousWakeup
  BY <1>7 DEF SpuriousWakeup
<1>8. CASE CurrentWrites
  <2>1. PICK k \in 1 .. Len(currentQueue) :
          /\ content' = [content EXCEPT ![current] =
                           @ \o SubSeq(currentQueue, 1, k)]
          /\ currentQueue' = SubSeq(currentQueue, k + 1, Len(currentQueue))
    BY <1>8 DEF CurrentWrites
  <2>2. /\ SubSeq(currentQueue, 1, k) \in Seq(1 .. MaxWrites)
        /\ currentQueue' \in Seq(1 .. MaxWrites)
    BY <2>1, CutType
  <2>3. content' \in [Inodes -> Seq(1 .. MaxWrites)]
    BY <2>1, <2>2, ConcatProperties
  <2> QED BY <1>8, <2>2, <2>3 DEF CurrentWrites
<1>9. CASE OldWrites
  <2>1. PICK k \in 1 .. Len(oldQueue) :
          /\ content' = [content EXCEPT ![old] = @ \o SubSeq(oldQueue, 1, k)]
          /\ oldQueue' = SubSeq(oldQueue, k + 1, Len(oldQueue))
    BY <1>9 DEF OldWrites
  <2>2. /\ SubSeq(oldQueue, 1, k) \in Seq(1 .. MaxWrites)
        /\ oldQueue' \in Seq(1 .. MaxWrites)
    BY <2>1, CutType
  <2>3. content' \in [Inodes -> Seq(1 .. MaxWrites)]
    BY <2>1, <2>2, ConcatProperties
  <2> QED BY <1>9, <2>2, <2>3, SMTT(40) DEF OldWrites
<1>10. ASSUME NEW w \in Writers, WriteEnters(w)  PROVE TypeOK'
  BY <1>10 DEF WriteEnters
<1>11. ASSUME NEW w \in Writers, Write(w)  PROVE TypeOK'
  <2>1. accepted + 1 \in 1 .. MaxWrites
    <3>1. Cardinality(Inside)' \in Nat
      <4>1. Inside' \in SUBSET Writers /\ IsFiniteSet(Writers)
        BY CLogAssumption DEF CLogAssumption, Inside
      <4> QED BY <4>1, FS_Subset, FS_CardinalityType
    <3>2. accepted + 1 + Cardinality(Inside)' <= MaxWrites
      BY <1>11 DEF Counted, Write
    <3> QED BY <3>1, <3>2, Numbers
  <2>2. currentQueue' \in Seq(1 .. MaxWrites)
    BY <1>11, <2>1, AppendProperties DEF Write
  <2>3. accepted' \in 0 .. MaxWrites
    BY <1>11, <2>1, Numbers DEF Write
  <2>4. rotator' \in RotatorStates
    BY <1>11 DEF Write, Notified
  <2> QED BY <1>11, <2>2, <2>3, <2>4 DEF Write
<1>12. CASE Open
  <2>1. OpenedInode \in Inodes
    BY <1>12, OpenedBound DEF Open
  <2>2. tid' \in HandleStates /\ rotator' \in RotatorStates
    BY <1>12, HandleType, ProbeType, HandleAssumption DEF Open, HandleAssumption
  <2>3. /\ dir' \in [Names -> Inodes \cup {None}]
        /\ inodes' \in 0 .. MaxOpens + MaxRotations
    <3>1. dir' \in [Names -> Inodes \cup {None}]
      BY <1>12, <2>1 DEF Open, FopenCurrent
    <3>2. inodes' \in 0 .. MaxOpens + MaxRotations
      BY <1>12, <2>1, Numbers DEF Open, FopenCurrent, OpenedInode, Inodes
    <3> QED BY <3>1, <3>2
  <2>4. currentOpen' \in BOOLEAN /\ stop_flag' \in BOOLEAN /\ rotate_at_first' \in BOOLEAN
    BY <1>12, CLogAssumption, Zenon DEF Open, CLogAssumption
  <2>5. opens' \in 0 .. MaxOpens /\ currentQueue' \in Seq(1 .. MaxWrites)
    BY <1>12, EmptySeq, Numbers DEF Open
  <2> QED BY <1>12, <2>1, <2>2, <2>3, <2>4, <2>5 DEF Open
<1>13. CASE CloseRaisesStop
  <2>1. stop_flag' \in BOOLEAN
    BY <1>13, Zenon DEF CloseRaisesStop
  <2>2. rotator' \in RotatorStates /\ owner' \in OwnerStates
    BY <1>13 DEF CloseRaisesStop, Notified
  <2> QED BY <1>13, <2>1, <2>2 DEF CloseRaisesStop
<1>14. CASE CloseProbes
  BY <1>14, HandleType, ProbeType DEF CloseProbes
<1>15. CASE CloseJoins
  BY <1>15, HandleType DEF CloseJoins
<1>16. CASE CloseCurrent
  <2>1. lost' \in SUBSET (1 .. MaxWrites)
    BY <1>16, ItemsIn DEF CloseCurrent
  <2>2. currentOpen' \in BOOLEAN
    BY <1>16, Zenon DEF CloseCurrent
  <2> QED BY <1>16, <2>1, <2>2, EmptySeq DEF CloseCurrent
<1>17. CASE Crash
  <2>1. lost' \in SUBSET (1 .. MaxWrites)
    BY <1>17, ItemsIn DEF Crash
  <2>2. currentOpen' \in BOOLEAN /\ stop_flag' \in BOOLEAN /\ rotate_at_first' \in BOOLEAN
    BY <1>17, Zenon DEF Crash
  <2>3. writing' \in [Writers -> BOOLEAN]
    BY <1>17 DEF Crash
  <2>4. shift' \in Names /\ crashes' \in 0 .. MaxCrashes /\ tid' \in HandleStates
    BY <1>17, Numbers DEF Crash, HandleStates
  <2> QED BY <1>17, <2>1, <2>2, <2>3, <2>4, EmptySeq DEF Crash
<1>18. CASE UNCHANGED vars
  BY <1>18 DEF vars
<1> QED
  BY <1>1, <1>2, <1>3, <1>4, <1>5, <1>6, <1>7, <1>8, <1>9, <1>10, <1>11, <1>12,
     <1>13, <1>14, <1>15, <1>16, <1>17, <1>18
     DEF Next, Rotator, Close, Finished
-----------------------------------------------------------------------------
(* Names and files *)

\* Names, inodes and proxies stay as they should in every step.
LEMMA DiskStep == TypeOK /\ Control /\ Counted /\ Disk /\ [Next]_vars => Disk'
<1> SUFFICES ASSUME TypeOK, Control, Counted, Disk, [Next]_vars  PROVE Disk'
  OBVIOUS
<1> USE DEF Disk, NeverOverwrites, CurrentName, files, currentVars, oldVars, flags,
            counters
<1>0. /\ inodes \in Nat /\ dir \in [Names -> Inodes \cup {None}]
      /\ content \in [Inodes -> Seq(1 .. MaxWrites)]
      /\ shift \in Names
      /\ \A n \in Names : n \in Nat /\ dir[n] \in Nat
  <2>1. /\ inodes \in Nat /\ dir \in [Names -> Inodes \cup {None}]
        /\ content \in [Inodes -> Seq(1 .. MaxWrites)] /\ shift \in Names
    BY Numbers DEF TypeOK
  <2> QED BY <2>1, Numbers
<1>1. CASE RotatorSleeps
  BY <1>1 DEF RotatorSleeps
<1>2. CASE RotatorReturns
  BY <1>2 DEF RotatorReturns
<1>3. CASE RotationStarts
  <2>1. dir[shift' + 1] = None
    <3>1. FirstFree \in Nat \ {0} /\ dir[FirstFree] = None
      BY <1>0, <1>3, FirstFreeFound DEF RotationStarts
    <3>2. shift' + 1 = FirstFree
      BY <1>3, <3>1 DEF RotationStarts, FirstShift
    <3> QED BY <3>1, <3>2
  <2> QED BY <1>3, <2>1 DEF RotationStarts
<1>4. CASE Shift
  <2>1. shift \in Names /\ shift + 1 \in Names /\ shift \in Nat
    BY <1>0, <1>4, Numbers DEF Shift, Counted, TypeOK, Names
  <2>2. dir[shift + 1] = None
    BY <1>4 DEF Shift
  <2>3. \A n \in Names : dir'[n] = IF n = shift THEN None
                                ELSE IF n = shift + 1 THEN dir[shift] ELSE dir[n]
    BY <1>0, <1>4, <2>1, <2>2 DEF Shift, Rename
  <2>4. \A n, m \in Names : dir'[n] # None /\ dir'[n] = dir'[m] => n = m
    BY <2>1, <2>2, <2>3
  <2>5. \A n \in Names : dir'[n] <= inodes
    BY <1>0, <2>1, <2>3 DEF None
  <2>6. NeverOverwrites' /\ (rotator' = "reopen" => dir'[0] = None)
    <3>1. CASE shift = 0
      BY <1>4, <2>1, <2>3, <3>1 DEF Shift
    <3>2. CASE shift # 0
      <4>1. shift' = shift - 1 /\ rotator' = rotator /\ shift' + 1 = shift
        BY <1>4, <2>1, <3>2 DEF Shift
      <4> QED BY <1>4, <2>1, <2>3, <4>1 DEF Shift
    <3> QED BY <3>1, <3>2
  <2>7. currentOpen => dir'[CurrentName'] = current
    <3>1. CASE shift = 0
      BY <1>4, <2>1, <2>3, <3>1, Numbers DEF Shift
    <3>2. CASE shift # 0
      BY <1>4, <2>1, <2>3, <3>2, Numbers DEF Shift
    <3> QED BY <3>1, <3>2
  <2>8. oldQueue = <<>>
    BY <1>4 DEF Shift, Control
  <2> QED BY <1>4, <2>4, <2>5, <2>6, <2>7, <2>8 DEF Shift
<1>5. CASE Reopen
  <2>1. OpenedInode = inodes + 1 /\ dir[0] = None /\ inodes + 1 \in Inodes
    BY <1>5, OpenedBound DEF Reopen, Created
  <2>2. oldQueue' # <<>> => old' # None /\ dir[1] = old'
    BY <1>5 DEF Reopen
  <2>3. CASE UNCHANGED files /\ ~currentOpen'
    BY <1>5, <2>2, <2>3 DEF Reopen
  <2>4. CASE FopenCurrent /\ FopenEmpties
    <3>1. inodes' = inodes + 1
      BY <2>1, <2>4 DEF FopenCurrent, Created
    <3>2. \A n \in Names : dir'[n] = IF n = 0 THEN inodes + 1 ELSE dir[n]
      BY <1>0, <2>1, <2>4 DEF FopenCurrent
    <3>3. \A f \in Inodes : f > inodes' => content'[f] = <<>>
      BY <1>0, <2>1, <2>4, <3>1, Numbers DEF FopenEmpties
    <3>4. \A n \in Names : dir'[n] <= inodes'
      BY <1>0, <3>1, <3>2
    <3>5. \A n, m \in Names : dir'[n] # None /\ dir'[n] = dir'[m] => n = m
      BY <1>0, <3>2
    <3>6. dir'[0] = current' /\ current' # None /\ dir'[1] = dir[1]
      BY <1>0, <1>5, <2>1, <3>2, Numbers DEF Reopen
    <3> QED BY <1>5, <2>2, <3>3, <3>4, <3>5, <3>6 DEF Reopen
  <2> QED BY <1>5, <2>3, <2>4 DEF Reopen
<1>6. CASE CloseOld
  BY <1>6 DEF CloseOld
<1>7. CASE SpuriousWakeup
  BY <1>7 DEF SpuriousWakeup
<1>8. CASE CurrentWrites
  <2>1. current \in Nat /\ current <= inodes
    BY <1>0, <1>8, Numbers DEF CurrentWrites
  <2>2. \A f \in Inodes : f # current => content'[f] = content[f]
    BY <1>0, <1>8 DEF CurrentWrites
  <2>3. \A f \in Inodes : f > inodes => f # current
    BY <1>0, <2>1, Numbers
  <2>4. \A f \in Inodes : f > inodes => content'[f] = <<>>
    BY <2>2, <2>3
  <2> QED BY <1>8, <2>4 DEF CurrentWrites
<1>9. CASE OldWrites
  <2>1. oldQueue # <<>>
    BY <1>9 DEF OldWrites
  <2>2. old \in Nat /\ old <= inodes
    BY <1>0, <2>1, Numbers
  <2>3. \A f \in Inodes : f # old => content'[f] = content[f]
    BY <1>0, <1>9 DEF OldWrites
  <2>4. \A f \in Inodes : f > inodes => f # old
    BY <1>0, <2>2, Numbers
  <2>5. \A f \in Inodes : f > inodes => content'[f] = <<>>
    BY <2>3, <2>4
  <2> QED BY <1>9, <2>1, <2>5 DEF OldWrites
<1>10. ASSUME NEW w \in Writers, WriteEnters(w)  PROVE Disk'
  BY <1>10 DEF WriteEnters
<1>11. ASSUME NEW w \in Writers, Write(w)  PROVE Disk'
  BY <1>11 DEF Write, Notified
<1>12. CASE Open
  <2>1. /\ OpenedInode \in Inodes /\ OpenedInode # None /\ OpenedInode <= inodes'
        /\ inodes' \in Nat /\ inodes <= inodes'
    BY <1>0, <1>12, OpenedBound, Numbers
       DEF Open, FopenCurrent, OpenedInode, Created
  <2>2. \A n \in Names : dir'[n] = IF n = 0 THEN OpenedInode ELSE dir[n]
    BY <1>0, <1>12 DEF Open, FopenCurrent
  <2>3. \A n \in Names : dir[n] # None /\ dir[n] = OpenedInode => n = 0
    BY <1>0, Numbers DEF OpenedInode, Created
  <2>4. \A n, m \in Names : dir'[n] # None /\ dir'[n] = dir'[m] => n = m
    BY <2>1, <2>2, <2>3
  <2>5. \A n \in Names : dir'[n] <= inodes'
    BY <1>0, <2>1, <2>2
  <2>6. \A f \in Inodes : f > inodes' => content'[f] = <<>>
    BY <1>0, <1>12, <2>1, Numbers DEF Open
  <2>7. oldQueue' = <<>> /\ rotator' \notin {"shift", "reopen"}
    BY <1>12 DEF Open, Control, RotatorBelongs
  <2>8. current' # None /\ dir'[0] = current'
    BY <1>12, <2>1, <2>2, Numbers DEF Open
  <2> QED BY <2>4, <2>5, <2>6, <2>7, <2>8
<1>13. CASE CloseRaisesStop
  BY <1>13 DEF CloseRaisesStop, Notified
<1>14. CASE CloseProbes
  BY <1>14 DEF CloseProbes
<1>15. CASE CloseJoins
  BY <1>15 DEF CloseJoins
<1>16. CASE CloseCurrent
  BY <1>16 DEF CloseCurrent
<1>17. CASE Crash
  BY <1>17 DEF Crash
<1>18. CASE UNCHANGED vars
  BY <1>18 DEF vars
<1> QED
  BY <1>1, <1>2, <1>3, <1>4, <1>5, <1>6, <1>7, <1>8, <1>9, <1>10, <1>11, <1>12,
     <1>13, <1>14, <1>15, <1>16, <1>17, <1>18
     DEF Next, Rotator, Close, Finished
-----------------------------------------------------------------------------
(* The messages and their order *)

\* A message is in the files when a name's file has it.
LEMMA InFilesItems ==
  /\ \A x : x \in InFiles <=> \E n \in Names : x \in FileItems(n)
  /\ \A x : x \in InFiles' <=> \E n \in Names : x \in FileItems(n)'
<1>1. \A x : x \in InFiles <=> \E n \in Names : x \in FileItems(n)
  BY DEF InFiles, FileItems
<1>2. \A x : x \in InFiles' <=> \E n \in Names : x \in FileItems(n)'
  BY DEF InFiles, FileItems
<1> QED BY <1>1, <1>2

\* Files and queues are sequences of numbers.
LEMMA Sequences ==
  ASSUME TypeOK
  PROVE  /\ \A f \in Inodes : content[f] \in Seq(Nat)
         /\ currentQueue \in Seq(Nat) /\ oldQueue \in Seq(Nat)
         /\ \A n \in Names : dir[n] \in Inodes \cup {None}
         /\ \A n \in Names : dir[n] # None => content[dir[n]] \in Seq(Nat)
<1>1. \A s : s \in Seq(1 .. MaxWrites) => s \in Seq(Nat)
  BY Numbers
<1> QED BY <1>1 DEF TypeOK

\* What stays when neither names nor files nor queues change.
LEMMA OrderSame ==
  ASSUME Order, UNCHANGED <<dir, content, currentQueue, oldQueue>>
  PROVE  Order'
BY DEF Order, FileItems

\* Where no message moves, none is lost.
LEMMA LoggedSame ==
  ASSUME AllLogged,
         UNCHANGED <<dir, content, currentQueue, oldQueue, lost, accepted>>
  PROVE  AllLogged' /\ InFiles \subseteq InFiles'
BY DEF AllLogged, InFiles

\* Some messages of fwriter_current reach its file.
LEMMA CurrentWritesOrder ==
  ASSUME TypeOK, Control, Disk, Order, AllLogged, CurrentWrites
  PROVE  Order' /\ AllLogged' /\ InFiles \subseteq InFiles'
<1> DEFINE c == CurrentName
<1>1. PICK front \in Seq(Nat), rest \in Seq(Nat) :
        /\ content' = [content EXCEPT ![current] = @ \o front]
        /\ currentQueue' = rest
        /\ Items(currentQueue) = Items(front) \cup Items(rest)
        /\ Increasing(front) /\ Increasing(rest)
        /\ Before(Items(front), Items(rest))
  <2>1. PICK k \in 1 .. Len(currentQueue) :
          /\ content' = [content EXCEPT ![current] =
                           @ \o SubSeq(currentQueue, 1, k)]
          /\ currentQueue' = SubSeq(currentQueue, k + 1, Len(currentQueue))
    BY DEF CurrentWrites
  <2>2. currentQueue \in Seq(Nat) /\ Increasing(currentQueue)
    BY Sequences DEF Order
  <2>3. PICK front, rest \in Seq(Nat) :
          /\ front = SubSeq(currentQueue, 1, k)
          /\ rest = SubSeq(currentQueue, k + 1, Len(currentQueue))
          /\ Items(currentQueue) = Items(front) \cup Items(rest)
          /\ Increasing(front) /\ Increasing(rest)
          /\ Before(Items(front), Items(rest))
    BY <2>2, IncreasingCut, ZenonT(90)
  <2> QED BY <2>1, <2>3, Zenon
<1>2. /\ c \in Names /\ dir[c] = current /\ current # None /\ current \in Inodes
      /\ c \in {0, 1} /\ (c = 1 => dir[0] = None /\ oldQueue = <<>>)
  BY Sequences, Numbers DEF CurrentWrites, CurrentName, Disk, Control
<1>3. UNCHANGED <<dir, oldQueue, lost, accepted>>
  BY DEF CurrentWrites, oldVars
<1>4. \A n \in Names : dir[n] # None /\ n # c => content'[dir[n]] = content[dir[n]]
  BY <1>1, <1>2, Sequences DEF Disk, TypeOK
<1>5. content[current] \in Seq(Nat) /\ content'[current] = content[current] \o front
  BY <1>1, <1>2, Sequences DEF TypeOK
<1>6. \A n \in Names : FileItems(n)' = IF n = c THEN FileItems(n) \cup Items(front)
                                              ELSE FileItems(n)
  <2>1. Items(content[current] \o front) = Items(content[current]) \cup Items(front)
    BY <1>5, ItemsConcat
  <2> QED BY <1>2, <1>3, <1>4, <1>5, <2>1 DEF FileItems
<1>7. \A n \in Names : dir'[n] # None => Increasing(content'[dir'[n]])
  <2>1. Before(Items(content[current]), Items(front))
    BY <1>1, <1>2 DEF Order, FileItems, Before
  <2>2. Increasing(content[current])
    BY <1>2 DEF Order
  <2>3. Increasing(content'[current])
    BY <1>1, <1>5, <2>1, <2>2, IncreasingJoin
  <2> QED BY <1>2, <1>3, <1>4, <2>3 DEF Order
<1> HIDE DEF c
<1>8. ASSUME NEW n \in Names, NEW m \in Names, n < m
      PROVE  Before(FileItems(m), FileItems(n))'
  <2>1. Before(FileItems(m), FileItems(n)) /\ Before(FileItems(m), Items(front))
    BY <1>1, <1>8 DEF Order, Before
  <2>2. CASE m = c
    <3>1. n = 0 /\ c = 1
      BY <1>2, <1>8, <2>2, Numbers
    <3>2. FileItems(n)' = {}
      BY <1>2, <1>3, <3>1 DEF FileItems
    <3> QED BY <3>2 DEF Before
  <2>3. CASE m # c
    BY <1>6, <2>1, <2>3 DEF Before
  <2> QED BY <2>2, <2>3
<1>9. ASSUME NEW n \in Names  PROVE Before(FileItems(n), Items(currentQueue))'
  BY <1>1, <1>6 DEF Order, Before
<1>10. ASSUME NEW n \in Names \ {0}  PROVE Before(FileItems(n), Items(oldQueue))'
  <2>1. CASE c = 1
    BY <1>2, <1>3, <2>1, ItemsEmpty DEF Before
  <2>2. CASE c = 0
    BY <1>3, <1>6, <2>2 DEF Order
  <2> QED BY <1>2, <2>1, <2>2
<1>11. Before(Items(oldQueue), FileItems(0))' /\ Before(Items(oldQueue), Items(currentQueue))'
  BY <1>1, <1>3, <1>6, Numbers DEF Order, Before
<1>12. AllLogged' /\ InFiles \subseteq InFiles'
  <2>1. \A x : x \in InFiles' <=> x \in InFiles \/ x \in Items(front)
    BY <1>2, <1>6, InFilesItems
  <2> QED BY <1>1, <1>3, <2>1 DEF AllLogged
<1> QED BY <1>1, <1>3, <1>7, <1>8, <1>9, <1>10, <1>11, <1>12 DEF Order

\* Some messages of the replaced proxy reach its file, which is name 1 by then.
LEMMA OldWritesOrder ==
  ASSUME TypeOK, Control, Disk, Order, AllLogged, OldWrites
  PROVE  Order' /\ AllLogged' /\ InFiles \subseteq InFiles'
<1>1. PICK front \in Seq(Nat), rest \in Seq(Nat) :
        /\ content' = [content EXCEPT ![old] = @ \o front]
        /\ oldQueue' = rest
        /\ Items(oldQueue) = Items(front) \cup Items(rest)
        /\ Increasing(front) /\ Increasing(rest)
        /\ Before(Items(front), Items(rest))
  <2>1. PICK k \in 1 .. Len(oldQueue) :
          /\ content' = [content EXCEPT ![old] = @ \o SubSeq(oldQueue, 1, k)]
          /\ oldQueue' = SubSeq(oldQueue, k + 1, Len(oldQueue))
    BY DEF OldWrites
  <2>2. oldQueue \in Seq(Nat) /\ Increasing(oldQueue)
    BY Sequences DEF Order
  <2>3. PICK front, rest \in Seq(Nat) :
          /\ front = SubSeq(oldQueue, 1, k)
          /\ rest = SubSeq(oldQueue, k + 1, Len(oldQueue))
          /\ Items(oldQueue) = Items(front) \cup Items(rest)
          /\ Increasing(front) /\ Increasing(rest)
          /\ Before(Items(front), Items(rest))
    BY <2>2, IncreasingCut, ZenonT(90)
  <2> QED BY <2>1, <2>3, Zenon
<1>2. 1 \in Names /\ dir[1] = old /\ old # None /\ old \in Inodes
  <2>1. oldQueue # <<>>
    BY DEF OldWrites
  <2> QED BY <2>1, Sequences, Numbers DEF Disk
<1>3. UNCHANGED <<dir, currentQueue, lost, accepted>>
  BY DEF OldWrites, currentVars
<1>4. \A n \in Names : dir[n] # None /\ n # 1 => content'[dir[n]] = content[dir[n]]
  BY <1>1, <1>2, Sequences DEF Disk, TypeOK
<1>5. content[old] \in Seq(Nat) /\ content'[old] = content[old] \o front
  BY <1>1, <1>2, Sequences DEF TypeOK
<1>6. \A n \in Names : FileItems(n)' = IF n = 1 THEN FileItems(n) \cup Items(front)
                                              ELSE FileItems(n)
  <2>1. Items(content[old] \o front) = Items(content[old]) \cup Items(front)
    BY <1>5, ItemsConcat
  <2> QED BY <1>2, <1>3, <1>4, <1>5, <2>1 DEF FileItems
<1>7. \A n \in Names \ {0} : Before(FileItems(n), Items(front))
  BY <1>1 DEF Order, Before
<1>8. \A n \in Names : dir'[n] # None => Increasing(content'[dir'[n]])
  <2>1. Before(Items(content[old]), Items(front))
    BY <1>2, <1>7 DEF FileItems, Before
  <2>2. Increasing(content[old])
    BY <1>2 DEF Order
  <2>3. Increasing(content'[old])
    BY <1>1, <1>5, <2>1, <2>2, IncreasingJoin
  <2> QED BY <1>2, <1>3, <1>4, <2>3 DEF Order
<1>9. ASSUME NEW n \in Names, NEW m \in Names, n < m
      PROVE  Before(FileItems(m), FileItems(n))'
  <2>1. Before(FileItems(m), FileItems(n)) /\ m # 0
    BY <1>9, Numbers DEF Order
  <2>2. CASE m = 1
    <3>1. n = 0
      BY <1>9, <2>2, Numbers
    <3>2. Before(Items(front), FileItems(0))
      BY <1>1 DEF Order, Before
    <3> QED BY <1>6, <2>1, <2>2, <3>1, <3>2 DEF Before
  <2>3. CASE m # 1
    BY <1>6, <1>7, <2>1, <2>3 DEF Before
  <2> QED BY <2>2, <2>3
<1>10. ASSUME NEW n \in Names  PROVE Before(FileItems(n), Items(currentQueue))'
  BY <1>1, <1>3, <1>6 DEF Order, Before
<1>11. ASSUME NEW n \in Names \ {0}  PROVE Before(FileItems(n), Items(oldQueue))'
  BY <1>1, <1>6 DEF Order, Before
<1>12. Before(Items(oldQueue), FileItems(0))' /\ Before(Items(oldQueue), Items(currentQueue))'
  BY <1>1, <1>3, <1>6, Numbers DEF Order, Before
<1>13. AllLogged' /\ InFiles \subseteq InFiles'
  <2>1. \A x : x \in InFiles' <=> x \in InFiles \/ x \in Items(front)
    BY <1>2, <1>6, InFilesItems
  <2> QED BY <1>1, <1>3, <2>1 DEF AllLogged
<1> QED BY <1>1, <1>3, <1>8, <1>9, <1>10, <1>11, <1>12, <1>13 DEF Order

\* One rename: the file of a name gets the next name, which no file has.
LEMMA ShiftOrder ==
  ASSUME TypeOK, Control, Counted, Disk, Order, AllLogged, Shift
  PROVE  Order' /\ AllLogged' /\ InFiles \subseteq InFiles'
<1>1. shift \in Nat /\ shift \in Names /\ shift + 1 \in Names
  BY Numbers DEF Shift, Counted, TypeOK, Names
<1>2. dir[shift + 1] = None /\ oldQueue = <<>>
  BY DEF Shift, Disk, NeverOverwrites, Control
<1>3. \A n \in Names : dir'[n] = IF n = shift THEN None
                              ELSE IF n = shift + 1 THEN dir[shift] ELSE dir[n]
  BY <1>1, <1>2 DEF Shift, Rename, TypeOK
<1>4. UNCHANGED <<content, currentQueue, oldQueue, lost, accepted>>
  BY DEF Shift, currentVars, oldVars
<1>5. \A n \in Names : FileItems(n)' = IF n = shift THEN {}
                                    ELSE IF n = shift + 1 THEN FileItems(shift)
                                    ELSE FileItems(n)
  BY <1>1, <1>3, <1>4 DEF FileItems
<1>6. \A n \in Names : dir'[n] # None => Increasing(content'[dir'[n]])
  BY <1>1, <1>3, <1>4 DEF Order
<1>7. ASSUME NEW n \in Names, NEW m \in Names, n < m
      PROVE  Before(FileItems(m), FileItems(n))'
  <2>1. CASE n = shift \/ m = shift
    <3>1. FileItems(n)' = {} \/ FileItems(m)' = {}
      BY <1>5, <2>1
    <3> QED BY <3>1 DEF Before
  <2>2. CASE n # shift /\ m # shift
    <3>1. CASE m = shift + 1
      <4>1. n < shift
        BY <1>1, <1>7, <2>2, <3>1, Numbers
      <4>2. Before(FileItems(shift), FileItems(n))
        BY <1>1, <4>1 DEF Order
      <4> QED BY <1>1, <1>5, <1>7, <2>2, <3>1, <4>2
    <3>2. CASE n = shift + 1
      <4>1. shift < m /\ m # shift + 1
        BY <1>1, <1>7, <3>2, Numbers
      <4>2. Before(FileItems(m), FileItems(shift))
        BY <1>1, <4>1 DEF Order
      <4> QED BY <1>1, <1>5, <2>2, <3>2, <4>1, <4>2
    <3>3. CASE m # shift + 1 /\ n # shift + 1
      BY <1>5, <1>7, <2>2, <3>3 DEF Order
    <3> QED BY <3>1, <3>2, <3>3
  <2> QED BY <2>1, <2>2
<1>8. \A n \in Names : Before(FileItems(n), Items(currentQueue))'
  BY <1>1, <1>4, <1>5 DEF Order, Before
<1>9. /\ \A n \in Names \ {0} : Before(FileItems(n), Items(oldQueue))'
      /\ Before(Items(oldQueue), FileItems(0))'
      /\ Before(Items(oldQueue), Items(currentQueue))'
  BY <1>2, <1>4, ItemsEmpty DEF Before
<1>10. AllLogged' /\ InFiles \subseteq InFiles'
  <2>1. FileItems(shift + 1) = {}
    BY <1>2 DEF FileItems
  <2>2. \A x : x \in InFiles' <=> x \in InFiles
    BY <1>1, <1>5, <2>1, InFilesItems
  <2> QED BY <1>4, <2>2 DEF AllLogged
<1> QED BY <1>4, <1>6, <1>7, <1>8, <1>9, <1>10 DEF Order

\* fopen makes no message of a file disappear: it opens a file that was there,
\* or a new one.
LEMMA OpenedFiles ==
  ASSUME TypeOK, Counted, Disk, FopenCurrent,
         \/ rotator = "reopen" /\ FopenEmpties
         \/ opens < MaxOpens /\ UNCHANGED content
  PROVE  /\ \A n \in Names : FileItems(n)' = FileItems(n)
         /\ \A n \in Names : dir'[n] # None =>
              \/ content'[dir'[n]] = <<>>
              \/ dir[n] # None /\ content'[dir'[n]] = content[dir[n]]
<1>1. /\ OpenedInode \in Inodes /\ OpenedInode # None
      /\ Created => OpenedInode = inodes + 1
      /\ rotator = "reopen" => Created
  BY OpenedBound, OpenedSome
<1>2. \A n \in Names : dir'[n] = IF n = 0 THEN OpenedInode ELSE dir[n]
  BY DEF FopenCurrent, TypeOK
<1>3. \A f \in Inodes : f # OpenedInode => content'[f] = content[f]
  BY DEF FopenEmpties, TypeOK
<1>4. CASE Created
  <2>1. inodes \in Nat /\ inodes + 1 > inodes
    BY Numbers DEF TypeOK
  <2>2. content[OpenedInode] = <<>>
    BY <1>1, <1>4, <2>1 DEF Disk
  <2>3. content'[OpenedInode] = <<>>
    BY <1>1, <2>2 DEF FopenEmpties, TypeOK
  <2>4. \A n \in Names : dir[n] # None => dir[n] \in Inodes /\ dir[n] # OpenedInode
    <3> SUFFICES ASSUME NEW n \in Names, dir[n] # None
                 PROVE  dir[n] \in Inodes /\ dir[n] # OpenedInode
      OBVIOUS
    <3>1. dir[n] \in Inodes /\ dir[n] \in Nat /\ dir[n] <= inodes
      BY Numbers DEF TypeOK, Disk
    <3> QED BY <1>1, <1>4, <2>1, <3>1
  <2>5. dir[0] = None
    BY <1>4 DEF Created
  <2> QED BY <1>1, <1>2, <1>3, <2>3, <2>4, <2>5, ItemsEmpty DEF FileItems
<1>5. CASE ~Created
  <2>1. UNCHANGED content /\ OpenedInode = dir[0] /\ dir[0] # None
    BY <1>1, <1>5 DEF OpenedInode, Created
  <2>2. \A n \in Names : dir'[n] = dir[n]
    BY <1>2, <2>1
  <2> QED BY <2>1, <2>2 DEF FileItems
<1> QED BY <1>4, <1>5

\* The proxies change places, and `filename` is a new file.
LEMMA ReopenOrder ==
  ASSUME TypeOK, Control, Counted, Disk, Order, AllLogged, Reopen
  PROVE  Order' /\ AllLogged' /\ InFiles \subseteq InFiles'
<1>1. /\ \A n \in Names : FileItems(n)' = FileItems(n)
      /\ \A n \in Names : dir'[n] # None => Increasing(content'[dir'[n]])
  <2>1. CASE FopenCurrent /\ FopenEmpties
    BY <2>1, OpenedFiles DEF Reopen, Order, Increasing
  <2>2. CASE UNCHANGED files
    BY <2>2 DEF files, FileItems, Order
  <2> QED BY <2>1, <2>2 DEF Reopen
<1>2. FileItems(0) = {}
  BY DEF Reopen, Disk, FileItems
<1>3. /\ currentQueue' = <<>> /\ accepted' = accepted
      /\ oldQueue = <<>>
      /\ \/ oldQueue' = currentQueue /\ lost' = lost
         \/ oldQueue' = <<>> /\ lost' = lost \cup Items(currentQueue)
  BY DEF Reopen, Control
<1>4. Increasing(currentQueue') /\ Increasing(oldQueue')
  BY <1>3 DEF Order, Increasing
<1>5. /\ \A n, m \in Names : n < m => Before(FileItems(m), FileItems(n))'
      /\ \A n \in Names \ {0} : Before(FileItems(n), Items(oldQueue))'
  BY <1>1, <1>3, ItemsEmpty DEF Order, Before
<1>6. /\ \A n \in Names : Before(FileItems(n), Items(currentQueue))'
      /\ Before(Items(oldQueue), FileItems(0))'
      /\ Before(Items(oldQueue), Items(currentQueue))'
  BY <1>1, <1>2, <1>3, ItemsEmpty, Numbers DEF Before
<1>7. AllLogged' /\ InFiles \subseteq InFiles'
  <2>1. InFiles' = InFiles
    BY <1>1, InFilesItems
  <2> QED BY <1>3, <2>1, ItemsEmpty DEF AllLogged
<1> QED BY <1>1, <1>4, <1>5, <1>6, <1>7 DEF Order

\* open() appends to the file that is there.
LEMMA OpenOrder ==
  ASSUME TypeOK, Control, Counted, Disk, Order, AllLogged, Open
  PROVE  Order' /\ AllLogged' /\ InFiles \subseteq InFiles'
<1>1. /\ \A n \in Names : FileItems(n)' = FileItems(n)
      /\ \A n \in Names : dir'[n] # None => Increasing(content'[dir'[n]])
  BY OpenedFiles DEF Open, Order, Increasing
<1>2. UNCHANGED <<currentQueue, oldQueue, lost, accepted>>
  BY DEF Open, oldVars, Control
<1>3. InFiles' = InFiles
  BY <1>1, InFilesItems
<1>4. /\ \A n, m \in Names : n < m => Before(FileItems(m), FileItems(n))'
      /\ \A n \in Names : Before(FileItems(n), Items(currentQueue))'
      /\ \A n \in Names \ {0} : Before(FileItems(n), Items(oldQueue))'
      /\ Before(Items(oldQueue), FileItems(0))'
      /\ Before(Items(oldQueue), Items(currentQueue))'
  BY <1>1, <1>2, Numbers DEF Order, Before
<1>5. Increasing(currentQueue)' /\ Increasing(oldQueue)'
  BY <1>2 DEF Order
<1>6. AllLogged' /\ InFiles \subseteq InFiles'
  BY <1>2, <1>3 DEF AllLogged
<1> QED BY <1>1, <1>4, <1>5, <1>6 DEF Order

\* write() accepts the next message.
LEMMA WriteOrder ==
  ASSUME TypeOK, Order, AllLogged, NEW w \in Writers, Write(w)
  PROVE  Order' /\ AllLogged' /\ InFiles \subseteq InFiles'
<1>1. /\ accepted \in Nat /\ accepted' = accepted + 1
      /\ currentQueue' = Append(currentQueue, accepted + 1)
      /\ UNCHANGED <<dir, content, oldQueue, lost>>
  BY Numbers DEF Write, TypeOK, files, oldVars
<1>2. Items(currentQueue') = Items(currentQueue) \cup {accepted + 1}
  BY <1>1, Sequences, ItemsAppend
<1>3. /\ \A x \in Items(currentQueue) \cup Items(oldQueue) : x < accepted + 1
      /\ \A n \in Names : \A x \in FileItems(n) : x < accepted + 1
  BY <1>1, InFilesItems, SMTT(30) DEF AllLogged
<1>4. Increasing(currentQueue')
  BY <1>1, <1>3, Sequences, IncreasingAppend DEF Order
<1>5. \A n \in Names : FileItems(n)' = FileItems(n)
  BY <1>1 DEF FileItems
<1>6. \A n \in Names : Before(FileItems(n), Items(currentQueue))'
  BY <1>2, <1>3, <1>5 DEF Order, Before
<1>7. Before(Items(oldQueue), Items(currentQueue))'
  BY <1>1, <1>2, <1>3 DEF Order, Before
<1>8. AllLogged' /\ InFiles \subseteq InFiles'
  <2>1. InFiles' = InFiles
    BY <1>5, InFilesItems
  <2>2. 1 .. accepted + 1 = (1 .. accepted) \cup {accepted + 1}
    BY <1>1
  <2> QED BY <1>1, <1>2, <2>1, <2>2 DEF AllLogged
<1>9. /\ \A n \in Names : dir'[n] # None => Increasing(content'[dir'[n]])
      /\ Increasing(oldQueue)'
      /\ \A n, m \in Names : n < m => Before(FileItems(m), FileItems(n))'
      /\ \A n \in Names \ {0} : Before(FileItems(n), Items(oldQueue))'
      /\ Before(Items(oldQueue), FileItems(0))'
  BY <1>1, <1>5, Numbers DEF Order, Before
<1> QED BY <1>4, <1>6, <1>7, <1>8, <1>9 DEF Order

\* What is dropped with a proxy that has no file, or in a crash, is lost, and
\* nothing else.
LEMMA QueuesEmptied ==
  ASSUME Order, AllLogged, UNCHANGED <<dir, content, accepted>>,
         NEW Q, lost' = lost \cup Q,
         currentQueue' = <<>>, Items(currentQueue) \subseteq Q,
         \/ oldQueue' = oldQueue
         \/ oldQueue' = <<>> /\ Items(oldQueue) \subseteq Q,
         Q \subseteq Items(currentQueue) \cup Items(oldQueue)
  PROVE  Order' /\ AllLogged' /\ InFiles \subseteq InFiles'
<1>1. \A n \in Names : FileItems(n)' = FileItems(n)
  BY DEF FileItems
<1>2. InFiles' = InFiles
  BY <1>1, InFilesItems
<1>3. AllLogged' /\ InFiles \subseteq InFiles'
  BY <1>2, ItemsEmpty DEF AllLogged
<1>4. Increasing(currentQueue') /\ Increasing(oldQueue')
  BY DEF Order, Increasing
<1>5. Items(currentQueue') = {} /\ Items(oldQueue') \subseteq Items(oldQueue)
  BY ItemsEmpty
<1>6. /\ \A n \in Names : dir'[n] # None => Increasing(content'[dir'[n]])
      /\ \A n, m \in Names : n < m => Before(FileItems(m), FileItems(n))'
  BY <1>1 DEF Order, Before
<1>7. /\ \A n \in Names : Before(FileItems(n), Items(currentQueue))'
      /\ \A n \in Names \ {0} : Before(FileItems(n), Items(oldQueue))'
      /\ Before(Items(oldQueue), FileItems(0))'
      /\ Before(Items(oldQueue), Items(currentQueue))'
  BY <1>1, <1>5, Numbers DEF Order, Before
<1> QED BY <1>3, <1>4, <1>6, <1>7 DEF Order

\* Every message is where it should be, in order, in every step.
LEMMA OrderStep ==
  TypeOK /\ Control /\ Counted /\ Disk /\ Order /\ AllLogged /\ [Next]_vars
    => Order' /\ AllLogged' /\ InFiles \subseteq InFiles'
<1> SUFFICES ASSUME TypeOK, Control, Counted, Disk, Order, AllLogged, [Next]_vars
             PROVE  Order' /\ AllLogged' /\ InFiles \subseteq InFiles'
  OBVIOUS
<1>1. CASE UNCHANGED <<dir, content, currentQueue, oldQueue, lost, accepted>>
  BY <1>1, OrderSame, LoggedSame
<1>2. CASE CloseOld
  <2>1. UNCHANGED <<dir, content, currentQueue, oldQueue, lost, accepted>>
    BY <1>2 DEF CloseOld, OldDrained, files, currentVars
  <2> QED BY <1>1, <2>1
<1>3. CASE CloseCurrent
  <2>1. CASE currentOpen
    <3>1. UNCHANGED <<dir, content, currentQueue, oldQueue, lost, accepted>>
      BY <1>3, <2>1 DEF CloseCurrent, CurrentDrained, files, oldVars
    <3> QED BY <1>1, <3>1
  <2>2. CASE ~currentOpen
    BY <1>3, <2>2, QueuesEmptied DEF CloseCurrent, files, oldVars
  <2> QED BY <2>1, <2>2
<1>4. CASE Crash
  <2>1. /\ lost' = lost \cup (Items(currentQueue) \cup Items(oldQueue))
        /\ currentQueue' = <<>> /\ oldQueue' = <<>>
        /\ UNCHANGED <<dir, content, accepted>>
    BY <1>4 DEF Crash, files
  <2> QED BY <2>1, QueuesEmptied
<1>5. ASSUME NEW w \in Writers, WriteEnters(w) \/ Write(w)
      PROVE  Order' /\ AllLogged' /\ InFiles \subseteq InFiles'
  <2>1. CASE WriteEnters(w)
    BY <1>1, <2>1 DEF WriteEnters, files, currentVars, oldVars
  <2>2. CASE Write(w)
    BY <2>2, WriteOrder
  <2> QED BY <1>5, <2>1, <2>2
<1>6. CASE Shift
  BY <1>6, ShiftOrder
<1>7. CASE Reopen
  BY <1>7, ReopenOrder
<1>8. CASE Open
  BY <1>8, OpenOrder
<1>9. CASE CurrentWrites
  BY <1>9, CurrentWritesOrder
<1>10. CASE OldWrites
  BY <1>10, OldWritesOrder
<1>11. CASE \/ RotatorSleeps \/ RotatorReturns \/ RotationStarts \/ SpuriousWakeup
            \/ CloseRaisesStop \/ CloseProbes \/ CloseJoins \/ UNCHANGED vars
  <2>1. UNCHANGED <<dir, content, currentQueue, oldQueue, lost, accepted>>
    BY <1>11 DEF RotatorSleeps, RotatorReturns, RotationStarts, SpuriousWakeup,
                 CloseRaisesStop, CloseProbes, CloseJoins, vars, files, currentVars,
                 oldVars
  <2> QED BY <1>1, <2>1
<1> QED
  BY <1>2, <1>3, <1>4, <1>5, <1>6, <1>7, <1>8, <1>9, <1>10, <1>11
     DEF Next, Rotator, Close, Finished
-----------------------------------------------------------------------------
(* The theorems *)

\* The invariant holds in the initial state.
LEMMA InvInit == Init => IInv
<1> SUFFICES ASSUME Init  PROVE IInv
  OBVIOUS
<1>1. Inside = {}
  BY DEF Init, Inside
<1>2. currentOpen \in BOOLEAN /\ stop_flag \in BOOLEAN /\ rotate_at_first \in BOOLEAN
  BY Zenon DEF Init
<1>3. TypeOK
  <2>1. /\ dir \in [Names -> Inodes \cup {None}]
        /\ content \in [Inodes -> Seq(1 .. MaxWrites)]
        /\ writing \in [Writers -> BOOLEAN]
    BY EmptySeq DEF Init
  <2> QED BY <1>2, <2>1, EmptySeq, Numbers
          DEF Init, TypeOK, HandleStates, RotatorStates, OwnerStates
<1>4. Control
  BY DEF Init, Control, RotatorBelongs
<1>5. Counted
  BY <1>1, FS_EmptySet, Numbers DEF Init, Counted
<1>6. Disk
  BY DEF Init, Disk, NeverOverwrites, None
<1>7. \A n \in Names : FileItems(n) = {}
  BY DEF Init, FileItems
<1>8. Order
  BY <1>7, ItemsEmpty DEF Init, Order, Before, Increasing
<1>9. AllLogged
  <2>1. InFiles = {}
    BY <1>7, InFilesItems
  <2> QED BY <2>1, ItemsEmpty DEF Init, AllLogged
<1> QED BY <1>3, <1>4, <1>5, <1>6, <1>8, <1>9 DEF IInv

\* ... and every step preserves it.
LEMMA InvStep == IInv /\ [Next]_vars => IInv'
BY TypeStep, ControlStep, CountedStep, DiskStep, OrderStep DEF IInv

\* It holds of every reachable state.
LEMMA Invariant == Spec => []IInv
<1> QED BY InvInit, InvStep, PTL DEF Spec

\* A rotator is the thread that tid names, and never outlives the log.
THEOREM RotatorIsOurs == Spec => []RotatorBelongs
<1>1. IInv => RotatorBelongs
  BY DEF IInv, Control
<1> QED BY <1>1, Invariant, PTL

\* Rotation replaces no file, whatever an earlier process that died in the
\* middle of one left behind, and the files keep the order of acceptance.
THEOREM RotationKeepsFiles == Spec => []FilesInOrder
<1>1. IInv => FilesInOrder
  BY DEF IInv, Disk, Order, FilesInOrder, AgeOrder, FileItems, Before
<1> QED BY <1>1, Invariant, PTL

\* A message that was accepted and not lost with a dead process or a proxy that
\* has no file is queued, or in a file that has a name.
THEOREM NothingDisappears == Spec => []AllLogged
<1>1. IInv => AllLogged
  BY DEF IInv
<1> QED BY <1>1, Invariant, PTL

\* What has reached a file stays in one: neither a rotation nor open(), close()
\* or a crash removes a message from the files that have names.
THEOREM FilesOnlyGrow == Spec => [][InFiles \subseteq InFiles']_vars
<1>1. IInv /\ [Next]_vars => [InFiles \subseteq InFiles']_vars
  BY OrderStep DEF IInv
<1> QED BY <1>1, Invariant, PTL DEF Spec
=============================================================================
