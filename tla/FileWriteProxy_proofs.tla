----------------------- MODULE FileWriteProxy_proofs -----------------------
(***************************************************************************)
(* Theorems about FileWriteProxy, for every number of writes and opens and *)
(* every answer of the thread library that HandleAssumption admits.        *)
(***************************************************************************)
EXTENDS FileWriteProxy, SequenceTheorems, TLAPS

\* Everything accepted and not discarded, oldest first.
All == disk \o cache \o stdio \o write_queue

\* The data taken from the queue, at each place of the writer.
Held == /\ writer # "flush" => stdio = <<>>
        /\ writer # "sync" => cache = <<>>

\* The handle, the writer and the owner agree on whether a thread runs.
Agree == /\ writer # "off" <=> tid = "live"
         /\ tid # "detached"
         /\ writer # "off" => fp /\ owner # "fclose"
         /\ owner # "idle" => fp /\ stop_flag
         /\ writer # "off" /\ stop_flag => owner # "idle"
         /\ tid = "ended" => owner \in {"probe", "join"}

\* The platform on which a proxy can be opened again and threads can be had.
StartReliable == ProbeStale = {FALSE} /\ CreateOutcomes = {TRUE}

\* An open proxy has its writer until close() makes it return; a writer that
\* has returned has left nothing of what was promised in the queue.
Served == StartReliable =>
            /\ fp /\ owner = "idle" => writer # "off"
            /\ owner # "idle" /\ writer = "off" =>
                 \A m \in 1 .. promised : m \in discarded \cup Items(disk \o cache \o stdio)

Control == NoLostWakeup /\ Held /\ Agree

Sequenced == /\ InOrder /\ Accounted
             /\ promised <= accepted /\ discarded \subseteq 1 .. accepted

IInv == TypeOK /\ Control /\ Sequenced /\ Served

-----------------------------------------------------------------------------

(* Sequences of messages. *)

\* The items of a concatenation are those of its parts.
LEMMA ItemsConcat ==
  ASSUME NEW s \in Seq(Nat), NEW t \in Seq(Nat)
  PROVE  Items(s \o t) = Items(s) \cup Items(t)
<1>1. /\ s \o t \in Seq(Nat) /\ Len(s \o t) = Len(s) + Len(t)
      /\ \A i \in 1 .. Len(s) + Len(t) :
           (s \o t)[i] = IF i <= Len(s) THEN s[i] ELSE t[i - Len(s)]
  BY ConcatProperties
<1>2. /\ Len(s) \in Nat /\ Len(t) \in Nat
      /\ DOMAIN s = 1 .. Len(s) /\ DOMAIN t = 1 .. Len(t)
      /\ DOMAIN (s \o t) = 1 .. Len(s) + Len(t)
  BY <1>1, LenProperties
<1>3. ASSUME NEW x \in Items(s \o t)  PROVE x \in Items(s) \cup Items(t)
  <2>1. PICK i \in 1 .. Len(s) + Len(t) : x = (s \o t)[i]
    BY <1>2, <1>3 DEF Items
  <2>2. CASE i <= Len(s)
    BY <1>1, <1>2, <2>1, <2>2 DEF Items
  <2>3. CASE ~(i <= Len(s))
    <3>1. i - Len(s) \in 1 .. Len(t) /\ x = t[i - Len(s)]
      BY <1>1, <1>2, <2>1, <2>3
    <3> QED BY <1>2, <3>1 DEF Items
  <2> QED BY <2>2, <2>3
<1>4. ASSUME NEW x \in Items(s)  PROVE x \in Items(s \o t)
  <2>1. PICK i \in 1 .. Len(s) : x = s[i]
    BY <1>2, <1>4 DEF Items
  <2>2. i \in 1 .. Len(s) + Len(t) /\ x = (s \o t)[i]
    BY <1>1, <1>2, <2>1
  <2> QED BY <1>2, <2>2 DEF Items
<1>5. ASSUME NEW x \in Items(t)  PROVE x \in Items(s \o t)
  <2>1. PICK i \in 1 .. Len(t) : x = t[i]
    BY <1>2, <1>5 DEF Items
  <2>2. /\ Len(s) + i \in 1 .. Len(s) + Len(t)
        /\ ~(Len(s) + i <= Len(s)) /\ Len(s) + i - Len(s) = i
    BY <1>2, <2>1
  <2>3. x = (s \o t)[Len(s) + i]
    BY <1>1, <2>1, <2>2
  <2> QED BY <1>2, <2>2, <2>3 DEF Items
<1> QED BY <1>3, <1>4, <1>5

\* The items of a sequence are of its type.
LEMMA ItemsType ==
  ASSUME NEW s \in Seq(Nat)  PROVE Items(s) \in SUBSET Nat
BY LenProperties, ElementOfSeq DEF Items

\* One more item.
LEMMA ItemsAppend ==
  ASSUME NEW s \in Seq(Nat), NEW n \in Nat
  PROVE  Items(Append(s, n)) = Items(s) \cup {n}
<1>1. /\ Len(s) \in Nat /\ DOMAIN s = 1 .. Len(s)
      /\ DOMAIN Append(s, n) = 1 .. Len(s) + 1
      /\ Append(s, n)[Len(s) + 1] = n
      /\ \A i \in 1 .. Len(s) : Append(s, n)[i] = s[i]
  BY LenProperties, AppendProperties
<1>2. 1 .. Len(s) + 1 = (1 .. Len(s)) \cup {Len(s) + 1}
  BY <1>1
<1> QED BY <1>1, <1>2 DEF Items

\* A sequence stays increasing when a larger item is appended.
LEMMA IncreasingAppend ==
  ASSUME NEW s \in Seq(Nat), NEW n \in Nat, Increasing(s),
         \A x \in Items(s) : x < n
  PROVE  Increasing(Append(s, n))
<1>1. /\ Len(s) \in Nat /\ DOMAIN s = 1 .. Len(s)
      /\ DOMAIN Append(s, n) = 1 .. Len(s) + 1
      /\ Append(s, n)[Len(s) + 1] = n
      /\ \A i \in 1 .. Len(s) : Append(s, n)[i] = s[i]
  BY LenProperties, AppendProperties
<1>2. \A i \in 1 .. Len(s) : s[i] < n
  BY <1>1 DEF Items
<1>3. ASSUME NEW i \in 1 .. Len(s) + 1, NEW j \in 1 .. Len(s) + 1, i < j
      PROVE  Append(s, n)[i] < Append(s, n)[j]
  <2>1. i \in 1 .. Len(s)
    BY <1>1, <1>3
  <2>2. CASE j = Len(s) + 1
    BY <1>1, <1>2, <2>1, <2>2
  <2>3. CASE j \in 1 .. Len(s)
    BY <1>1, <1>3, <2>1, <2>3 DEF Increasing
  <2> QED BY <1>1, <2>2, <2>3
<1> QED BY <1>1, <1>3 DEF Increasing

\* Both parts of an increasing concatenation are increasing and disjoint.
LEMMA IncreasingConcat ==
  ASSUME NEW s \in Seq(Nat), NEW t \in Seq(Nat), Increasing(s \o t)
  PROVE  Increasing(s) /\ Increasing(t) /\ Items(s) \cap Items(t) = {}
<1>1. /\ s \o t \in Seq(Nat) /\ Len(s \o t) = Len(s) + Len(t)
      /\ \A i \in 1 .. Len(s) + Len(t) :
           (s \o t)[i] = IF i <= Len(s) THEN s[i] ELSE t[i - Len(s)]
  BY ConcatProperties
<1>2. /\ Len(s) \in Nat /\ Len(t) \in Nat
      /\ DOMAIN s = 1 .. Len(s) /\ DOMAIN t = 1 .. Len(t)
      /\ DOMAIN (s \o t) = 1 .. Len(s) + Len(t)
  BY <1>1, LenProperties
<1>3. \A i \in 1 .. Len(s) : i \in 1 .. Len(s) + Len(t) /\ (s \o t)[i] = s[i]
  BY <1>1, <1>2
<1>4. \A j \in 1 .. Len(t) : /\ Len(s) + j \in 1 .. Len(s) + Len(t)
                             /\ (s \o t)[Len(s) + j] = t[j]
  <2> TAKE j \in 1 .. Len(t)
  <2>1. /\ Len(s) + j \in 1 .. Len(s) + Len(t)
        /\ ~(Len(s) + j <= Len(s)) /\ Len(s) + j - Len(s) = j
    BY <1>2
  <2> QED BY <1>1, <2>1
<1>5. Increasing(s)
  BY <1>2, <1>3 DEF Increasing
<1>6. ASSUME NEW i \in 1 .. Len(t), NEW j \in 1 .. Len(t), i < j
      PROVE  t[i] < t[j]
  <2>1. Len(s) + i < Len(s) + j
    BY <1>2, <1>6
  <2> QED BY <1>2, <1>4, <2>1 DEF Increasing
<1>7. ASSUME NEW i \in 1 .. Len(s), NEW j \in 1 .. Len(t)
      PROVE  s[i] # t[j]
  <2>1. i < Len(s) + j
    BY <1>2
  <2>2. s[i] < t[j]
    BY <1>2, <1>3, <1>4, <2>1 DEF Increasing
  <2>3. s[i] \in Nat /\ t[j] \in Nat
    BY ElementOfSeq
  <2> QED BY <2>2, <2>3
<1> QED BY <1>2, <1>5, <1>6, <1>7 DEF Increasing, Items

\* Concatenation is associative.
LEMMA Assoc == \A s, t, u \in Seq(Nat) : (s \o t) \o u = s \o (t \o u)
OBVIOUS

\* Appending to the second part appends to the whole.
LEMMA ConcatAppend ==
  ASSUME NEW s \in Seq(Nat), NEW t \in Seq(Nat), NEW n \in Nat
  PROVE  s \o Append(t, n) = Append(s \o t, n)
OBVIOUS

\* Sequences in a row are a sequence.
LEMMA ConcatType ==
  \A a, b, c, d \in Seq(Nat) : /\ a \o b \in Seq(Nat) /\ a \o b \o c \in Seq(Nat)
                               /\ a \o b \o c \o d \in Seq(Nat)
<1> TAKE a, b, c, d \in Seq(Nat)
<1>1. a \o b \in Seq(Nat)
  BY ConcatProperties
<1>2. a \o b \o c \in Seq(Nat)
  BY <1>1, ConcatProperties
<1>3. a \o b \o c \o d \in Seq(Nat)
  BY <1>2, ConcatProperties
<1> QED BY <1>1, <1>2, <1>3

\* A part is a prefix of the whole.
LEMMA PrefixConcat ==
  ASSUME NEW s \in Seq(Nat), NEW t \in Seq(Nat)
  PROVE  Prefix(s, s \o t)
BY ConcatProperties, LenProperties DEF Prefix

-----------------------------------------------------------------------------
(* Type correctness *)

\* What the thread library and join() make of a handle is a handle.
LEMMA HandleType ==
  ASSUME NEW h \in HandleStates, NEW running \in BOOLEAN, NEW created \in BOOLEAN
  PROVE  /\ Started(h, running, created) \in HandleStates
         /\ AfterProbe(h, running) \in HandleStates
         /\ Terminated(h) \in HandleStates /\ Joined(h) \in HandleStates
BY DEF Started, AfterProbe, Terminated, Joined, HandleStates

\* isRunning() answers with a Boolean.
LEMMA ProbeType == \A h : Probe(h) \in SUBSET BOOLEAN
BY HandleAssumption DEF Probe, HandleAssumption

\* Every variable has its type in every step.
LEMMA TypeStep == TypeOK /\ [Next]_vars => TypeOK'
<1> SUFFICES ASSUME TypeOK, [Next]_vars  PROVE TypeOK'
  OBVIOUS
<1> USE DEF TypeOK, fileVars, histVars, WriterStates, OwnerStates
<1>1. CASE SpuriousWakeup
  BY <1>1 DEF SpuriousWakeup
<1>2. CASE WriterSleeps
  BY <1>2 DEF WriterSleeps
<1>3. CASE WriterReturns
  BY <1>3, HandleType DEF WriterReturns
<1>4. CASE WriterTakes
  <2>1. stdio' \in Seq(Nat) /\ write_queue' \in Seq(Nat)
    BY <1>4, ConcatProperties, EmptySeq DEF WriterTakes
  <2> QED BY <1>4, <2>1 DEF WriterTakes
<1>5. CASE WriterFlushes
  <2>1. cache' \in Seq(Nat) /\ stdio' \in Seq(Nat)
    BY <1>5, ConcatProperties, EmptySeq DEF WriterFlushes
  <2> QED BY <1>5, <2>1 DEF WriterFlushes
<1>6. CASE WriterSyncs
  <2>1. disk' \in Seq(Nat) /\ cache' \in Seq(Nat)
    BY <1>6, ConcatProperties, EmptySeq DEF WriterSyncs
  <2> QED BY <1>6, <2>1 DEF WriterSyncs
<1>7. CASE Write
  <2>1. write_queue' \in Seq(Nat)
    BY <1>7, AppendProperties DEF Write
  <2> QED BY <1>7, <2>1 DEF Write, Notified
<1>8. CASE ClearWriteQueue
  <2>1. discarded' \in SUBSET Nat /\ write_queue' \in Seq(Nat)
    BY <1>8, ItemsType, EmptySeq DEF ClearWriteQueue
  <2> QED BY <1>8, <2>1 DEF ClearWriteQueue
<1>9. CASE Open
  <2>1. tid' \in HandleStates /\ writer' \in WriterStates
    BY <1>9, HandleType, ProbeType, HandleAssumption
       DEF Open, StartWriter, HandleAssumption
  <2>2. /\ disk' \in Seq(Nat) /\ cache' \in Seq(Nat)
        /\ discarded' \in SUBSET Nat
    <3>1. Items(disk \o cache) \in SUBSET Nat
      BY ConcatProperties, ItemsType
    <3> QED BY <1>9, <3>1, EmptySeq DEF Open, FopenWrite, FopenAppend
  <2>3. fp' \in BOOLEAN /\ stop_flag' \in BOOLEAN
    BY <1>9, Zenon DEF Open
  <2>4. /\ opens' \in Nat /\ accepted' \in Nat /\ promised' \in Nat
        /\ owner' \in OwnerStates
        /\ write_queue' \in Seq(Nat) /\ stdio' \in Seq(Nat)
    BY <1>9 DEF Open
  <2> QED BY <2>1, <2>2, <2>3, <2>4
<1>10. CASE CloseRaisesStop
  BY <1>10 DEF CloseRaisesStop, Notified
<1>11. CASE CloseProbes
  BY <1>11, HandleType, ProbeType DEF CloseProbes
<1>12. CASE CloseJoins
  BY <1>12, HandleType DEF CloseJoins
<1>13. CASE CloseFcloses
  <2>1. cache' \in Seq(Nat) /\ stdio' \in Seq(Nat)
    BY <1>13, ConcatProperties, EmptySeq DEF CloseFcloses
  <2> QED BY <1>13, <2>1 DEF CloseFcloses
<1>14. CASE UNCHANGED vars
  BY <1>14 DEF vars
<1> QED
  BY <1>1, <1>2, <1>3, <1>4, <1>5, <1>6, <1>7, <1>8, <1>9, <1>10, <1>11,
     <1>12, <1>13, <1>14 DEF Next, Writer, Close, Finished

\* The initial state is well typed.
LEMMA TypeInit == Init => TypeOK
<1> SUFFICES ASSUME Init  PROVE TypeOK
  OBVIOUS
<1>1. fp \in BOOLEAN /\ stop_flag \in BOOLEAN
  BY Zenon DEF Init
<1>2. /\ write_queue \in Seq(Nat) /\ stdio \in Seq(Nat)
      /\ cache \in Seq(Nat) /\ disk \in Seq(Nat)
  BY EmptySeq DEF Init
<1> QED BY <1>1, <1>2
        DEF Init, TypeOK, HandleStates, WriterStates, OwnerStates

\* The types hold in every state of every behaviour.
THEOREM TypeCorrect == Spec => []TypeOK
<1> QED BY TypeInit, TypeStep, PTL DEF Spec
-----------------------------------------------------------------------------
(* Who runs, who sleeps, and on what *)

\* The control part of the invariant is preserved by every step.
LEMMA ControlStep == TypeOK /\ Control /\ [Next]_vars => Control'
<1> SUFFICES ASSUME TypeOK, Control, [Next]_vars  PROVE Control'
  OBVIOUS
<1> USE DEF Control, NoLostWakeup, Held, Agree, fileVars, histVars
<1>1. CASE SpuriousWakeup
  BY <1>1 DEF SpuriousWakeup
<1>2. CASE WriterSleeps
  BY <1>2 DEF WriterSleeps
<1>3. CASE WriterReturns
  BY <1>3 DEF WriterReturns, Terminated, TypeOK, OwnerStates
<1>4. CASE WriterTakes
  BY <1>4 DEF WriterTakes
<1>5. CASE WriterFlushes
  BY <1>5 DEF WriterFlushes
<1>6. CASE WriterSyncs
  BY <1>6 DEF WriterSyncs
<1>7. CASE Write
  BY <1>7 DEF Write, Notified
<1>8. CASE ClearWriteQueue
  BY <1>8 DEF ClearWriteQueue
<1>9. CASE Open
  <2>1. /\ writer = "off" /\ tid \notin {"live", "detached", "ended"}
        /\ stdio = <<>> /\ cache = <<>>
    BY <1>9 DEF Open
  <2>2. writer' \in {"off", "ready"} /\ tid' \notin {"detached", "ended"}
    BY <1>9, <2>1 DEF Open, StartWriter, Started
  <2>3. writer' # "off" <=> tid' = "live"
    BY <1>9, <2>1 DEF Open, StartWriter, Started
  <2>4. stdio' = <<>> /\ cache' = <<>> /\ owner' = "idle" /\ fp'
    BY <1>9, <2>1 DEF Open, FopenWrite, FopenAppend
  <2>5. ~stop_flag'
    BY <1>9, Zenon DEF Open
  <2> QED BY <2>2, <2>3, <2>4, <2>5
<1>10. CASE CloseRaisesStop
  BY <1>10 DEF CloseRaisesStop, Notified
<1>11. CASE CloseProbes
  <2>1. PICK running \in Probe(tid) :
          /\ tid' = AfterProbe(tid, running)
          /\ owner' = IF running THEN "join" ELSE "fclose"
    BY <1>11 DEF CloseProbes
  <2>2. tid = "live" => running
    BY <2>1 DEF Probe
  <2> QED BY <1>11, <2>1, <2>2 DEF CloseProbes, AfterProbe
<1>12. CASE CloseJoins
  BY <1>12 DEF CloseJoins, JoinReturns, Joined
<1>13. CASE CloseFcloses
  BY <1>13, ConcatEmptySeq DEF CloseFcloses, TypeOK
<1>14. CASE UNCHANGED vars
  BY <1>14 DEF vars
<1> QED
  BY <1>1, <1>2, <1>3, <1>4, <1>5, <1>6, <1>7, <1>8, <1>9, <1>10, <1>11,
     <1>12, <1>13, <1>14 DEF Next, Writer, Close, Finished

-----------------------------------------------------------------------------
(* Where the messages are *)

\* Steps that only move messages towards the disk leave All alone.
LEMMA MoveStep ==
  ASSUME TypeOK, Control,
         WriterTakes \/ WriterFlushes \/ WriterSyncs \/ CloseFcloses
  PROVE  All' = All
<1>0. disk \in Seq(Nat) /\ cache \in Seq(Nat) /\ stdio \in Seq(Nat) /\ write_queue \in Seq(Nat)
  BY DEF TypeOK
<1>r. disk \o cache \o (stdio \o write_queue) = disk \o cache \o stdio \o write_queue
  <2>1. disk \o cache \in Seq(Nat)
    BY <1>0, ConcatProperties
  <2> QED BY <1>0, <2>1, Assoc, Zenon
<1>s. disk \o (cache \o stdio) = disk \o cache \o stdio
  BY <1>0, Assoc, ZenonT(40)
<1> USE DEF TypeOK, Control, Held, All
<1>1. CASE WriterTakes
  <2>1. All' = disk \o cache \o (stdio \o write_queue) \o <<>>
    BY <1>1 DEF WriterTakes
  <2>2. disk \o cache \o (stdio \o write_queue) \in Seq(Nat)
    BY ConcatType
  <2>3. All' = disk \o cache \o (stdio \o write_queue)
    BY <2>1, <2>2, ConcatEmptySeq
  <2> QED BY <2>3, <1>r
<1>2. CASE WriterFlushes \/ CloseFcloses
  <2>1. All' = disk \o (cache \o stdio) \o <<>> \o write_queue
    BY <1>2 DEF WriterFlushes, CloseFcloses
  <2>2. disk \o (cache \o stdio) \in Seq(Nat)
    BY ConcatProperties
  <2>3. disk \o (cache \o stdio) \o <<>> = disk \o (cache \o stdio)
    BY <2>2, ConcatEmptySeq
  <2> QED BY <2>1, <2>3, <1>s
<1>3. CASE WriterSyncs
  <2>1. All' = disk \o cache \o <<>> \o stdio \o write_queue
    BY <1>3 DEF WriterSyncs
  <2>2. disk \o cache \o <<>> = disk \o cache
    BY ConcatProperties, ConcatEmptySeq
  <2> QED BY <2>1, <2>2
<1> QED BY <1>1, <1>2, <1>3

\* Messages stay in order, and each is in one place, in every step.
LEMMA SequencedStep ==
  TypeOK /\ Control /\ Sequenced /\ [Next]_vars => Sequenced'
<1> SUFFICES ASSUME TypeOK, Control, Sequenced, [Next]_vars  PROVE Sequenced'
  OBVIOUS
<1>0. /\ Increasing(All) /\ Items(All) = (1 .. accepted) \ discarded
      /\ promised <= accepted /\ discarded \subseteq 1 .. accepted
      /\ All \in Seq(Nat) /\ disk \o cache \o stdio \in Seq(Nat)
  BY ConcatType DEF Sequenced, InOrder, Accounted, All, TypeOK
<1>a. Sequenced' = /\ Increasing(All') /\ Items(All') = (1 .. accepted') \ discarded'
                   /\ promised' <= accepted' /\ discarded' \subseteq 1 .. accepted'
  BY DEF Sequenced, InOrder, Accounted, All
<1>1. CASE UNCHANGED <<All, accepted, discarded, promised>>
  BY <1>0, <1>1, <1>a
<1>2. CASE WriterTakes \/ WriterFlushes \/ WriterSyncs \/ CloseFcloses
  BY <1>1, <1>2, MoveStep
     DEF WriterTakes, WriterFlushes, WriterSyncs, CloseFcloses, histVars
<1>3. CASE \/ SpuriousWakeup \/ WriterSleeps \/ WriterReturns \/ CloseProbes
           \/ CloseJoins \/ UNCHANGED vars
  BY <1>1, <1>3 DEF SpuriousWakeup, WriterSleeps, WriterReturns, CloseProbes,
     CloseJoins, vars, fileVars, histVars, All
<1>4. CASE CloseRaisesStop
  <2>1. All' = All /\ accepted' = accepted /\ discarded' = discarded /\ promised' = accepted
    BY <1>4 DEF CloseRaisesStop, fileVars, All
  <2> QED BY <1>0, <1>a, <2>1 DEF TypeOK
<1>5. CASE Write
  <2>1. /\ accepted' = accepted + 1 /\ discarded' = discarded
        /\ promised' = promised
        /\ All' = disk \o cache \o stdio \o Append(write_queue, accepted + 1)
    BY <1>5 DEF Write, fileVars, All
  <2>2. All' = Append(All, accepted + 1)
    <3>1. write_queue \in Seq(Nat) /\ accepted + 1 \in Nat
      BY DEF TypeOK
    <3>2. disk \o cache \o stdio \o Append(write_queue, accepted + 1)
            = Append(disk \o cache \o stdio \o write_queue, accepted + 1)
      BY <1>0, <3>1, ConcatAppend, Zenon
    <3> QED BY <2>1, <3>2 DEF All
  <2>3. Items(All') = Items(All) \cup {accepted + 1}
    BY <1>0, <2>2, ItemsAppend DEF TypeOK
  <2>4. \A x \in Items(All) : x < accepted + 1
    BY <1>0 DEF TypeOK
  <2>5. Increasing(All')
    BY <1>0, <2>2, <2>4, IncreasingAppend DEF TypeOK
  <2>6. (1 .. accepted + 1) \ discarded = ((1 .. accepted) \ discarded) \cup {accepted + 1}
    BY <1>0 DEF TypeOK
  <2>7. promised <= accepted + 1 /\ discarded \subseteq 1 .. accepted + 1
    BY <1>0 DEF TypeOK
  <2> QED BY <1>0, <1>a, <2>1, <2>3, <2>5, <2>6, <2>7
<1>6. CASE ClearWriteQueue
  <2> DEFINE Taken == disk \o cache \o stdio
  <2>1. /\ discarded' = discarded \cup Items(write_queue)
        /\ All' = Taken \o <<>> /\ All = Taken \o write_queue
        /\ accepted' = accepted /\ promised' = promised
    BY <1>6 DEF ClearWriteQueue, fileVars, All
  <2>2. All' = Taken
    BY <1>0, <2>1, ConcatEmptySeq
  <2>3. /\ Increasing(Taken) /\ Items(Taken) \cap Items(write_queue) = {}
        /\ Items(All) = Items(Taken) \cup Items(write_queue)
    BY <1>0, <2>1, IncreasingConcat, ItemsConcat DEF TypeOK
  <2>4. /\ Items(Taken) = (1 .. accepted) \ discarded'
        /\ discarded' \subseteq 1 .. accepted
    BY <1>0, <2>1, <2>3
  <2> QED BY <1>0, <1>a, <2>1, <2>2, <2>3, <2>4
<1>7. CASE Open
  <2>1. stdio = <<>> /\ cache = <<>> /\ stdio' = <<>>
    BY <1>7 DEF Open, Control, Agree, Held
  <2>2. accepted' = accepted /\ promised' = promised /\ write_queue' = write_queue
    BY <1>7 DEF Open
  <2>3. CASE FopenAppend
    BY <1>1, <2>1, <2>2, <2>3 DEF FopenAppend, All
  <2>4. CASE FopenWrite
    <3> DEFINE Old == disk \o cache
    <3>1. Old \in Seq(Nat) /\ Old \o <<>> = Old /\ All = Old \o write_queue
      BY <2>1, ConcatProperties, ConcatEmptySeq DEF TypeOK, All
    <3>2. /\ All' = <<>> \o <<>> \o <<>> \o write_queue
          /\ discarded' = discarded \cup Items(Old)
      BY <2>1, <2>2, <2>4 DEF FopenWrite, All
    <3>3. All' = write_queue
      BY <3>2, ConcatEmptySeq, EmptySeq DEF TypeOK
    <3>4. /\ Increasing(write_queue) /\ Items(Old) \cap Items(write_queue) = {}
          /\ Items(All) = Items(Old) \cup Items(write_queue)
      BY <1>0, <3>1, IncreasingConcat, ItemsConcat DEF TypeOK
    <3>5. /\ Items(write_queue) = (1 .. accepted) \ discarded'
          /\ discarded' \subseteq 1 .. accepted
      BY <1>0, <3>2, <3>4
    <3> QED BY <1>0, <1>a, <2>2, <3>3, <3>4, <3>5
  <2> QED BY <1>7, <2>3, <2>4 DEF Open
<1> QED
  BY <1>2, <1>3, <1>4, <1>5, <1>6, <1>7 DEF Next, Writer, Close, Finished
-----------------------------------------------------------------------------
(* What close() promised *)

\* The promise of close() is preserved by every step.
LEMMA ServedStep ==
  TypeOK /\ Control /\ Sequenced /\ Served /\ [Next]_vars => Served'
<1> SUFFICES ASSUME TypeOK, Control, Sequenced, Served, [Next]_vars,
                    StartReliable
             PROVE  /\ fp' /\ owner' = "idle" => writer' # "off"
                    /\ owner' # "idle" /\ writer' = "off" =>
                         \A m \in 1 .. promised' :
                           m \in discarded' \cup Items(disk' \o cache' \o stdio')
  BY DEF Served, StartReliable
<1>0. /\ fp /\ owner = "idle" => writer # "off"
      /\ owner # "idle" /\ writer = "off" =>
           \A m \in 1 .. promised : m \in discarded \cup Items(disk \o cache \o stdio)
  BY DEF Served
<1> USE DEF fileVars, histVars
<1>1. CASE SpuriousWakeup
  BY <1>0, <1>1 DEF SpuriousWakeup
<1>2. CASE WriterSleeps \/ WriterTakes \/ WriterFlushes \/ WriterSyncs
  BY <1>0, <1>2 DEF WriterSleeps, WriterTakes, WriterFlushes, WriterSyncs
<1>3. CASE WriterReturns
  \* the queue is empty: everything accepted and not discarded was taken
  <2>1. Items(disk \o cache \o stdio) = (1 .. accepted) \ discarded
    <3>1. disk \o cache \o stdio \o <<>> = disk \o cache \o stdio
      BY ConcatType, ConcatEmptySeq DEF TypeOK
    <3> QED BY <1>3, <3>1 DEF WriterReturns, Sequenced, Accounted
  <2>2. owner # "idle"
    BY <1>3 DEF WriterReturns, Control, Agree
  <2>3. \A m \in 1 .. promised : m \in discarded \cup Items(disk \o cache \o stdio)
    BY <2>1 DEF Sequenced, TypeOK
  <2> QED BY <1>3, <2>2, <2>3 DEF WriterReturns
<1>4. CASE Write
  BY <1>0, <1>4 DEF Write, Notified
<1>5. CASE ClearWriteQueue
  BY <1>0, <1>5 DEF ClearWriteQueue
<1>6. CASE Open
  <2>1. tid \in {"none", "stale"}
    BY <1>6 DEF Open, Control, Agree, TypeOK, HandleStates
  <2>2. Probe(tid) = {FALSE}
    BY <2>1 DEF Probe, StartReliable
  <2>3. writer' = "ready"
    BY <1>6, <2>2, Zenon DEF Open, StartWriter, StartReliable
  <2> QED BY <1>6, <2>3 DEF Open
<1>7. CASE CloseRaisesStop
  BY <1>0, <1>7 DEF CloseRaisesStop, Notified, Control, Agree
<1>8. CASE CloseProbes \/ CloseJoins
  BY <1>0, <1>8 DEF CloseProbes, CloseJoins
<1>9. CASE CloseFcloses
  BY <1>9 DEF CloseFcloses, Control, Agree
<1>10. CASE UNCHANGED vars
  BY <1>0, <1>10 DEF vars
<1> QED
  BY <1>1, <1>2, <1>3, <1>4, <1>5, <1>6, <1>7, <1>8, <1>9, <1>10
     DEF Next, Writer, Close, Finished
-----------------------------------------------------------------------------
(* The theorems *)

\* The inductive invariant holds in every reachable state.
THEOREM Invariance == Spec => []IInv
<1>1. Init => IInv
  <2> SUFFICES ASSUME Init  PROVE IInv
    OBVIOUS
  <2>1. disk \o cache \o stdio \o write_queue = <<>>
    BY EmptySeq, ConcatEmptySeq DEF Init
  <2>2. Sequenced
    <3>1. 1 .. 0 = {}
      OBVIOUS
    <3>2. Increasing(<<>>) /\ Items(<<>>) = {}
      BY DEF Increasing, Items
    <3> QED BY <2>1, <3>1, <3>2 DEF Sequenced, InOrder, Accounted, Init
  <2>3. Control /\ Served
    BY DEF Init, Control, NoLostWakeup, Held, Agree, Served
  <2>4. TypeOK
    BY TypeInit
  <2> QED BY <2>2, <2>3, <2>4 DEF IInv
<1>2. IInv /\ [Next]_vars => IInv'
  BY TypeStep, ControlStep, SequencedStep, ServedStep DEF IInv
<1> QED BY <1>1, <1>2, PTL DEF Spec

\* A writer asleep in write_wcond.wait has no data and no request to stop, so
\* no signal of write() or close() was lost.
THEOREM NoWakeupIsLost == Spec => []NoLostWakeup
<1>1. IInv => NoLostWakeup
  BY DEF IInv, Control
<1> QED BY <1>1, Invariance, PTL

\* A writer that sleeps or has returned keeps no data in user or kernel buffers.
THEOREM NothingIsHeldBack == Spec => []NothingHeldBack
<1>1. IInv => NothingHeldBack
  BY DEF IInv, Control, Held, NothingHeldBack
<1> QED BY <1>1, Invariance, PTL

\* close() reaches fclose only after the writer has returned.
THEOREM FileOutlivesWriter == Spec => []NotClosedInUse
<1>1. IInv => NotClosedInUse
  BY DEF IInv, Control, Agree, NotClosedInUse
<1> QED BY <1>1, Invariance, PTL

\* Types, wakeups and the FILE: what the run checks as one invariant.
THEOREM WriterIsSafe == Spec => []WriterSafe
BY TypeCorrect, NoWakeupIsLost, FileOutlivesWriter, PTL DEF WriterSafe

\* Messages keep the order of acceptance, and none is lost or duplicated.
THEOREM Sequencing == Spec => [](InOrder /\ Accounted)
<1>1. IInv => InOrder /\ Accounted
  BY DEF IInv, Sequenced
<1> QED BY <1>1, Invariance, PTL

\* Where a thread can be had on every open, all that was accepted before
\* close() is in the file when close() gets to fclose.
THEOREM ClosePromise == StartReliable => (Spec => []CloseKeepsPromise)
<1>1. StartReliable /\ IInv => CloseKeepsPromise
  BY DEF IInv, Control, Agree, Served, CloseKeepsPromise
<1>2. ASSUME StartReliable  PROVE IInv => CloseKeepsPromise
  BY <1>1, <1>2
<1>3. ASSUME StartReliable  PROVE Spec => []CloseKeepsPromise
  <2>1. IInv => CloseKeepsPromise
    BY <1>2, <1>3
  <2> QED BY <2>1, Invariance, PTL
<1> QED BY <1>3
-----------------------------------------------------------------------------
(* Refinement of WriteLog *)

\* Every step of the proxy is a step of the log, or leaves the log alone.
LEMMA LogStep == IInv /\ [Next]_vars => [Log!Next]_(Log!vars)
<1> SUFFICES ASSUME IInv, [Next]_vars  PROVE [Log!Next]_(Log!vars)
  OBVIOUS
<1> DEFINE Pending == cache \o stdio \o write_queue
<1>0. /\ disk \in Seq(Nat) /\ cache \in Seq(Nat) /\ stdio \in Seq(Nat)
      /\ write_queue \in Seq(Nat) /\ accepted \in Nat
      /\ writer # "flush" => stdio = <<>>
      /\ writer # "sync" => cache = <<>>
  BY DEF IInv, TypeOK, Control, Held
<1>1. CASE UNCHANGED <<accepted, Pending, disk, discarded>>
  BY <1>1 DEF Log!vars
<1>2. CASE \/ SpuriousWakeup \/ WriterSleeps \/ WriterReturns \/ CloseRaisesStop
           \/ CloseProbes \/ CloseJoins \/ UNCHANGED vars
  BY <1>1, <1>2 DEF SpuriousWakeup, WriterSleeps, WriterReturns, CloseRaisesStop,
     CloseProbes, CloseJoins, vars, fileVars, histVars
<1>3. CASE WriterTakes
  <2>1. Pending' = cache \o (stdio \o write_queue) \o <<>>
    BY <1>3 DEF WriterTakes
  <2>2. cache \o (stdio \o write_queue) \in Seq(Nat)
    BY <1>0, ConcatProperties
  <2>3. Pending' = cache \o (stdio \o write_queue)
    BY <2>1, <2>2, ConcatEmptySeq
  <2>4. cache \o (stdio \o write_queue) = Pending
    BY <1>0, Assoc, ZenonT(40)
  <2> QED BY <1>1, <1>3, <2>3, <2>4 DEF WriterTakes, histVars
<1>4. CASE WriterFlushes \/ CloseFcloses
  <2>1. Pending' = cache \o stdio \o <<>> \o write_queue
    BY <1>4 DEF WriterFlushes, CloseFcloses
  <2>2. cache \o stdio \o <<>> = cache \o stdio
    BY <1>0, ConcatType, ConcatEmptySeq
  <2> QED BY <1>1, <1>4, <2>1, <2>2 DEF WriterFlushes, CloseFcloses, histVars
<1>5. CASE WriterSyncs
  <2>1. disk' = disk \o cache /\ Pending' = <<>> \o stdio \o write_queue
    BY <1>5 DEF WriterSyncs
  <2>2. Pending' = stdio \o write_queue /\ stdio \o write_queue \in Seq(Nat)
    BY <1>0, <2>1, ConcatEmptySeq, ConcatProperties
  <2>3. disk \o cache \o (stdio \o write_queue) = disk \o (cache \o (stdio \o write_queue))
    BY <1>0, <2>2, Assoc, ZenonT(30)
  <2>4. cache \o (stdio \o write_queue) = Pending
    BY <1>0, Assoc, ZenonT(40)
  <2>5. disk' \o Pending' = disk \o Pending
    BY <2>1, <2>2, <2>3, <2>4
  <2>6. Log!Prefix(disk, disk')
    BY <1>0, <2>1, PrefixConcat DEF Prefix, Log!Prefix
  <2>7. Log!Persist
    BY <1>5, <2>5, <2>6 DEF WriterSyncs, histVars, Log!Persist
  <2> QED BY <2>7 DEF Log!Next
<1>6. CASE Write
  <2>1. Pending' = cache \o stdio \o Append(write_queue, accepted + 1)
    BY <1>6 DEF Write, fileVars
  <2>2. cache \o stdio \in Seq(Nat) /\ accepted + 1 \in Nat
    BY <1>0, ConcatProperties
  <2>3. Pending' = Append(Pending, accepted + 1)
    BY <1>0, <2>1, <2>2, ConcatAppend
  <2>4. Log!Accept
    BY <1>6, <2>3 DEF Write, fileVars, Log!Accept
  <2> QED BY <2>4 DEF Log!Next
<1>7. CASE ClearWriteQueue
  <2> DEFINE Kept == cache \o stdio
  <2>1. Kept \in Seq(Nat) /\ Pending = Kept \o write_queue /\ Pending' = Kept \o <<>>
    BY <1>0, <1>7, ConcatProperties DEF ClearWriteQueue, fileVars
  <2>2. Pending' = Kept
    BY <2>1, ConcatEmptySeq
  <2>3. Log!Prefix(Pending', Pending)
    <3>1. Prefix(Kept, Kept \o write_queue)
      BY <1>0, <2>1, PrefixConcat
    <3>2. Log!Prefix(Kept, Kept \o write_queue)
      BY <3>1, Zenon DEF Prefix, Log!Prefix
    <3> QED BY <2>2, <3>2
  <2>4. Items(Kept) \cap Items(write_queue) = {}
    <3>1. disk \o (Kept \o write_queue) = disk \o Kept \o write_queue
      BY <1>0, <2>1, Assoc, ZenonT(90)
    <3>2. disk \o Kept = disk \o cache \o stdio
      BY <1>0, Assoc, ZenonT(40)
    <3>3. Increasing(disk \o Kept \o write_queue)
      BY <3>2 DEF IInv, Sequenced, InOrder
    <3>4. Increasing(Kept \o write_queue) /\ Kept \o write_queue \in Seq(Nat)
      BY <1>0, <2>1, <3>1, <3>3, IncreasingConcat, ConcatProperties
    <3> QED BY <1>0, <2>1, <3>4, IncreasingConcat
  <2>5. Items(Pending) = Items(Kept) \cup Items(write_queue)
    BY <1>0, <2>1, ItemsConcat
  <2>6. Log!Items(Pending) \ Log!Items(Pending') = Items(write_queue)
    BY <2>2, <2>4, <2>5 DEF Items, Log!Items
  <2>7. Log!Drop
    BY <1>7, <2>3, <2>6 DEF ClearWriteQueue, fileVars, Log!Drop
  <2> QED BY <2>7 DEF Log!Next
<1>8. CASE Open
  <2>1. stdio = <<>> /\ cache = <<>> /\ stdio' = <<>>
    BY <1>0, <1>8 DEF Open, IInv, Control, Agree
  <2>2. accepted' = accepted /\ write_queue' = write_queue
    BY <1>8 DEF Open
  <2>3. CASE FopenAppend
    BY <1>1, <2>1, <2>2, <2>3 DEF FopenAppend
  <2>4. CASE FopenWrite
    <3>1. disk \o cache = disk
      BY <1>0, <2>1, ConcatEmptySeq
    <3>2. disk' = <<>> /\ discarded' = discarded \cup Log!Items(disk)
      BY <2>4, <3>1 DEF FopenWrite, Items, Log!Items
    <3>3. Pending' = Pending
      BY <2>1, <2>2, <2>4 DEF FopenWrite
    <3>4. Log!Truncate
      BY <2>2, <3>2, <3>3 DEF Log!Truncate
    <3> QED BY <3>4 DEF Log!Next
  <2> QED BY <1>8, <2>3, <2>4 DEF Open
<1> QED
  BY <1>2, <1>3, <1>4, <1>5, <1>6, <1>7, <1>8 DEF Next, Writer, Close, Finished

\* The proxy implements the log.
THEOREM Refinement == Spec => ImplementsLog
<1>1. Init => Log!Init
  BY EmptySeq, ConcatEmptySeq DEF Init, Log!Init
<1> QED BY <1>1, LogStep, Invariance, PTL DEF Spec, ImplementsLog, Log!Spec
=============================================================================
