--------------------------- MODULE Thread_proofs ---------------------------
(***************************************************************************)
(* Theorems about Thread, for every answer of the thread library that      *)
(* HandleAssumption admits and any number of starts.                       *)
(***************************************************************************)
EXTENDS Thread, TLAPS

\* Between isRunning() and the lock, start() has seen that tid is 0.
SeenNone == user = "create" => tid = "none"

\* The thread can only be before its signal while its start() waits.
Handshake == HolderAlive /\ FlagIsMine

IInv == TypeOK /\ Handshake /\ NoOrphan /\ SeenNone
-----------------------------------------------------------------------------
\* Handles stay handles, and isRunning() answers with a Boolean.
LEMMA HandleType ==
  ASSUME NEW h \in HandleStates, NEW running \in BOOLEAN, NEW created \in BOOLEAN
  PROVE  /\ Started(h, running, created) \in HandleStates
         /\ AfterProbe(h, running) \in HandleStates
         /\ Terminated(h) \in HandleStates /\ Joined(h) \in HandleStates
BY DEF Started, AfterProbe, Terminated, Joined, HandleStates

LEMMA ProbeType == \A h : Probe(h) \in SUBSET BOOLEAN
BY HandleAssumption DEF Probe, HandleAssumption

\* isRunning() never denies a thread that has not returned.
LEMMA LiveIsSeen ==
  ASSUME NEW running \in Probe(tid), NoOrphan, TypeOK
  PROVE  /\ ~running => thread = "off" /\ tid \notin {"live", "detached"}
         /\ thread # "off" <=> AfterProbe(tid, running) \in {"live", "detached"}
         /\ running \in BOOLEAN
BY ProbeType DEF Probe, NoOrphan, TypeOK, AfterProbe, HandleStates

\* Every variable has its type in every step.
LEMMA TypeStep == TypeOK /\ NoOrphan /\ [Next]_vars => TypeOK'
<1> SUFFICES ASSUME TypeOK, NoOrphan, [Next]_vars  PROVE TypeOK'
  OBVIOUS
<1> USE DEF TypeOK, UserStates, ThreadStates, threadVars
<1>1. ASSUME NEW k \in Overloads, CallStart(k)  PROVE TypeOK'
  <2>1. PICK running \in Probe(tid) :
          /\ tid' = AfterProbe(tid, running)
          /\ user' = IF running THEN "idle" ELSE "create"
    BY <1>1 DEF CallStart
  <2>2. tid' \in HandleStates /\ user' \in UserStates
    BY <2>1, HandleType, ProbeType
  <2> QED BY <1>1, <2>2 DEF CallStart
<1>2. CASE Create
  <2>1. PICK created \in CreateOutcomes :
          /\ tid' = Started(tid, FALSE, created)
          /\ user' = IF created THEN "waiting" ELSE "idle"
          /\ thread' = IF created THEN "copy" ELSE thread
          /\ functor' = IF created THEN overload ELSE functor
    BY <1>2 DEF Create
  <2>2. created \in BOOLEAN
    BY HandleAssumption DEF HandleAssumption
  <2>3. tid' \in HandleStates
    BY <2>1, <2>2, HandleType
  <2>4. startFlag' \in BOOLEAN
    BY <1>2, Zenon DEF Create
  <2>5. user' \in UserStates /\ thread' \in ThreadStates /\ functor' \in Overloads
    BY <2>1, <2>2
  <2>6. starts' \in Nat /\ UNCHANGED <<overload, destroyed>>
    BY <1>2 DEF Create
  <2> QED BY <2>3, <2>4, <2>5, <2>6
<1>3. CASE Recheck
  BY <1>3 DEF Recheck
<1>4. CASE SpuriousWakeup \/ CopyHolder
  BY <1>4 DEF SpuriousWakeup, CopyHolder
<1>5. CASE Signal
  <2>1. startFlag' \in BOOLEAN
    BY <1>5, Zenon DEF Signal
  <2> QED BY <1>5, <2>1 DEF Signal
<1>6. CASE BodyReturns
  BY <1>6, HandleType DEF BodyReturns
<1>7. CASE IsRunning
  BY <1>7, HandleType, ProbeType DEF IsRunning
<1>8. CASE CallJoin
  <2>1. PICK running \in Probe(tid) :
          /\ tid' = AfterProbe(tid, running)
          /\ user' = IF running THEN "joining" ELSE "idle"
    BY <1>8 DEF CallJoin
  <2>2. tid' \in HandleStates /\ user' \in UserStates
    BY <2>1, HandleType, ProbeType
  <2> QED BY <1>8, <2>2 DEF CallJoin
<1>9. CASE EndJoin
  BY <1>9, HandleType DEF EndJoin
<1>10. CASE Detach
  <2>1. tid' \in HandleStates
    BY <1>10, ProbeType DEF Detach, HandleStates
  <2> QED BY <1>10, <2>1 DEF Detach
<1>11. CASE Destroy
  <2>1. tid' \in HandleStates
    BY <1>11, HandleType, ProbeType DEF Destroy
  <2>2. destroyed' \in BOOLEAN
    BY <1>11, Zenon DEF Destroy
  <2> QED BY <1>11, <2>1, <2>2 DEF Destroy
<1>12. CASE UNCHANGED vars
  BY <1>12 DEF vars
<1> QED
  BY <1>1, <1>2, <1>3, <1>4, <1>5, <1>6, <1>7, <1>8, <1>9, <1>10, <1>11, <1>12
     DEF Next, Finished

\* The handshake and the handle, in every step.
LEMMA HandshakeStep ==
  IInv /\ [Next]_vars => (Handshake /\ NoOrphan /\ SeenNone)'
<1> SUFFICES ASSUME IInv, [Next]_vars
             PROVE  (Handshake /\ NoOrphan /\ SeenNone)'
  OBVIOUS
<1>0. TypeOK /\ HolderAlive /\ FlagIsMine /\ NoOrphan /\ SeenNone
  BY DEF IInv, Handshake
<1> USE DEF Handshake, HolderAlive, FlagIsMine, NoOrphan, SeenNone, threadVars
<1>1. ASSUME NEW k \in Overloads, CallStart(k)
      PROVE  (Handshake /\ NoOrphan /\ SeenNone)'
  <2>1. PICK running \in Probe(tid) :
          /\ tid' = AfterProbe(tid, running)
          /\ user' = IF running THEN "idle" ELSE "create"
    BY <1>1 DEF CallStart
  <2>2. thread # "off" <=> tid' \in {"live", "detached"}
    BY <1>0, <2>1, LiveIsSeen
  <2>3. user' = "create" => tid' = "none"
    BY <2>1 DEF AfterProbe
  <2> QED BY <1>0, <1>1, <2>1, <2>2, <2>3 DEF CallStart
<1>2. CASE Create
  <2>1. PICK created \in CreateOutcomes :
          /\ tid' = Started(tid, FALSE, created)
          /\ user' = IF created THEN "waiting" ELSE "idle"
          /\ thread' = IF created THEN "copy" ELSE thread
    BY <1>2 DEF Create
  <2>2. thread = "off" /\ ~startFlag'
    BY <1>0, <1>2, Zenon DEF Create
  <2> QED BY <1>0, <2>1, <2>2 DEF Started
<1>3. CASE Recheck \/ SpuriousWakeup
  BY <1>0, <1>3 DEF Recheck, SpuriousWakeup
<1>4. CASE CopyHolder \/ Signal
  BY <1>0, <1>4 DEF CopyHolder, Signal
<1>5. CASE BodyReturns
  BY <1>0, <1>5 DEF BodyReturns, Terminated
<1>6. CASE IsRunning
  <2>1. thread # "off" <=> tid' \in {"live", "detached"}
    BY <1>0, <1>6, LiveIsSeen DEF IsRunning
  <2> QED BY <1>0, <1>6, <2>1 DEF IsRunning
<1>7. CASE CallJoin
  <2>1. PICK running \in Probe(tid) :
          /\ tid' = AfterProbe(tid, running)
          /\ user' = IF running THEN "joining" ELSE "idle"
    BY <1>7 DEF CallJoin
  <2>2. thread # "off" <=> tid' \in {"live", "detached"}
    BY <1>0, <2>1, LiveIsSeen
  <2> QED BY <1>0, <1>7, <2>1, <2>2 DEF CallJoin
<1>8. CASE EndJoin
  BY <1>0, <1>8 DEF EndJoin, Joined
<1>9. CASE Detach
  <2>1. PICK running \in Probe(tid) :
          tid' = CASE ~running                 -> "none"
                   [] running /\ tid = "live"  -> "detached"
                   [] running /\ tid = "ended" -> "stale"
                   [] OTHER                    -> tid
    BY <1>9 DEF Detach
  <2>2. /\ ~running => thread = "off" /\ tid \notin {"live", "detached"}
        /\ running \in BOOLEAN
    BY <1>0, LiveIsSeen
  <2> QED BY <1>0, <1>9, <2>1, <2>2 DEF Detach
<1>10. CASE Destroy
  <2>1. thread # "off" <=> tid' \in {"live", "detached"}
    BY <1>0, <1>10, LiveIsSeen DEF Destroy
  <2> QED BY <1>0, <1>10, <2>1 DEF Destroy
<1>11. CASE UNCHANGED vars
  BY <1>0, <1>11 DEF vars
<1> QED
  BY <1>1, <1>2, <1>3, <1>4, <1>5, <1>6, <1>7, <1>8, <1>9, <1>10, <1>11
     DEF Next, Finished
-----------------------------------------------------------------------------
\* The inductive invariant holds in every reachable state.
THEOREM Invariance == Spec => []IInv
<1>1. Init => IInv
  <2> SUFFICES ASSUME Init  PROVE IInv
    OBVIOUS
  <2>1. startFlag \in BOOLEAN /\ destroyed \in BOOLEAN
    BY Zenon DEF Init
  <2>2. TypeOK
    BY <2>1 DEF Init, TypeOK, HandleStates, UserStates, ThreadStates, Overloads
  <2>3. Handshake /\ NoOrphan /\ SeenNone
    BY DEF Init, Handshake, HolderAlive, FlagIsMine, NoOrphan, SeenNone
  <2> QED BY <2>2, <2>3 DEF IInv
<1>2. IInv /\ [Next]_vars => IInv'
  BY TypeStep, HandshakeStep DEF IInv
<1> QED BY <1>1, <1>2, PTL DEF Spec

\* The Holder in start()'s frame is alive whenever the new thread reads it.
THEOREM HolderIsAlive == Spec => []HolderAlive
<1>1. IInv => HolderAlive
  BY DEF IInv, Handshake
<1> QED BY <1>1, Invariance, PTL

\* startFlag of an earlier start() does not end the wait of a later one.
THEOREM FlagBelongsToStart == Spec => []FlagIsMine
<1>1. IInv => FlagIsMine
  BY DEF IInv, Handshake
<1> QED BY <1>1, Invariance, PTL

\* The object always names the thread it runs, so it never runs two.
THEOREM NoThreadIsOrphaned == Spec => []NoOrphan
<1>1. IInv => NoOrphan
  BY DEF IInv
<1> QED BY <1>1, Invariance, PTL

\* The handshake: what the run checks as one invariant.
THEOREM HandshakeIsSafe == Spec => []HandshakeSafe
<1>1. IInv => HandshakeSafe
  BY DEF IInv, Handshake, HandshakeSafe
<1> QED BY <1>1, Invariance, PTL
=============================================================================
