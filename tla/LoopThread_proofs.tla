------------------------- MODULE LoopThread_proofs -------------------------
(***************************************************************************)
(* Theorems about LoopThread, for any set of controllers.  What depends on *)
(* tid holds under Discipline: isRunning() stores tid = 0 without a lock,  *)
(* so on a platform where it ever does, one thread must use the object.    *)
(***************************************************************************)
EXTENDS LoopThread, TLAPS

Discipline == \/ Controllers = {Owner}
              \/ ProbeEnded = {TRUE} /\ ProbeStale = {TRUE}

\* An iteration that was already past the check when a flag went up.
OneInFlight == stopFlag \/ suspendFlag =>
                 \/ late = 0
                 \/ late = 1 /\ loop # "sleep"

\* What every call in progress knows of tid.
HandleInv ==
  Discipline =>
    /\ loop # "off" <=> tid = "live"
    /\ tid # "detached"
    /\ \A c \in Controllers : call[c] = "clear" =>
         Controllers = {Owner} /\ tid \in {"ended", "stale"}
    /\ call[Owner] \in {"join", "joining"} => tid # "none"
    /\ destroyed => loop = "off"

IInv == TypeOK /\ NoLostWakeup /\ OneInFlight /\ HandleInv
-----------------------------------------------------------------------------
\* Handles stay handles, and isRunning() answers with a Boolean.
LEMMA HandleType ==
  ASSUME NEW h \in HandleStates, NEW running \in BOOLEAN, NEW created \in BOOLEAN
  PROVE  /\ Started(h, running, created) \in HandleStates
         /\ AfterProbe(h, running) \in HandleStates
         /\ Terminated(h) \in HandleStates /\ Joined(h) \in HandleStates
BY DEF Started, AfterProbe, Terminated, Joined, HandleStates

LEMMA ProbeType == \A h : Probe(h) \in SUBSET BOOLEAN
BY HandleAssumption DEF Probe, HandleAssumption

\* What stop(), suspend() and resume() do to the flags and the history.
LEMMA ApplyFacts ==
  ASSUME TypeOK, OneInFlight, NEW op \in FlagCalls, Apply(op)
  PROVE  /\ stopFlag' \in BOOLEAN /\ suspendFlag' \in BOOLEAN /\ late' \in 0 .. 2
         /\ \/ stopFlag' \/ suspendFlag' => \/ late' = 0
                                            \/ late' = 1 /\ loop # "sleep"
<1>1. CASE op = "stop"
  BY <1>1 DEF Apply, SetFlags, TypeOK, OneInFlight
<1>2. CASE op = "suspend"
  BY <1>2 DEF Apply, SetFlags, TypeOK, OneInFlight
<1>3. CASE op = "resume"
  <2>1. SetFlags(stopFlag, FALSE)
    BY <1>3 DEF Apply
  <2>2. suspendFlag' \in BOOLEAN /\ ~suspendFlag'
    BY <2>1, Zenon DEF SetFlags
  <2> QED BY <2>1, <2>2 DEF SetFlags, TypeOK, OneInFlight
<1> QED BY <1>1, <1>2, <1>3 DEF FlagCalls

\* Types, wakeups and the iteration in flight, in every step.
LEMMA FlagStep ==
  TypeOK /\ NoLostWakeup /\ OneInFlight /\ [Next]_vars
    => (TypeOK /\ NoLostWakeup /\ OneInFlight)'
<1> SUFFICES ASSUME TypeOK, NoLostWakeup, OneInFlight, [Next]_vars
             PROVE  (TypeOK /\ NoLostWakeup /\ OneInFlight)'
  OBVIOUS
<1> USE DEF TypeOK, NoLostWakeup, OneInFlight, LoopStates
<1>1. CASE HeadFunc
  BY <1>1 DEF HeadFunc
<1>2. CASE Check
  BY <1>2 DEF Check
<1>3. CASE SleepFunc
  BY <1>3 DEF SleepFunc
<1>4. CASE EachLoop
  <2>1. /\ loop = "each" /\ loop' = "check"
        /\ UNCHANGED <<tid, call, destroyed, starts>>
    BY <1>4 DEF EachLoop
  <2>2. CASE UNCHANGED <<stopFlag, suspendFlag, late>>
    BY <2>1, <2>2
  <2>3. CASE \E op \in FlagCalls : Apply(op)
    BY <2>1, <2>3, ApplyFacts
  <2> QED BY <1>4, <2>2, <2>3 DEF EachLoop
<1>5. CASE TailFunc
  BY <1>5, HandleType DEF TailFunc
<1>6. CASE SpuriousWakeup
  BY <1>6 DEF SpuriousWakeup
<1>7. ASSUME NEW c \in Controllers, EnterFlagCall(c) \/ EnterJoin
      PROVE  (TypeOK /\ NoLostWakeup /\ OneInFlight)'
  <2>1. PICK d \in Controllers, op \in FlagCalls \cup {"join"} : Enter(d, op)
    BY <1>7, ControllerAssumption DEF EnterFlagCall, EnterJoin, ControllerAssumption
  <2>2. /\ call' \in [Controllers -> Calls]
        /\ UNCHANGED <<tid, loop, stopFlag, suspendFlag, destroyed, starts, late>>
    BY <2>1 DEF Enter, Calls
  <2> QED BY <2>2
<1>8. ASSUME NEW c \in Controllers, ClearTid(c)
      PROVE  (TypeOK /\ NoLostWakeup /\ OneInFlight)'
  BY <1>8 DEF ClearTid, Calls, HandleStates
<1>9. ASSUME NEW c \in Controllers, SetFlag(c)
      PROVE  (TypeOK /\ NoLostWakeup /\ OneInFlight)'
  <2>1. /\ call[c] \in FlagCalls /\ Apply(call[c]) /\ loop' = Notified
        /\ call' = [call EXCEPT ![c] = "idle"]
        /\ UNCHANGED <<tid, destroyed, starts>>
    BY <1>9 DEF SetFlag
  <2>2. loop' # "waiting" /\ loop' \in LoopStates /\ (loop' = "sleep" <=> loop = "sleep")
    BY <2>1 DEF Notified
  <2>3. call' \in [Controllers -> Calls]
    BY <2>1 DEF Calls
  <2> QED BY <2>1, <2>2, <2>3, ApplyFacts
<1>10. CASE BeginJoin
  BY <1>10 DEF BeginJoin, Calls
<1>11. CASE EndJoin
  BY <1>11, HandleType DEF EndJoin, Calls
<1>12. CASE Start
  BY <1>12, HandleType, ProbeType, HandleAssumption DEF Start, HandleAssumption
<1>13. CASE Destroy
  <2>1. PICK running \in Probe(tid) :
          /\ IF running THEN Apply("stop")
                        ELSE UNCHANGED <<stopFlag, suspendFlag, late>>
          /\ tid' = AfterProbe(tid, running)
    BY <1>13 DEF Destroy
  <2>2. /\ stopFlag' \in BOOLEAN /\ suspendFlag' \in BOOLEAN /\ late' \in 0 .. 2
        /\ \/ stopFlag' \/ suspendFlag' => \/ late' = 0
                                           \/ late' = 1 /\ loop # "sleep"
    BY <2>1, ApplyFacts DEF FlagCalls
  <2>3. /\ loop' # "waiting" /\ loop' \in LoopStates
        /\ loop' = "sleep" <=> loop = "sleep"
    BY <1>13 DEF Destroy, Notified
  <2>4. tid' \in HandleStates
    BY <2>1, HandleType, ProbeType
  <2> QED BY <1>13, <2>2, <2>3, <2>4 DEF Destroy
<1>14. CASE UNCHANGED vars
  BY <1>14 DEF vars
<1> QED
  BY <1>1, <1>2, <1>3, <1>4, <1>5, <1>6, <1>7, <1>8, <1>9, <1>10, <1>11,
     <1>12, <1>13, <1>14, ControllerAssumption
     DEF Next, Proceed, Loop, Join, Finished, ControllerAssumption
-----------------------------------------------------------------------------
\* What is known of tid, in every step.
LEMMA HandleStep == TypeOK /\ HandleInv /\ [Next]_vars => HandleInv'
<1> SUFFICES ASSUME TypeOK, HandleInv, [Next]_vars, Discipline
             PROVE  /\ loop' # "off" <=> tid' = "live"
                    /\ tid' # "detached"
                    /\ \A c \in Controllers : call'[c] = "clear" =>
                         Controllers = {Owner} /\ tid' \in {"ended", "stale"}
                    /\ call'[Owner] \in {"join", "joining"} => tid' # "none"
                    /\ destroyed' => loop' = "off"
  BY DEF HandleInv, Discipline
<1>0. /\ loop # "off" <=> tid = "live"
      /\ tid # "detached"
      /\ \A c \in Controllers : call[c] = "clear" =>
           Controllers = {Owner} /\ tid \in {"ended", "stale"}
      /\ call[Owner] \in {"join", "joining"} => tid # "none"
      /\ destroyed => loop = "off"
      /\ call \in [Controllers -> Calls] /\ Owner \in Controllers
  BY ControllerAssumption DEF HandleInv, TypeOK, ControllerAssumption
<1>1. CASE HeadFunc \/ Check \/ SleepFunc \/ EachLoop \/ SpuriousWakeup
  BY <1>0, <1>1 DEF HeadFunc, Check, SleepFunc, EachLoop, SpuriousWakeup
<1>2. CASE TailFunc
  BY <1>0, <1>2 DEF TailFunc, Terminated
<1>3. ASSUME NEW c \in Controllers, EnterFlagCall(c) \/ EnterJoin
      PROVE  HandleInv'
  <2>1. PICK d \in Controllers, op \in FlagCalls \cup {"join"} : Enter(d, op)
    BY <1>0, <1>3 DEF EnterFlagCall, EnterJoin
  <2>2. PICK running \in Probe(tid) :
          call' = [call EXCEPT ![d] = IF running THEN op ELSE "clear"]
    BY <2>1 DEF Enter
  <2>3. /\ tid # "none"
        /\ UNCHANGED <<tid, loop, stopFlag, suspendFlag, destroyed, starts, late>>
    BY <2>1 DEF Enter
  <2>4. ~running => Controllers = {Owner} /\ tid \in {"ended", "stale"}
    BY <2>2, <2>3, <1>0 DEF Probe, Discipline, TypeOK, HandleStates
  <2> QED BY <1>0, <2>2, <2>3, <2>4 DEF HandleInv, FlagCalls
<1>4. ASSUME NEW c \in Controllers, ClearTid(c)  PROVE HandleInv'
  <2>1. c = Owner /\ Controllers = {Owner} /\ tid # "live"
    BY <1>0, <1>4 DEF ClearTid
  <2> QED BY <1>0, <1>4, <2>1 DEF ClearTid, HandleInv
<1>5. ASSUME NEW c \in Controllers, SetFlag(c)  PROVE HandleInv'
  BY <1>0, <1>5 DEF SetFlag, Notified, HandleInv
<1>6. CASE BeginJoin
  BY <1>0, <1>6 DEF BeginJoin
<1>7. CASE EndJoin
  BY <1>0, <1>7 DEF EndJoin, Joined
<1>8. CASE Start
  <2>1. PICK running \in Probe(tid), created \in CreateOutcomes :
          /\ tid' = Started(tid, running, created)
          /\ loop' = IF ~running /\ created THEN "head" ELSE loop
    BY <1>8 DEF Start
  <2>2. tid = "live" => running
    BY <2>1 DEF Probe
  <2>3. \A c \in Controllers : call[c] # "clear"
    BY <1>0, <1>8 DEF Start
  <2> QED BY <1>0, <1>8, <2>1, <2>2, <2>3 DEF Start, Started
<1>9. CASE Destroy
  BY <1>0, <1>9 DEF Destroy, Notified, AfterProbe
<1>10. CASE UNCHANGED vars
  BY <1>0, <1>10 DEF vars
<1>11. HandleInv' => /\ loop' # "off" <=> tid' = "live"
                     /\ tid' # "detached"
                     /\ \A c \in Controllers : call'[c] = "clear" =>
                          Controllers = {Owner} /\ tid' \in {"ended", "stale"}
                     /\ call'[Owner] \in {"join", "joining"} => tid' # "none"
                     /\ destroyed' => loop' = "off"
  BY DEF HandleInv, Discipline
<1> QED
  BY <1>0, <1>1, <1>2, <1>3, <1>4, <1>5, <1>6, <1>7, <1>8, <1>9, <1>10, <1>11
     DEF Next, Proceed, Loop, Join, Finished
-----------------------------------------------------------------------------
\* The inductive invariant holds in every reachable state.
THEOREM Invariance == Spec => []IInv
<1>1. Init => IInv
  <2> SUFFICES ASSUME Init  PROVE IInv
    OBVIOUS
  <2>1. stopFlag \in BOOLEAN /\ suspendFlag \in BOOLEAN /\ destroyed \in BOOLEAN
    BY Zenon DEF Init
  <2>2. TypeOK
    BY <2>1 DEF Init, TypeOK, HandleStates, LoopStates, Calls
  <2>3. NoLostWakeup /\ OneInFlight
    BY DEF Init, NoLostWakeup, OneInFlight
  <2>4. HandleInv
    BY ControllerAssumption DEF Init, HandleInv, ControllerAssumption
  <2> QED BY <2>2, <2>3, <2>4 DEF IInv
<1>2. IInv /\ [Next]_vars => IInv'
  BY FlagStep, HandleStep DEF IInv
<1> QED BY <1>1, <1>2, PTL DEF Spec

\* The types hold in every reachable state.
THEOREM TypeCorrect == Spec => []TypeOK
<1>1. IInv => TypeOK
  BY DEF IInv
<1> QED BY <1>1, Invariance, PTL

\* The loop sleeps only while it is suspended and nobody has stopped it:
\* no signal of stop() or resume() is lost, on any platform.
THEOREM NoWakeupIsLost == Spec => []NoLostWakeup
<1>1. IInv => NoLostWakeup
  BY DEF IInv
<1> QED BY <1>1, Invariance, PTL

\* After stop() or suspend() at most the iteration in flight still begins,
\* on any platform and however many threads use the object.
THEOREM StopsSoon == Spec => []AtMostOneMore
<1>1. IInv => AtMostOneMore
  BY DEF IInv, OneInFlight, AtMostOneMore, TypeOK
<1> QED BY <1>1, Invariance, PTL

\* Under Discipline the object outlives its loop, tid names the running loop
\* and pthread_join always gets a thread.
THEOREM HandleIsSound ==
  Discipline => (Spec => [](OutlivesLoop /\ HandleFollowsLoop /\ JoinsSomething))
<1> SUFFICES ASSUME Discipline
             PROVE  Spec => [](OutlivesLoop /\ HandleFollowsLoop /\ JoinsSomething)
  OBVIOUS
<1>1. IInv => OutlivesLoop /\ HandleFollowsLoop /\ JoinsSomething
  BY DEF IInv, HandleInv, OutlivesLoop, HandleFollowsLoop, JoinsSomething
<1> QED BY <1>1, Invariance, PTL

\* Types, wakeups, the handle and the object's life: what the runs check as one invariant.
THEOREM LoopIsSafe == Discipline => (Spec => []LoopSafe)
<1> SUFFICES ASSUME Discipline PROVE Spec => []LoopSafe
  OBVIOUS
<1>1. IInv => LoopSafe
  BY DEF IInv, HandleInv, LoopSafe, OutlivesLoop, HandleFollowsLoop
<1> QED BY <1>1, Invariance, PTL
=============================================================================
