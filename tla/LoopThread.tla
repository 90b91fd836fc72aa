----------------------------- MODULE LoopThread -----------------------------
(***************************************************************************)
(* cutil::LoopThreadBase and LoopThread (core/Thread.h, Thread.ipp): a     *)
(* thread that repeats sleepFunc(); eachLoop() until stop(), and pauses    *)
(* between suspend() and resume().                                         *)
(*                                                                         *)
(* Any controller thread, and eachLoop() itself, may call stop(), suspend()*)
(* and resume().  Each call asks isRunning() first and only then locks     *)
(* suspendMutex, so the answer may be old when the flag is set: the two    *)
(* are separate steps.  So are, in isRunning(), the question and the       *)
(* `tid = 0` that follows ESRCH: tid has no lock.  One controller, the     *)
(* owner, also starts, joins and destroys the object.                      *)
(***************************************************************************)
EXTENDS ThreadHandle, Naturals

CONSTANTS Controllers,  \* the threads that use the object
          Owner,        \* the one that starts, joins and destroys it
          MaxStarts     \* bound: how often start() calls pthread_create

ASSUME ControllerAssumption == Owner \in Controllers /\ MaxStarts \in Nat

VARIABLES
  tid,          \* the inherited Thread object, see ThreadHandle
  loop,         \* where the loop thread is in operator()
  stopFlag, suspendFlag,
  call,         \* call[c]: the call controller c is in, after isRunning()
  destroyed,    \* the object's destructors have returned
  starts,       \* number of pthread_create calls
  late          \* history: eachLoop() calls begun since a flag went up (at most 2)

vars == <<tid, loop, stopFlag, suspendFlag, call, destroyed, starts, late>>

LoopStates == {"off",      \* no loop thread
               "head",     \* in headFunc()
               "check",    \* about to hold suspendMutex: loop head, or woken
               "waiting",  \* in suspendCondition.wait
               "sleep",    \* in sleepFunc()
               "each",     \* in eachLoop()
               "tail"}     \* in tailFunc()
FlagCalls == {"stop", "suspend", "resume"}
Calls == FlagCalls \cup {"idle",
                         "clear",    \* in isRunning(), about to set tid = 0
                         "join",     \* about to call pthread_join(tid)
                         "joining"}  \* in pthread_join

Init == /\ tid = "none" /\ loop = "off"
        /\ stopFlag = FALSE /\ suspendFlag = FALSE
        /\ call = [c \in Controllers |-> "idle"]
        /\ destroyed = FALSE /\ starts = 0 /\ late = 0
-----------------------------------------------------------------------------
(* What stop(), suspend() and resume() do under suspendMutex *)

\* Mutant: no notify().
MutNotified == loop

\* The loop thread is the only one that ever waits, so notify() wakes it.
Notified == IF loop = "waiting" THEN "check" ELSE loop

\* `late` counts from the moment one of the flags goes up.
SetFlags(stopping, suspending) ==
  /\ stopFlag' = stopping
  /\ suspendFlag' = suspending
  /\ late' = IF stopFlag \/ suspendFlag THEN late ELSE 0

Apply(op) == CASE op = "stop"    -> SetFlags(TRUE, suspendFlag)
               [] op = "suspend" -> SetFlags(stopFlag, TRUE)
               [] op = "resume"  -> SetFlags(stopFlag, FALSE)
-----------------------------------------------------------------------------
(* operator(), the loop thread *)

HeadFunc == /\ loop = "head"
            /\ loop' = "check"
            /\ UNCHANGED <<tid, stopFlag, suspendFlag, call, destroyed, starts,
                           late>>

\* Mutants: suspendFlag is not looked at, or before stopFlag.
MutCheckStopOnly ==
  /\ loop = "check"
  /\ loop' = IF stopFlag THEN "tail" ELSE "sleep"
  /\ UNCHANGED <<tid, stopFlag, suspendFlag, call, destroyed, starts, late>>

MutCheckSuspendFirst ==
  /\ loop = "check"
  /\ loop' = IF suspendFlag THEN "waiting"
             ELSE IF stopFlag THEN "tail" ELSE "sleep"
  /\ UNCHANGED <<tid, stopFlag, suspendFlag, call, destroyed, starts, late>>

\* One passage of the critical section, from the lock or a wakeup to the
\* unlock or the wait.
Check == /\ loop = "check"
         /\ loop' = IF stopFlag THEN "tail"
                    ELSE IF suspendFlag THEN "waiting" ELSE "sleep"
         /\ UNCHANGED <<tid, stopFlag, suspendFlag, call, destroyed, starts,
                        late>>

SleepFunc == /\ loop = "sleep"
             /\ loop' = "each"
             /\ late' = IF late < 2 THEN late + 1 ELSE late
             /\ UNCHANGED <<tid, stopFlag, suspendFlag, call, destroyed, starts>>

\* eachLoop() is the user's: it may call stop(), suspend() or resume() on its
\* own object, which finds itself running and never waits for itself.
EachLoop == /\ loop = "each"
            /\ loop' = "check"
            /\ \/ UNCHANGED <<stopFlag, suspendFlag, late>>
               \/ \E op \in FlagCalls : Apply(op)
            /\ UNCHANGED <<tid, call, destroyed, starts>>

TailFunc == /\ loop = "tail"
            /\ loop' = "off"
            /\ tid' = Terminated(tid)
            /\ UNCHANGED <<stopFlag, suspendFlag, call, destroyed, starts, late>>

Loop == HeadFunc \/ Check \/ SleepFunc \/ EachLoop \/ TailFunc

SpuriousWakeup == /\ loop = "waiting"
                  /\ loop' = "check"
                  /\ UNCHANGED <<tid, stopFlag, suspendFlag, call, destroyed,
                                 starts, late>>
-----------------------------------------------------------------------------
(* stop(), suspend(), resume() and join() of a controller *)

\* isRunning(): after a FALSE answer the call returns false, at once or after
\* having cleared tid.
Enter(c, op) == /\ ~destroyed
                /\ call[c] = "idle"
                /\ tid # "none"
                /\ \E running \in Probe(tid) :
                     call' = [call EXCEPT ![c] = IF running THEN op ELSE "clear"]
                /\ UNCHANGED <<tid, loop, stopFlag, suspendFlag, destroyed,
                               starts, late>>

ClearTid(c) == /\ call[c] = "clear"
               /\ tid' = "none"
               /\ call' = [call EXCEPT ![c] = "idle"]
               /\ UNCHANGED <<loop, stopFlag, suspendFlag, destroyed, starts,
                              late>>

EnterFlagCall(c) == \E op \in FlagCalls : Enter(c, op)
EnterJoin == Enter(Owner, "join")

\* The critical section of stop(), suspend() or resume().
SetFlag(c) == /\ call[c] \in FlagCalls
              /\ Apply(call[c])
              /\ loop' = Notified
              /\ call' = [call EXCEPT ![c] = "idle"]
              /\ UNCHANGED <<tid, destroyed, starts>>

\* What a call goes on with, depending on the answer of isRunning().
Proceed(c) == IF call[c] = "clear" THEN ClearTid(c) ELSE SetFlag(c)

\* pthread_join takes its own copy of tid; that of 0 is undefined.
BeginJoin == /\ call[Owner] = "join"
             /\ call' = [call EXCEPT ![Owner] =
                           IF tid = "live" \/ JoinReturns(tid) THEN "joining"
                           ELSE "idle"]
             /\ UNCHANGED <<tid, loop, stopFlag, suspendFlag, destroyed, starts,
                            late>>

EndJoin == /\ call[Owner] = "joining"
           /\ loop = "off"
           /\ tid' = Joined(tid)
           /\ call' = [call EXCEPT ![Owner] = "idle"]
           /\ UNCHANGED <<loop, stopFlag, suspendFlag, destroyed, starts, late>>

Join == BeginJoin \/ EndJoin
-----------------------------------------------------------------------------
(* start() and the destructors, by the owner *)

\* start() does not touch stopFlag and suspendFlag: they keep the values of an
\* earlier life of the object.
Start == /\ ~destroyed
         /\ call[Owner] = "idle"
         /\ starts < MaxStarts
         /\ \E running \in Probe(tid), created \in CreateOutcomes :
              /\ tid' = Started(tid, running, created)
              /\ loop' = IF ~running /\ created THEN "head" ELSE loop
              /\ starts' = IF ~running THEN starts + 1 ELSE starts
         /\ UNCHANGED <<stopFlag, suspendFlag, call, destroyed, late>>

\* Mutant: the object is destroyed without a join().
MutDestroy == /\ ~destroyed
              /\ \A c \in Controllers : call[c] = "idle"
              /\ \E running \in Probe(tid) :
                   /\ IF running THEN Apply("stop")
                                 ELSE UNCHANGED <<stopFlag, suspendFlag, late>>
                   /\ tid' = AfterProbe(tid, running)
              /\ destroyed' = TRUE
              /\ loop' = Notified
              /\ UNCHANGED <<call, starts>>

\* ~LoopThreadBase() calls stop() and ~Thread() joins only what isRunning()
\* denies, so neither waits for the thread.  The owner therefore destroys the
\* object only after join(), as core/test/thread_test.cpp:85-88 does, and when
\* no other thread is in a call.
Destroy == /\ ~destroyed
           /\ \A c \in Controllers : call[c] = "idle"
           /\ tid \in {"none", "stale"}
           /\ \E running \in Probe(tid) :
                /\ IF running THEN Apply("stop")
                              ELSE UNCHANGED <<stopFlag, suspendFlag, late>>
                /\ tid' = AfterProbe(tid, running)
           /\ destroyed' = TRUE
           /\ loop' = Notified
           /\ UNCHANGED <<call, starts>>

Finished == destroyed /\ UNCHANGED vars
-----------------------------------------------------------------------------
Next == \/ Loop \/ SpuriousWakeup
        \/ \E c \in Controllers : EnterFlagCall(c) \/ Proceed(c)
        \/ EnterJoin \/ Join
        \/ Start \/ Destroy \/ Finished

Spec == Init /\ [][Next]_vars

\* The scheduler runs the loop thread whenever it can run (sleepFunc() and the
\* user's functions return), and a call that was entered goes on.
FairSpec == /\ Spec
            /\ WF_vars(Loop)
            /\ \A c \in Controllers : WF_vars(Proceed(c))
            /\ WF_vars(Join)
-----------------------------------------------------------------------------
(* Properties *)

TypeOK == /\ tid \in HandleStates
          /\ loop \in LoopStates
          /\ stopFlag \in BOOLEAN /\ suspendFlag \in BOOLEAN
          /\ call \in [Controllers -> Calls]
          /\ destroyed \in BOOLEAN
          /\ starts \in Nat
          /\ late \in 0 .. 2

\* No wakeup is lost: the loop sleeps in suspendCondition.wait only while it
\* is suspended and nobody has stopped it.
NoLostWakeup == loop = "waiting" => suspendFlag /\ ~stopFlag

\* Once a stop() or suspend() has set its flag, at most one eachLoop() still
\* begins (the loop may be in sleepFunc()) until every flag is down again; this
\* includes later threads of the same object, since no start() clears stopFlag.
AtMostOneMore == stopFlag \/ suspendFlag => late <= 1

\* The object is never destroyed under a running operator().
OutlivesLoop == destroyed => loop = "off"

\* The object and the thread agree: a thread in operator() is the one tid names.
HandleFollowsLoop == loop # "off" <=> tid = "live"

\* The loop, its flags, its object and its handle belong together
\* (Thread.ipp:426-487, 203-239).
LoopSafe == TypeOK /\ NoLostWakeup /\ OutlivesLoop /\ HandleFollowsLoop

\* A stopped loop ends, even one that was suspended.
StopEndsLoop == stopFlag ~> loop = "off"

\* A running loop that is not suspended keeps iterating, so resume() restarts it.
KeepsIterating == []<>(loop = "each" \/ loop = "off" \/ suspendFlag)

\* pthread_join is never called on a tid that another call has cleared.
JoinsSomething == call[Owner] = "join" => tid # "none"
=============================================================================
