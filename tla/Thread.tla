------------------------------- MODULE Thread -------------------------------
(***************************************************************************)
(* cutil::Thread (core/Thread.h, Thread.ipp): one user thread that starts, *)
(* joins, detaches and probes a Thread object, and the thread it starts.   *)
(*                                                                         *)
(* start() hands the new thread a pointer to a Holder in its own frame and *)
(* returns only when the thread has set startFlag, which it does after it  *)
(* copied the Holder.  This handshake is modelled step by step; a critical *)
(* section of the object's mutex is one step.                              *)
(*                                                                         *)
(* The object has one user at a time: isRunning() reads and clears tid     *)
(* before start() locks anything, so two concurrent start() calls are not  *)
(* excluded by the code.                                                   *)
(***************************************************************************)
EXTENDS ThreadHandle, Naturals

CONSTANTS MaxStarts   \* bound: how often start() calls pthread_create

ASSUME StartAssumption == MaxStarts \in Nat

VARIABLES
  tid,        \* see ThreadHandle
  startFlag,
  user,       \* where the user's call is
  overload,   \* which start() the user is in, or was in last
  thread,     \* where the started thread is, in thread_function
  functor,    \* what its Holder's functor points to
  destroyed,  \* ~Thread() has returned
  starts

vars == <<tid, startFlag, user, overload, thread, functor, destroyed, starts>>
threadVars == <<thread, functor>>

UserStates == {"idle",
               "create",   \* start(): isRunning() was false, before the lock
               "waiting",  \* start(): in condition.wait
               "woken",    \* start(): signalled, about to hold the mutex
               "joining"}  \* in pthread_join
ThreadStates == {"off",
                 "copy",    \* about to copy the Holder
                 "signal",  \* about to lock, set startFlag and notify
                 "body"}    \* in (*data.functor)()

\* The functor is the object itself, a copy in the frame of start(Functor), or
\* the caller's.
Overloads == {"self", "value", "pointer"}

Starting == user \in {"create", "waiting", "woken"}

Init == /\ tid = "none" /\ startFlag = FALSE
        /\ user = "idle" /\ overload = "self"
        /\ thread = "off" /\ functor = "self"
        /\ destroyed = FALSE /\ starts = 0
-----------------------------------------------------------------------------
(* start() *)

\* start(Holder) asks isRunning() before it locks anything.
CallStart(k) == /\ user = "idle" /\ ~destroyed
                /\ starts < MaxStarts
                /\ \E running \in Probe(tid) :
                     /\ tid' = AfterProbe(tid, running)
                     /\ user' = IF running THEN "idle" ELSE "create"
                /\ overload' = k
                /\ UNCHANGED <<startFlag, threadVars, destroyed, starts>>

\* Lock, startFlag = false, pthread_create, and the wait that unlocks.
Create == /\ user = "create"
          /\ startFlag' = FALSE
          /\ starts' = starts + 1
          /\ \E created \in CreateOutcomes :
               /\ tid' = Started(tid, FALSE, created)
               /\ user' = IF created THEN "waiting" ELSE "idle"
               /\ thread' = IF created THEN "copy" ELSE thread
               /\ functor' = IF created THEN overload ELSE functor
          /\ UNCHANGED <<overload, destroyed>>

\* Mutant: `if` for `while`.
MutRecheck == /\ user = "woken"
              /\ user' = "idle"
              /\ UNCHANGED <<tid, startFlag, overload, threadVars, destroyed, starts>>

\* while (!startFlag): wait again or return true.
Recheck == /\ user = "woken"
           /\ user' = IF startFlag THEN "idle" ELSE "waiting"
           /\ UNCHANGED <<tid, startFlag, overload, threadVars, destroyed, starts>>

SpuriousWakeup == /\ user = "waiting"
                  /\ user' = "woken"
                  /\ UNCHANGED <<tid, startFlag, overload, threadVars, destroyed,
                                 starts>>
-----------------------------------------------------------------------------
(* thread_function(), the started thread *)

CopyHolder == /\ thread = "copy"
              /\ thread' = "signal"
              /\ UNCHANGED <<tid, startFlag, user, overload, functor, destroyed,
                             starts>>

\* Mutant: no notify().
MutSignal == /\ thread = "signal"
             /\ startFlag' = TRUE
             /\ thread' = "body"
             /\ UNCHANGED <<tid, user, overload, functor, destroyed, starts>>

Signal == /\ thread = "signal"
          /\ startFlag' = TRUE
          /\ user' = IF user = "waiting" THEN "woken" ELSE user
          /\ thread' = "body"
          /\ UNCHANGED <<tid, overload, functor, destroyed, starts>>

BodyReturns == /\ thread = "body"
               /\ thread' = "off"
               /\ tid' = Terminated(tid)
               /\ UNCHANGED <<startFlag, user, overload, functor, destroyed,
                              starts>>
-----------------------------------------------------------------------------
(* isRunning(), join(), detach() and ~Thread() *)

IsRunning == /\ user = "idle" /\ ~destroyed
             /\ \E running \in Probe(tid) : tid' = AfterProbe(tid, running)
             /\ UNCHANGED <<startFlag, user, overload, threadVars, destroyed, starts>>

CallJoin == /\ user = "idle" /\ ~destroyed
            /\ \E running \in Probe(tid) :
                 /\ tid' = AfterProbe(tid, running)
                 /\ user' = IF running THEN "joining" ELSE "idle"
            /\ UNCHANGED <<startFlag, overload, threadVars, destroyed, starts>>

\* pthread_join of a detached or vanished thread returns an error.
EndJoin == /\ user = "joining"
           /\ tid # "live"
           /\ tid' = Joined(tid)
           /\ user' = "idle"
           /\ UNCHANGED <<startFlag, overload, threadVars, destroyed, starts>>

Detach == /\ user = "idle" /\ ~destroyed
          /\ \E running \in Probe(tid) :
               /\ tid' = CASE ~running                 -> "none"
                           [] running /\ tid = "live"  -> "detached"
                           [] running /\ tid = "ended" -> "stale"
                           [] OTHER                    -> tid
          /\ UNCHANGED <<startFlag, user, overload, threadVars, destroyed, starts>>

\* ~Thread() returns at once when isRunning(); otherwise its join() finds
\* tid = 0 and does nothing.
Destroy == /\ user = "idle" /\ ~destroyed
           /\ \E running \in Probe(tid) : tid' = AfterProbe(tid, running)
           /\ destroyed' = TRUE
           /\ UNCHANGED <<startFlag, user, overload, threadVars, starts>>

Finished == destroyed /\ thread = "off" /\ UNCHANGED vars
-----------------------------------------------------------------------------
Next == \/ \E k \in Overloads : CallStart(k)
        \/ Create \/ Recheck \/ SpuriousWakeup
        \/ CopyHolder \/ Signal \/ BodyReturns
        \/ IsRunning \/ CallJoin \/ EndJoin \/ Detach \/ Destroy
        \/ Finished

Spec == Init /\ [][Next]_vars

\* The scheduler runs the new thread and a user inside start() or join().
FairSpec == /\ Spec
            /\ WF_vars(CopyHolder) /\ WF_vars(Signal) /\ WF_vars(BodyReturns)
            /\ WF_vars(Create \/ Recheck) /\ WF_vars(EndJoin)
-----------------------------------------------------------------------------
(* Properties *)

TypeOK == /\ tid \in HandleStates
          /\ startFlag \in BOOLEAN /\ destroyed \in BOOLEAN
          /\ user \in UserStates /\ overload \in Overloads
          /\ thread \in ThreadStates /\ functor \in Overloads
          /\ starts \in Nat

\* The Holder is a local of start(): the thread copies it, and uses the object
\* to signal, only while start() has not returned.
HolderAlive == thread \in {"copy", "signal"} => user \in {"waiting", "woken"}

\* startFlag of an earlier start() never lets a later one return: while start()
\* waits, the flag is up only if its own thread raised it.
FlagIsMine == user \in {"waiting", "woken"} /\ startFlag
                => thread \notin {"copy", "signal"}

\* The handshake of start() passes its frame and its flag to one thread only
\* (Thread.ipp:100-141).
HandshakeSafe == TypeOK /\ HolderAlive /\ FlagIsMine

\* No thread is orphaned: one that has not returned is the one tid names.
NoOrphan == thread # "off" <=> tid \in {"live", "detached"}

\* start() always returns, though its only signal may come before, between or
\* after the wakeups of its wait.
StartReturns == Starting ~> ~Starting

\* A functor that start() got by value is alive while the thread runs it.
FunctorAlive == thread = "body" /\ functor = "value" => Starting
=============================================================================
