---------------------------- MODULE ThreadHandle ----------------------------
(***************************************************************************)
(* What a cutil::Thread object knows of the POSIX thread behind its `tid`, *)
(* and what Thread::isRunning, join and detach make of it                  *)
(* (core/Thread.ipp).  The modules of the classes that inherit Thread      *)
(* share these operators.                                                  *)
(*                                                                         *)
(*   "none"      tid = 0                                                   *)
(*   "live"      tid names a thread that has not terminated                *)
(*   "detached"  the same, after pthread_detach                            *)
(*   "ended"     the thread has terminated and nobody has joined it        *)
(*   "stale"     the thread is gone (joined, or detached and terminated)   *)
(*               and tid still holds its identifier: neither join() nor    *)
(*               detach() clears tid                                       *)
(***************************************************************************)
CONSTANTS
  ProbeEnded,     \* may pthread_kill(tid, 0) succeed on an "ended" thread?
  ProbeStale,     \* may it succeed on a "stale" identifier (undefined by POSIX)?
  CreateOutcomes  \* may pthread_create succeed, fail, or both?

\* glibc before 2.34 answers ESRCH in both cases (ProbeEnded = ProbeStale =
\* {FALSE}); since 2.34 it answers 0 in both ({TRUE}).
ASSUME HandleAssumption ==
  /\ ProbeEnded \in SUBSET BOOLEAN /\ ProbeEnded # {}
  /\ ProbeStale \in SUBSET BOOLEAN /\ ProbeStale # {}
  /\ CreateOutcomes \in SUBSET BOOLEAN /\ CreateOutcomes # {}

HandleStates == {"none", "live", "detached", "ended", "stale"}

\* The answers isRunning() can give.
Probe(tid) == CASE tid = "none"  -> {FALSE}
                [] tid = "ended" -> ProbeEnded
                [] tid = "stale" -> ProbeStale
                [] OTHER         -> {TRUE}

\* ... and tid after it: isRunning() forgets a thread reported as ESRCH.
AfterProbe(tid, running) == IF running THEN tid ELSE "none"

\* Mutant: start() does not look at the result of pthread_create.
MutStarted(tid, running, created) == IF running THEN tid ELSE "live"

\* tid after start(): the holder's copy of operator() is running, nothing was
\* started because the object seems to run already, or pthread_create failed.
Started(tid, running, created) == CASE running  -> tid
                                    [] ~running /\ created  -> "live"
                                    [] OTHER    -> "none"

\* tid once the thread behind it has returned from its start routine.
Terminated(tid) == IF tid = "live" THEN "ended"
                   ELSE IF tid = "detached" THEN "stale" ELSE tid

\* pthread_join returns at once for a thread that is no longer there and
\* otherwise waits for its end.
JoinReturns(tid) == tid \in {"ended", "stale"}
Joined(tid) == IF tid = "ended" THEN "stale" ELSE tid
=============================================================================
