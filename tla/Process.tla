------------------------------ MODULE Process ------------------------------
(***************************************************************************)
(* cutil::Process (core/Process.h, Process.ipp): a child process started   *)
(* with fork and exec, the parent's ends of its three pipes, and the       *)
(* polling by which the parent learns of its end.                          *)
(*                                                                         *)
(*   - one user thread calls open(), close(), kill(), isRunning(), and the *)
(*     reads and writes; kill() and close() poll, so they go step by step; *)
(*   - the operating system runs the child, reuses the identifiers of      *)
(*     processes that are gone, and gives file descriptors to whoever asks *)
(*     first, other threads of this process included.                      *)
(*                                                                         *)
(* A child is known by the number of the open() that forked it; 0 stands   *)
(* for a process that is not a child of ours.  status, as waitpid() fills  *)
(* it, is known by the child it came from.                                 *)
(***************************************************************************)
EXTENDS Naturals

CONSTANTS Pids,      \* process identifiers
          FDs,       \* file descriptors
          None,      \* -1
          MaxOpens,  \* bound: how many children are forked
          MaxPolls   \* bound: timeout_usec / 10000 of kill()

ASSUME ProcessAssumption ==
  None \notin Pids /\ None \notin FDs /\ MaxOpens \in Nat /\ MaxPolls \in Nat

Ends == {"pin", "pout", "perr"}

VARIABLES
  pid, status,
  fd,         \* fd[e]: the descriptor in pin, pout or perr, or None
  user,       \* where the user's call is
  closing,    \* that call is close(), perhaps in the kill() it makes
  signum, left,  \* arguments of kill(): the signal, and the polls left
  answer,     \* what the last kill() returned
  proc,       \* proc[p]: "free", "running" or "zombie"
  child,      \* child[p]: which open() forked p, or 0
  dying,      \* processes that have got SIGKILL
  table,      \* table[f]: "free", "pipe" (of this object) or "other"
  forks,      \* number of children forked
  reopened,   \* history: some open() found ends that were not closed
  strangersHit   \* history: "close" or "kill", whichever signalled a stranger

objectVars == <<pid, status, fd>>
callVars == <<user, closing, signum, left, answer>>
osVars == <<proc, child, dying, table>>
histVars == <<forks, reopened, strangersHit>>
vars == <<objectVars, callVars, osVars, histVars>>

UserStates == {"idle",
               "closeProbe",   \* close(): about to ask isRunning()
               "signal",       \* kill(): isLiving() was true
               "poll",         \* kill(): about to ask isRunning()
               "await",        \* close(): after kill(), polling
               "closeEnds"}    \* close(): the child is dead

Init == /\ pid = None /\ status = 0
        /\ fd = [e \in Ends |-> None]
        /\ user = "idle" /\ closing = FALSE
        /\ signum = "TERM" /\ left = 0 /\ answer = FALSE
        /\ proc = [p \in Pids |-> "free"] /\ child = [p \in Pids |-> 0]
        /\ dying = {}
        /\ table = [f \in FDs |-> "free"]
        /\ forks = 0 /\ reopened = FALSE /\ strangersHit = {}
-----------------------------------------------------------------------------
(* isLiving() and isRunning() *)

\* kill(pid, 0) succeeds on a zombie, and on a stranger that got the pid.
IsLiving == pid # None /\ proc[pid] # "free"

\* waitpid(WNOHANG) of a stranger fails, and isRunning() is false.
IsRunning == IsLiving /\ proc[pid] = "running" /\ child[pid] # 0

\* What waitpid() does when it finds a zombie: it is gone, and its pid is free.
Reaps == IsLiving /\ proc[pid] = "zombie" /\ child[pid] # 0

Waitpid == IF Reaps THEN /\ status' = child[pid]
                         /\ proc' = [proc EXCEPT ![pid] = "free"]
                         /\ child' = [child EXCEPT ![pid] = 0]
                    ELSE UNCHANGED <<status, proc, child>>

\* A call of isRunning() by the user.
AskRunning == /\ user = "idle"
              /\ Waitpid
              /\ UNCHANGED <<pid, fd, callVars, dying, table, histVars>>
-----------------------------------------------------------------------------
(* pin_close(), pout_close(), perr_close() *)

\* Mutant: the member is not reset to -1.
MutCloseEndsKeep(S) ==
  /\ table' = [f \in FDs |-> IF \E e \in S : fd[e] = f THEN "free" ELSE table[f]]
  /\ UNCHANGED fd

CloseEnds(S) ==
  /\ table' = [f \in FDs |-> IF \E e \in S : fd[e] = f THEN "free" ELSE table[f]]
  /\ fd' = [e \in Ends |-> IF e \in S THEN None ELSE fd[e]]

\* writeIn(), readOut() and readErr(): a result that says the pipe is finished
\* closes the end.
ReadOrWrite(e) == /\ user = "idle" /\ IsLiving
                  /\ CloseEnds({e})
                  /\ UNCHANGED <<pid, status, callVars, proc, child, dying, histVars>>
-----------------------------------------------------------------------------
(* open() *)

Free == {f \in FDs : table[f] = "free"}

\* A failing fork() stores -1 in pid; a failing pipe() changes nothing at all.
OpenFails == /\ user = "idle" /\ ~IsLiving
             /\ pid' = None
             /\ UNCHANGED <<status, fd, callVars, osVars, histVars>>

\* The descriptors of an earlier child are overwritten, not closed.
OpenForks == /\ user = "idle" /\ ~IsLiving
             /\ forks < MaxOpens
             /\ forks' = forks + 1
             /\ \E p \in Pids : /\ proc[p] = "free"
                                /\ pid' = p
                                /\ proc' = [proc EXCEPT ![p] = "running"]
                                /\ child' = [child EXCEPT ![p] = forks + 1]
             /\ \E ends \in [Ends -> Free] :
                  /\ \A d, e \in Ends : d # e => ends[d] # ends[e]
                  /\ fd' = ends
                  /\ table' = [f \in FDs |-> IF \E e \in Ends : ends[e] = f
                                             THEN "pipe" ELSE table[f]]
             /\ reopened' = (reopened \/ \E e \in Ends : fd[e] # None)
             /\ UNCHANGED <<status, callVars, dying, strangersHit>>
-----------------------------------------------------------------------------
(* kill() *)

\* kill() returns `result`, to the user or to close(), and its arguments are gone.
KillReturns(inClose, result) ==
  /\ answer' = result
  /\ signum' = "TERM" /\ left' = 0
  /\ user' = IF inClose THEN "await" ELSE "idle"

\* isLiving(), of a call by the user or of the one in close().
EnterKill(inClose, sig, polls) ==
  /\ closing' = inClose
  /\ IF IsLiving
       THEN user' = "signal" /\ signum' = sig /\ left' = polls /\ UNCHANGED answer
       ELSE KillReturns(inClose, TRUE)

CallKill == /\ user = "idle"
            /\ \E sig \in {"TERM", "KILL"}, polls \in 0 .. MaxPolls :
                 EnterKill(FALSE, sig, polls)
            /\ UNCHANGED <<objectVars, osVars, histVars>>

\* kill(pid, signum), to whichever process has the pid by now.
Signal == /\ user = "signal"
          /\ user' = "poll"
          /\ dying' = IF signum = "KILL" /\ proc[pid] = "running"
                      THEN dying \cup {pid} ELSE dying
          /\ strangersHit' =
               IF proc[pid] # "free" /\ child[pid] = 0
               THEN strangersHit \cup {IF closing THEN "close" ELSE "kill"}
               ELSE strangersHit
          /\ UNCHANGED <<objectVars, closing, signum, left, answer, proc, child,
                         table, forks, reopened>>

\* Mutant: a timeout counts as success.
MutPoll == /\ user = "poll"
           /\ Waitpid
           /\ IF IsRunning /\ left > 0
                THEN left' = left - 1 /\ UNCHANGED <<user, signum, answer>>
                ELSE KillReturns(closing, TRUE)
           /\ UNCHANGED <<pid, fd, closing, dying, table, histVars>>

\* One round of while (isRunning()): give up when the time is over.
Poll == /\ user = "poll"
        /\ Waitpid
        /\ IF IsRunning /\ left > 0
             THEN left' = left - 1 /\ UNCHANGED <<user, signum, answer>>
             ELSE KillReturns(closing, ~IsRunning)
        /\ UNCHANGED <<pid, fd, closing, dying, table, histVars>>

Kill == Signal \/ Poll
-----------------------------------------------------------------------------
(* close(), which the destructor calls *)

CallClose == /\ user = "idle"
             /\ pid' = IF IsLiving THEN pid ELSE None
             /\ user' = "closeProbe" /\ closing' = TRUE
             /\ UNCHANGED <<status, fd, signum, left, answer, osVars, histVars>>

\* Mutants: isLiving() for isRunning(); SIGTERM for SIGKILL.
MutCloseAsksLiving ==
  /\ user = "closeProbe"
  /\ IF IsLiving THEN EnterKill(TRUE, "KILL", 0)
                 ELSE user' = "closeEnds" /\ UNCHANGED <<closing, signum, left, answer>>
  /\ UNCHANGED <<objectVars, osVars, histVars>>
MutCloseTerminates ==
  /\ user = "closeProbe"
  /\ Waitpid
  /\ IF IsRunning THEN EnterKill(TRUE, "TERM", 0)
                  ELSE user' = "closeEnds" /\ UNCHANGED <<closing, signum, left, answer>>
  /\ UNCHANGED <<pid, fd, dying, table, histVars>>

CloseProbes ==
  /\ user = "closeProbe"
  /\ Waitpid
  /\ IF IsRunning THEN EnterKill(TRUE, "KILL", 0)
                  ELSE user' = "closeEnds" /\ UNCHANGED <<closing, signum, left, answer>>
  /\ UNCHANGED <<pid, fd, dying, table, histVars>>

\* Mutant: close() polls once and does not wait.
MutCloseAwaits == /\ user = "await"
                  /\ Waitpid
                  /\ user' = "closeEnds"
                  /\ UNCHANGED <<pid, fd, closing, signum, left, answer, dying, table,
                                 histVars>>

CloseAwaits == /\ user = "await"
               /\ Waitpid
               /\ user' = IF IsRunning THEN "await" ELSE "closeEnds"
               /\ UNCHANGED <<pid, fd, closing, signum, left, answer, dying, table,
                              histVars>>

CloseFinishes == /\ user = "closeEnds"
                 /\ CloseEnds(Ends)
                 /\ pid' = None
                 /\ user' = "idle" /\ closing' = FALSE
                 /\ UNCHANGED <<status, signum, left, answer, proc, child, dying,
                                histVars>>

Close == CloseProbes \/ CloseAwaits \/ CloseFinishes
-----------------------------------------------------------------------------
(* The operating system *)

\* A child ends and waits to be reaped; a stranger ends and is gone.
ProcessEnds(p) ==
  /\ proc[p] = "running"
  /\ proc' = [proc EXCEPT ![p] = IF child[p] # 0 THEN "zombie" ELSE "free"]
  /\ dying' = dying \ {p}
  /\ UNCHANGED <<objectVars, callVars, child, table, histVars>>

\* SIGKILL cannot be ignored.
KilledEnds(p) == p \in dying /\ ProcessEnds(p)

\* The identifier of a process that is gone is given to a stranger.
StrangerStarts(p) == /\ proc[p] = "free"
                     /\ proc' = [proc EXCEPT ![p] = "running"]
                     /\ UNCHANGED <<objectVars, callVars, child, dying, table, histVars>>

\* Another thread of this process opens or closes a file of its own.
OtherOpens(f) == /\ table[f] = "free"
                 /\ table' = [table EXCEPT ![f] = "other"]
                 /\ UNCHANGED <<objectVars, callVars, proc, child, dying, histVars>>
OtherCloses(f) == /\ table[f] = "other"
                  /\ table' = [table EXCEPT ![f] = "free"]
                  /\ UNCHANGED <<objectVars, callVars, proc, child, dying, histVars>>

System == \/ \E p \in Pids : ProcessEnds(p) \/ StrangerStarts(p)
          \/ \E f \in FDs : OtherOpens(f) \/ OtherCloses(f)
-----------------------------------------------------------------------------
Next == \/ AskRunning \/ \E e \in Ends : ReadOrWrite(e)
        \/ OpenFails \/ OpenForks
        \/ CallKill \/ Kill
        \/ CallClose \/ Close
        \/ System

Spec == Init /\ [][Next]_vars

\* A call that was entered goes on, and the system ends a killed process.
FairSpec == /\ Spec
            /\ WF_vars(Kill) /\ WF_vars(Close)
            /\ \A p \in Pids : WF_vars(KilledEnds(p))
-----------------------------------------------------------------------------
(* Properties *)

TypeOK == /\ pid \in Pids \cup {None} /\ status \in Nat
          /\ fd \in [Ends -> FDs \cup {None}]
          /\ user \in UserStates /\ closing \in BOOLEAN
          /\ signum \in {"TERM", "KILL"} /\ left \in Nat /\ answer \in BOOLEAN
          /\ proc \in [Pids -> {"free", "running", "zombie"}]
          /\ child \in [Pids -> Nat]
          /\ dying \in SUBSET Pids
          /\ table \in [FDs -> {"free", "pipe", "other"}]
          /\ forks \in Nat /\ reopened \in BOOLEAN
          /\ strangersHit \in SUBSET {"close", "kill"}

Unreaped(p) == proc[p] # "free" /\ child[p] # 0

\* No child is forgotten: one that has not been reaped is the one pid names,
\* so isRunning() or close() can still reap it (lines 80-83, 158-178, 211-224).
NoOrphan == \A p \in Pids : Unreaped(p) => pid = p

\* close() kills no process but its own child, though the pid of a child that
\* was reaped may belong to a stranger by then (lines 159-164).
CloseHitsNoStranger == "close" \notin strangersHit

\* The ends are descriptors of this object's pipes, never ones that were closed
\* and given to another thread.
OwnEnds == /\ \A e \in Ends : fd[e] # None => table[fd[e]] = "pipe"
           /\ \A d, e \in Ends : d # e /\ fd[d] # None => fd[d] # fd[e]

\* No descriptor leaks, provided open() never finds ends that were not closed.
NoLeak == ~reopened => \A f \in FDs : table[f] = "pipe" => \E e \in Ends : fd[e] = f

\* returnCode() is about the last child as soon as that child has been reaped.
StatusOfLastChild == (\A p \in Pids : ~Unreaped(p)) => status = forks

\* pid and status are about the child, and about nobody else
\* (Process.ipp:80-83, 158-178, 211-226).
ChildAccounted == TypeOK /\ NoOrphan /\ StatusOfLastChild /\ CloseHitsNoStranger

\* kill() returns true only when the child is dead and reaped.
KillTells == [][user = "poll" /\ ~closing /\ user' = "idle" /\ answer'
                => \A p \in Pids : ~Unreaped(p)']_vars

\* close() returns, and its child is dead by then.
CloseReturns == closing ~> ~closing
CloseReaps == [][closing /\ ~closing' => \A p \in Pids : ~Unreaped(p)']_vars
=============================================================================
