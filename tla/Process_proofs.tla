--------------------------- MODULE Process_proofs ---------------------------
(***************************************************************************)
(* For any number of processes, descriptors, children and polls:           *)
(* cutil::Process forgets no child, its close() kills no stranger and      *)
(* returns with the child reaped, its kill() tells the truth, and its      *)
(* descriptors are its own.                                                *)
(***************************************************************************)
EXTENDS Process, TLAPS

\* What ties the object to its child.
OneChild == \A p \in Pids : Unreaped(p) => pid = p /\ child[p] = forks
FreeIsNobody == \A p \in Pids : /\ proc[p] = "free" => child[p] = 0
                                /\ proc[p] = "zombie" => child[p] # 0
Stages == /\ user \in {"closeProbe", "await", "closeEnds"} => closing
          /\ user = "idle" => ~closing
          /\ user = "signal" /\ closing => Unreaped(pid)
          /\ user = "closeEnds" => \A p \in Pids : ~Unreaped(p)

SignalHasPid == user = "signal" => pid # None

ChildInv == /\ OneChild /\ FreeIsNobody /\ Stages
            /\ StatusOfLastChild /\ CloseHitsNoStranger

USE DEF objectVars, callVars, osVars, histVars
-----------------------------------------------------------------------------
(* Types *)

LEMMA WaitpidType ==
  ASSUME TypeOK, Waitpid
  PROVE  /\ status' \in Nat
         /\ proc' \in [Pids -> {"free", "running", "zombie"}]
         /\ child' \in [Pids -> Nat]
<1>1. CASE Reaps
  BY <1>1 DEF Waitpid, Reaps, IsLiving, TypeOK
<1>2. CASE ~Reaps
  BY <1>2 DEF Waitpid, TypeOK
<1> QED BY <1>1, <1>2

LEMMA CloseEndsType ==
  ASSUME TypeOK, NEW S \in SUBSET Ends, CloseEnds(S)
  PROVE  /\ fd' \in [Ends -> FDs \cup {None}]
         /\ table' \in [FDs -> {"free", "pipe", "other"}]
BY DEF CloseEnds, TypeOK

LEMMA EnterKillType ==
  ASSUME TypeOK, NEW c \in BOOLEAN, NEW sig \in {"TERM", "KILL"}, NEW n \in Nat,
         EnterKill(c, sig, n)
  PROVE  /\ user' \in UserStates /\ closing' \in BOOLEAN
         /\ signum' \in {"TERM", "KILL"} /\ left' \in Nat /\ answer' \in BOOLEAN
<1>1. closing' \in BOOLEAN
  BY Zenon DEF EnterKill
<1>2. signum' \in {"TERM", "KILL"} /\ left' \in Nat
  BY DEF EnterKill, KillReturns
<1>3. CASE IsLiving
  <2>1. user' = "signal" /\ answer' = answer
    BY <1>3, Zenon DEF EnterKill
  <2> QED BY <1>1, <1>2, <2>1 DEF TypeOK, UserStates
<1>4. CASE ~IsLiving
  <2>1. answer' = TRUE
    BY <1>4, Zenon DEF EnterKill, KillReturns
  <2>2. user' \in {"await", "idle"}
    BY <1>4 DEF EnterKill, KillReturns
  <2> QED BY <1>1, <1>2, <2>1, <2>2 DEF UserStates
<1> QED BY <1>3, <1>4

LEMMA TypeStep == TypeOK /\ SignalHasPid /\ [Next]_vars => TypeOK'
<1> SUFFICES ASSUME TypeOK, SignalHasPid, [Next]_vars PROVE TypeOK'
  OBVIOUS
<1> USE ProcessAssumption
<1>1. CASE AskRunning
  BY <1>1, WaitpidType DEF AskRunning, TypeOK
<1>2. ASSUME NEW e \in Ends, ReadOrWrite(e) PROVE TypeOK'
  BY <1>2, CloseEndsType DEF ReadOrWrite, TypeOK
<1>3. CASE OpenFails
  BY <1>3 DEF OpenFails, TypeOK
<1>4. CASE OpenForks
  <2>1. forks' \in Nat /\ reopened' \in BOOLEAN
    <3>1. reopened' = (reopened \/ \E e \in Ends : fd[e] # None)
      BY <1>4, Zenon DEF OpenForks
    <3>2. reopened' \in BOOLEAN
      BY <3>1, Zenon
    <3>3. forks' \in Nat
      BY <1>4 DEF OpenForks, TypeOK
    <3> QED BY <3>2, <3>3
  <2>2. pid' \in Pids /\ proc' \in [Pids -> {"free", "running", "zombie"}]
        /\ child' \in [Pids -> Nat]
    BY <1>4 DEF OpenForks, TypeOK
  <2>3. fd' \in [Ends -> FDs \cup {None}] /\ table' \in [FDs -> {"free", "pipe", "other"}]
    <3>1. PICK ends \in [Ends -> Free] :
             /\ fd' = ends
             /\ table' = [f \in FDs |-> IF \E e \in Ends : ends[e] = f
                                        THEN "pipe" ELSE table[f]]
      BY <1>4, Zenon DEF OpenForks
    <3>2. Free \in SUBSET FDs
      BY DEF Free
    <3>3. fd' \in [Ends -> FDs \cup {None}]
      BY <3>1, <3>2
    <3> QED BY <3>1, <3>3 DEF TypeOK
  <2>4. UNCHANGED <<status, callVars, dying, strangersHit>>
    BY <1>4, Zenon DEF OpenForks
  <2> QED BY <2>1, <2>2, <2>3, <2>4 DEF TypeOK
<1>5. CASE CallKill
  <2>1. PICK sig \in {"TERM", "KILL"}, polls \in 0 .. MaxPolls :
           EnterKill(FALSE, sig, polls)
    BY <1>5, Zenon DEF CallKill
  <2>2. UNCHANGED <<objectVars, osVars, histVars>>
    BY <1>5, Zenon DEF CallKill
  <2>3. polls \in Nat /\ FALSE \in BOOLEAN
    OBVIOUS
  <2>4. /\ user' \in UserStates /\ closing' \in BOOLEAN
        /\ signum' \in {"TERM", "KILL"} /\ left' \in Nat /\ answer' \in BOOLEAN
    BY <2>1, <2>3, EnterKillType
  <2> QED BY <2>2, <2>4 DEF TypeOK
<1>6. CASE Signal
  <2>1. strangersHit' \in SUBSET {"close", "kill"}
    BY <1>6 DEF Signal, TypeOK
  <2>2. dying' \in SUBSET Pids
    <3>1. CASE signum = "KILL" /\ proc[pid] = "running"
      <4>1. dying' = dying \cup {pid} /\ pid \in Pids
        BY <1>6, <3>1 DEF Signal, SignalHasPid, TypeOK
      <4> QED BY <4>1 DEF TypeOK
    <3>2. CASE ~(signum = "KILL" /\ proc[pid] = "running")
      BY <1>6, <3>2 DEF Signal, TypeOK
    <3> QED BY <3>1, <3>2
  <2> QED BY <1>6, <2>1, <2>2 DEF Signal, TypeOK, UserStates
<1>7. CASE Poll
  <2>1. /\ user' \in UserStates /\ answer' \in BOOLEAN /\ left' \in Nat
        /\ signum' \in {"TERM", "KILL"}
    <3>1. CASE IsRunning /\ left > 0
      BY <1>7, <3>1 DEF Poll, TypeOK
    <3>2. CASE ~(IsRunning /\ left > 0)
      <4>1. KillReturns(closing, ~IsRunning)
        BY <1>7, <3>2, Zenon DEF Poll
      <4>2. answer' \in BOOLEAN
        BY <4>1, Zenon DEF KillReturns
      <4>3. user' \in {"await", "idle"} /\ signum' = "TERM" /\ left' = 0
        BY <4>1 DEF KillReturns
      <4> QED BY <4>2, <4>3 DEF UserStates
    <3> QED BY <3>1, <3>2
  <2>2. Waitpid /\ UNCHANGED <<pid, fd, closing, dying, table, histVars>>
    BY <1>7, Zenon DEF Poll
  <2> QED BY <2>1, <2>2, WaitpidType DEF TypeOK
<1>8. CASE CallClose
  BY <1>8 DEF CallClose, TypeOK, UserStates
<1>9. CASE CloseProbes
  <2>1. Waitpid /\ UNCHANGED <<pid, fd, dying, table, histVars>>
    BY <1>9, Zenon DEF CloseProbes
  <2>2. CASE IsRunning
    <3>1. EnterKill(TRUE, "KILL", 0)
      BY <1>9, <2>2, Zenon DEF CloseProbes
    <3> QED BY <2>1, <3>1, WaitpidType, EnterKillType DEF TypeOK
  <2>3. CASE ~IsRunning
    BY <1>9, <2>1, <2>3, WaitpidType DEF CloseProbes, TypeOK, UserStates
  <2> QED BY <2>2, <2>3
<1>10. CASE CloseAwaits
  BY <1>10, WaitpidType DEF CloseAwaits, TypeOK, UserStates
<1>11. CASE CloseFinishes
  BY <1>11, CloseEndsType DEF CloseFinishes, TypeOK, UserStates
<1>12. CASE System
  <2>1. ASSUME NEW p \in Pids, ProcessEnds(p)  PROVE TypeOK'
    BY <2>1 DEF ProcessEnds, TypeOK
  <2>2. ASSUME NEW p \in Pids, StrangerStarts(p)  PROVE TypeOK'
    BY <2>2 DEF StrangerStarts, TypeOK
  <2>3. ASSUME NEW f \in FDs, OtherOpens(f)  PROVE TypeOK'
    BY <2>3 DEF OtherOpens, TypeOK
  <2>4. ASSUME NEW f \in FDs, OtherCloses(f)  PROVE TypeOK'
    BY <2>4 DEF OtherCloses, TypeOK
  <2> QED BY <1>12, <2>1, <2>2, <2>3, <2>4 DEF System
<1>13. CASE UNCHANGED vars
  BY <1>13 DEF vars, TypeOK
<1> QED BY <1>1, <1>2, <1>3, <1>4, <1>5, <1>6, <1>7, <1>8, <1>9, <1>10, <1>11,
           <1>12, <1>13 DEF Next, Kill, Close

LEMMA TypeInit == Init => TypeOK
<1> SUFFICES ASSUME Init PROVE TypeOK
  OBVIOUS
<1>1. closing \in BOOLEAN /\ answer \in BOOLEAN /\ reopened \in BOOLEAN
  BY Zenon DEF Init
<1> QED BY <1>1 DEF Init, TypeOK, UserStates

\* kill() signals no process group: it has a pid when it gets that far.
LEMMA PidStep == TypeOK /\ SignalHasPid /\ [Next]_vars => SignalHasPid'
<1> SUFFICES ASSUME TypeOK, SignalHasPid, [Next]_vars, user' = "signal" PROVE pid' # None
  BY DEF SignalHasPid
<1> USE ProcessAssumption DEF SignalHasPid
<1>1. CASE AskRunning \/ (\E e \in Ends : ReadOrWrite(e)) \/ System
  BY <1>1 DEF AskRunning, ReadOrWrite, System, ProcessEnds, StrangerStarts,
              OtherOpens, OtherCloses
<1>2. CASE OpenFails \/ OpenForks
  BY <1>2 DEF OpenFails, OpenForks
<1>3. CASE CallKill
  <2>1. IsLiving /\ pid' = pid
    BY <1>3 DEF CallKill, EnterKill, KillReturns
  <2> QED BY <2>1 DEF IsLiving
<1>4. CASE Signal \/ CallClose \/ CloseAwaits \/ CloseFinishes
  BY <1>4 DEF Signal, CallClose, CloseAwaits, CloseFinishes
<1>5. CASE Poll
  BY <1>5 DEF Poll, KillReturns
<1>6. CASE CloseProbes
  <2>1. IsRunning /\ pid' = pid
    BY <1>6 DEF CloseProbes
  <2> QED BY <2>1 DEF IsRunning, IsLiving
<1>7. CASE UNCHANGED vars
  BY <1>7 DEF vars
<1> QED BY <1>1, <1>2, <1>3, <1>4, <1>5, <1>6, <1>7 DEF Next, Kill, Close

\* TypeOK is an invariant of Process.
THEOREM TypeCorrect == Spec => []TypeOK
<1>1. Init => SignalHasPid
  BY DEF Init, SignalHasPid
<1> QED BY <1>1, TypeInit, TypeStep, PidStep, PTL DEF Spec
-----------------------------------------------------------------------------
(* The child *)

\* waitpid() reaps the child or leaves everything alone; when isRunning() is
\* false afterwards, no child is left.
LEMMA WaitpidFacts ==
  ASSUME TypeOK, OneChild, FreeIsNobody, StatusOfLastChild, Waitpid, pid' = pid,
         forks' = forks
  PROVE  /\ OneChild' /\ FreeIsNobody' /\ StatusOfLastChild'
         /\ \A p \in Pids : Unreaped(p)' => Unreaped(p)
         /\ ~IsRunning => \A p \in Pids : ~Unreaped(p)'
         /\ IsRunning => Unreaped(pid)' /\ pid \in Pids
<1> USE ProcessAssumption
<1>1. CASE Reaps
  <2>1. /\ pid \in Pids /\ Unreaped(pid) /\ ~IsRunning
        /\ status' = child[pid]
        /\ proc' = [proc EXCEPT ![pid] = "free"]
        /\ child' = [child EXCEPT ![pid] = 0]
    BY <1>1 DEF Waitpid, Reaps, IsLiving, IsRunning, Unreaped, TypeOK
  <2>2. \A p \in Pids : ~Unreaped(p)'
    BY <2>1 DEF OneChild, Unreaped, TypeOK
  <2>3. FreeIsNobody'
    BY <2>1 DEF FreeIsNobody, TypeOK
  <2>4. status' = forks
    BY <2>1 DEF OneChild
  <2> QED BY <2>1, <2>2, <2>3, <2>4 DEF OneChild, StatusOfLastChild
<1>2. CASE ~Reaps
  <2>1. UNCHANGED <<status, proc, child>>
    BY <1>2 DEF Waitpid
  <2>2. ~IsRunning => \A p \in Pids : ~Unreaped(p)
    BY <1>2 DEF Reaps, IsRunning, IsLiving, OneChild, Unreaped, TypeOK
  <2>3. IsRunning => Unreaped(pid) /\ pid \in Pids
    BY DEF IsRunning, IsLiving, Unreaped, TypeOK
  <2> QED BY <2>1, <2>2, <2>3 DEF OneChild, FreeIsNobody, StatusOfLastChild, Unreaped
<1> QED BY <1>1, <1>2

LEMMA ChildInit == Init => ChildInv
BY DEF Init, ChildInv, OneChild, FreeIsNobody, Stages, StatusOfLastChild, Unreaped,
       CloseHitsNoStranger

LEMMA ChildStep ==
  ASSUME TypeOK, SignalHasPid, ChildInv, [Next]_vars
  PROVE  ChildInv'
<1> USE ProcessAssumption
<1>0. OneChild /\ FreeIsNobody /\ Stages /\ StatusOfLastChild /\ CloseHitsNoStranger
  BY DEF ChildInv
<1>1. CASE AskRunning
  BY <1>0, <1>1, WaitpidFacts
     DEF AskRunning, ChildInv, Stages, CloseHitsNoStranger
<1>2. CASE (\E e \in Ends : ReadOrWrite(e)) \/ (\E f \in FDs : OtherOpens(f) \/ OtherCloses(f))
  <2>1. UNCHANGED <<pid, status, proc, child, user, closing, forks, strangersHit>>
    BY <1>2 DEF ReadOrWrite, OtherOpens, OtherCloses
  <2> QED BY <1>0, <2>1 DEF ChildInv, OneChild, FreeIsNobody, Stages, StatusOfLastChild,
                            Unreaped, CloseHitsNoStranger
<1>3. CASE OpenFails
  BY <1>0, <1>3 DEF OpenFails, IsLiving, ChildInv, OneChild, FreeIsNobody, Stages,
                    StatusOfLastChild, Unreaped, CloseHitsNoStranger
<1>4. CASE OpenForks
  <2>1. PICK p \in Pids : /\ proc[p] = "free"
                          /\ pid' = p
                          /\ proc' = [proc EXCEPT ![p] = "running"]
                          /\ child' = [child EXCEPT ![p] = forks + 1]
    BY <1>4 DEF OpenForks
  <2>2. /\ user = "idle" /\ forks' = forks + 1 /\ ~IsLiving
        /\ UNCHANGED <<status, user, closing, strangersHit>>
    BY <1>4 DEF OpenForks
  <2>3. \A q \in Pids : ~Unreaped(q)
    BY <1>0, <2>2 DEF IsLiving, OneChild, Unreaped
  <2>4. Unreaped(p)' /\ \A q \in Pids : Unreaped(q)' => q = p
    BY <2>1, <2>2, <2>3 DEF Unreaped, TypeOK
  <2>5. OneChild' /\ StatusOfLastChild'
    BY <2>1, <2>2, <2>4 DEF OneChild, StatusOfLastChild, TypeOK
  <2>6. FreeIsNobody'
    BY <1>0, <2>1 DEF FreeIsNobody, TypeOK
  <2> QED BY <1>0, <2>2, <2>5, <2>6 DEF ChildInv, Stages, CloseHitsNoStranger
<1>5. CASE CallKill
  BY <1>0, <1>5 DEF CallKill, EnterKill, KillReturns, ChildInv, OneChild,
                    FreeIsNobody, Stages, StatusOfLastChild, Unreaped, CloseHitsNoStranger
<1>6. CASE Signal
  <2>1. /\ user = "signal" /\ user' = "poll"
        /\ UNCHANGED <<pid, status, proc, child, closing, forks>>
    BY <1>6 DEF Signal
  <2>2. closing => child[pid] # 0
    BY <1>0, <2>1 DEF Stages, Unreaped
  <2>3. CloseHitsNoStranger'
    BY <1>0, <1>6, <2>2 DEF Signal, CloseHitsNoStranger
  <2> QED BY <1>0, <2>1, <2>3 DEF ChildInv, OneChild, FreeIsNobody, Stages,
                                  StatusOfLastChild, Unreaped
<1>7. CASE Poll
  <2>1. user = "poll" /\ Waitpid /\ UNCHANGED <<pid, closing, forks, strangersHit>>
    BY <1>7, Zenon DEF Poll
  <2>2. user' \in {"poll", "await", "idle"} /\ (user' = "await" => closing)
        /\ (user' = "idle" => ~closing)
    <3>1. CASE IsRunning /\ left > 0
      BY <1>7, <3>1 DEF Poll
    <3>2. CASE ~(IsRunning /\ left > 0)
      BY <1>7, <3>2 DEF Poll, KillReturns
    <3> QED BY <3>1, <3>2
  <2> QED BY <1>0, <2>1, <2>2, WaitpidFacts DEF ChildInv, Stages, CloseHitsNoStranger
<1>8. CASE CallClose
  <2>1. /\ user' = "closeProbe" /\ closing'
        /\ UNCHANGED <<status, proc, child, forks, strangersHit>>
    BY <1>8, Zenon DEF CallClose
  <2>2. pid' = IF IsLiving THEN pid ELSE None
    BY <1>8 DEF CallClose
  <2>3. OneChild'
    BY <1>0, <2>1, <2>2 DEF IsLiving, OneChild, Unreaped
  <2> QED BY <1>0, <2>1, <2>3 DEF ChildInv, FreeIsNobody, Stages, StatusOfLastChild,
                                  Unreaped, CloseHitsNoStranger
<1>9. CASE CloseProbes
  <2>1. user = "closeProbe" /\ Waitpid /\ UNCHANGED <<pid, forks, strangersHit>>
    BY <1>9, Zenon DEF CloseProbes
  <2>2. OneChild' /\ FreeIsNobody' /\ StatusOfLastChild'
        /\ (~IsRunning => \A p \in Pids : ~Unreaped(p)')
        /\ (IsRunning => Unreaped(pid)' /\ pid \in Pids)
    BY <1>0, <2>1, WaitpidFacts
  <2>3. CASE IsRunning
    <3>1. closing' /\ user' \in {"signal", "await"}
      <4>1. EnterKill(TRUE, "KILL", 0)
        BY <1>9, <2>3, Zenon DEF CloseProbes
      <4>2. closing'
        BY <4>1, Zenon DEF EnterKill
      <4>3. user' \in {"signal", "await"}
        BY <4>1 DEF EnterKill, KillReturns
      <4> QED BY <4>2, <4>3
    <3> QED BY <1>0, <2>1, <2>2, <2>3, <3>1 DEF ChildInv, Stages, CloseHitsNoStranger
  <2>4. CASE ~IsRunning
    BY <1>0, <1>9, <2>1, <2>2, <2>4 DEF CloseProbes, ChildInv, Stages, CloseHitsNoStranger
  <2> QED BY <2>3, <2>4
<1>10. CASE CloseAwaits
  <2>1. user = "await" /\ Waitpid /\ UNCHANGED <<pid, closing, forks, strangersHit>>
    BY <1>10 DEF CloseAwaits
  <2>2. OneChild' /\ FreeIsNobody' /\ StatusOfLastChild'
        /\ (~IsRunning => \A p \in Pids : ~Unreaped(p)')
    BY <1>0, <2>1, WaitpidFacts
  <2>3. user' = IF IsRunning THEN "await" ELSE "closeEnds"
    BY <1>10 DEF CloseAwaits
  <2> QED BY <1>0, <2>1, <2>2, <2>3 DEF ChildInv, Stages, CloseHitsNoStranger
<1>11. CASE CloseFinishes
  <2>1. /\ user = "closeEnds" /\ user' = "idle" /\ ~closing'
        /\ UNCHANGED <<status, proc, child, forks, strangersHit>>
    BY <1>11, Zenon DEF CloseFinishes
  <2>2. \A p \in Pids : ~Unreaped(p)
    BY <1>0, <2>1 DEF Stages
  <2> QED BY <1>0, <2>1, <2>2 DEF ChildInv, OneChild, FreeIsNobody, Stages,
                                  StatusOfLastChild, Unreaped, CloseHitsNoStranger
<1>12. ASSUME NEW p \in Pids, ProcessEnds(p) \/ StrangerStarts(p) PROVE ChildInv'
  <2>1. UNCHANGED <<pid, status, child, user, closing, forks, strangersHit>>
    BY <1>12 DEF ProcessEnds, StrangerStarts
  <2>2. \A q \in Pids : Unreaped(q)' <=> Unreaped(q)
    BY <1>0, <1>12 DEF ProcessEnds, StrangerStarts, Unreaped, FreeIsNobody, TypeOK
  <2>3. FreeIsNobody'
    BY <1>0, <1>12 DEF ProcessEnds, StrangerStarts, FreeIsNobody, TypeOK
  <2>4. user = "signal" => pid \in Pids
    BY DEF SignalHasPid, TypeOK
  <2> QED BY <1>0, <2>1, <2>2, <2>3, <2>4
          DEF ChildInv, OneChild, Stages, StatusOfLastChild, CloseHitsNoStranger
<1>13. CASE UNCHANGED vars
  BY <1>0, <1>13 DEF vars, ChildInv, OneChild, FreeIsNobody, Stages, StatusOfLastChild,
                     Unreaped, CloseHitsNoStranger
<1> QED BY <1>1, <1>2, <1>3, <1>4, <1>5, <1>6, <1>7, <1>8, <1>9, <1>10, <1>11,
           <1>12, <1>13 DEF Next, Kill, Close, System

THEOREM Invariance == Spec => [](TypeOK /\ SignalHasPid /\ ChildInv)
<1>1. Init => SignalHasPid
  BY DEF Init, SignalHasPid
<1> QED BY <1>1, TypeInit, ChildInit, TypeStep, PidStep, ChildStep, PTL DEF Spec

\* No child of the object is forgotten before it is reaped (Process.ipp:80-83,
\* 158-178, 211-224).
THEOREM NoChildIsForgotten == Spec => []NoOrphan
<1>1. ChildInv => NoOrphan
  BY DEF ChildInv, OneChild, NoOrphan
<1> QED BY <1>1, Invariance, PTL

\* close() never signals a process that is not its child, however soon the
\* system reuses a pid (Process.ipp:158-170).
THEOREM StrangersAreSafe == Spec => []CloseHitsNoStranger
<1>1. ChildInv => CloseHitsNoStranger
  BY DEF ChildInv
<1> QED BY <1>1, Invariance, PTL

\* returnCode() is about the last child (Process.ipp:211-226).
THEOREM StatusIsCurrent == Spec => []StatusOfLastChild
<1>1. ChildInv => StatusOfLastChild
  BY DEF ChildInv
<1> QED BY <1>1, Invariance, PTL

\* What the run checks of the child as one invariant.
THEOREM ChildIsAccounted == Spec => []ChildAccounted
BY TypeCorrect, NoChildIsForgotten, StatusIsCurrent, StrangersAreSafe, PTL
   DEF ChildAccounted

\* When close() returns, no child of the object is alive or a zombie
\* (Process.ipp:163-178).
THEOREM ClosedMeansReaped == Spec => CloseReaps
<1>1. ASSUME TypeOK, SignalHasPid, ChildInv, [Next]_vars, closing, ~closing'
      PROVE  \A p \in Pids : ~Unreaped(p)'
  <2>1. CASE AskRunning \/ (\E e \in Ends : ReadOrWrite(e)) \/ OpenFails \/ OpenForks
             \/ CallKill
    <3>1. user = "idle"
      BY <2>1 DEF AskRunning, ReadOrWrite, OpenFails, OpenForks, CallKill
    <3> QED BY <1>1, <3>1 DEF ChildInv, Stages
  <2>2. CASE Kill \/ CallClose \/ CloseProbes \/ CloseAwaits
    <3>1. CASE Kill \/ CloseAwaits
      BY <1>1, <3>1, Zenon DEF Kill, Signal, Poll, CloseAwaits
    <3>2. CASE CallClose
      BY <1>1, <3>2, Zenon DEF CallClose
    <3>3. CASE CloseProbes
      BY <1>1, <3>3, Zenon DEF CloseProbes, EnterKill
    <3> QED BY <2>2, <3>1, <3>2, <3>3
  <2>3. CASE CloseFinishes
    BY <1>1, <2>3 DEF CloseFinishes, ChildInv, Stages, Unreaped
  <2>4. CASE System \/ UNCHANGED vars
    BY <1>1, <2>4, Zenon DEF System, ProcessEnds, StrangerStarts, OtherOpens,
                             OtherCloses, vars
  <2> QED BY <1>1, <2>1, <2>2, <2>3, <2>4 DEF Next, Close
<1>2. TypeOK /\ SignalHasPid /\ ChildInv /\ [Next]_vars
        => [closing /\ ~closing' => \A p \in Pids : ~Unreaped(p)']_vars
  BY <1>1
<1> QED BY <1>2, Invariance, PTL DEF Spec, CloseReaps

\* kill() returns true only with the child reaped, and so never after a timeout
\* (Process.ipp:180-197).
THEOREM KillTellsTruth == Spec => KillTells
<1>1. ASSUME TypeOK, ChildInv, [Next]_vars, user = "poll", ~closing,
             user' = "idle", answer'
      PROVE  \A p \in Pids : ~Unreaped(p)'
  <2>1. CASE Poll
    <3>1. Waitpid /\ pid' = pid /\ forks' = forks
      BY <2>1 DEF Poll
    <3>2. CASE IsRunning /\ left > 0
      BY <1>1, <2>1, <3>2 DEF Poll
    <3>3. CASE ~(IsRunning /\ left > 0)
      <4>1. answer' = ~IsRunning
        BY <2>1, <3>3 DEF Poll, KillReturns
      <4>2. ~IsRunning
        BY <1>1, <4>1, Zenon
      <4> QED BY <1>1, <3>1, <4>2, WaitpidFacts DEF ChildInv
    <3> QED BY <3>2, <3>3
  <2>2. CASE System \/ UNCHANGED vars
    <3>1. user' = user
      BY <2>2 DEF System, ProcessEnds, StrangerStarts, OtherOpens, OtherCloses, vars
    <3> QED BY <1>1, <3>1
  <2>3. Poll \/ System \/ UNCHANGED vars
    BY <1>1 DEF Next, AskRunning, ReadOrWrite, OpenFails, OpenForks, CallKill, Kill,
                Signal, CallClose, Close, CloseProbes, CloseAwaits, CloseFinishes
  <2> QED BY <2>1, <2>2, <2>3
<1>2. TypeOK /\ ChildInv /\ [Next]_vars
        => [user = "poll" /\ ~closing /\ user' = "idle" /\ answer'
              => \A p \in Pids : ~Unreaped(p)']_vars
  BY <1>1
<1> QED BY <1>2, Invariance, PTL DEF Spec, KillTells
-----------------------------------------------------------------------------
(* The descriptors *)

LEMMA EndsStep ==
  ASSUME TypeOK, OwnEnds, NoLeak, [Next]_vars
  PROVE  OwnEnds' /\ NoLeak'
<1> USE ProcessAssumption DEF TypeOK
<1>1. ASSUME NEW S \in SUBSET Ends, CloseEnds(S), reopened' = reopened
      PROVE  OwnEnds' /\ NoLeak'
  <2>1. /\ \A e \in Ends : fd'[e] = IF e \in S THEN None ELSE fd[e]
        /\ \A f \in FDs : table'[f] = IF \E e \in S : fd[e] = f THEN "free" ELSE table[f]
    BY <1>1 DEF CloseEnds
  <2>2. OwnEnds'
    BY <2>1 DEF OwnEnds
  <2>3. NoLeak'
    BY <1>1, <2>1 DEF NoLeak
  <2> QED BY <2>2, <2>3
<1>2. ASSUME UNCHANGED <<fd, table, reopened>> PROVE OwnEnds' /\ NoLeak'
  BY <1>2 DEF OwnEnds, NoLeak
<1>3. CASE AskRunning \/ OpenFails \/ CallKill \/ Kill \/ CallClose \/ CloseProbes
           \/ CloseAwaits \/ (\E p \in Pids : ProcessEnds(p) \/ StrangerStarts(p))
           \/ UNCHANGED vars
  <2>1. UNCHANGED <<fd, table, reopened>>
    BY <1>3, Zenon DEF AskRunning, OpenFails, CallKill, Kill, Signal, Poll, CallClose,
       CloseProbes, CloseAwaits, ProcessEnds, StrangerStarts, vars
  <2> QED BY <1>2, <2>1
<1>4. ASSUME NEW e \in Ends, ReadOrWrite(e) PROVE OwnEnds' /\ NoLeak'
  BY <1>1, <1>4 DEF ReadOrWrite
<1>5. CASE CloseFinishes
  BY <1>1, <1>5 DEF CloseFinishes
<1>6. CASE OpenForks
  <2>1. PICK ends \in [Ends -> Free] :
           /\ \A d, e \in Ends : d # e => ends[d] # ends[e]
           /\ fd' = ends
           /\ table' = [f \in FDs |-> IF \E e \in Ends : ends[e] = f
                                      THEN "pipe" ELSE table[f]]
    BY <1>6, Zenon DEF OpenForks
  <2>2. reopened' = (reopened \/ \E e \in Ends : fd[e] # None)
    BY <1>6, Zenon DEF OpenForks
  <2>3. \A e \in Ends : ends[e] \in FDs /\ table[ends[e]] = "free"
    BY <2>1 DEF Free
  <2>4. OwnEnds'
    BY <2>1, <2>3 DEF OwnEnds
  <2>5. ASSUME ~reopened' PROVE \A f \in FDs : table[f] # "pipe"
    <3>1. ~reopened /\ \A e \in Ends : fd[e] = None
      BY <2>2, <2>5, Zenon
    <3> QED BY <3>1 DEF NoLeak
  <2>6. NoLeak'
    BY <2>1, <2>5 DEF NoLeak
  <2> QED BY <2>4, <2>6
<1>7. ASSUME NEW f \in FDs, OtherOpens(f) \/ OtherCloses(f) PROVE OwnEnds' /\ NoLeak'
  BY <1>7 DEF OtherOpens, OtherCloses, OwnEnds, NoLeak
<1> QED BY <1>3, <1>4, <1>5, <1>6, <1>7 DEF Next, Close, System

\* The object never writes to, reads from or closes a descriptor that is not
\* its own (Process.ipp:124-156), and one that was closed before it is opened
\* again leaks none.
THEOREM DescriptorsAreOwn == Spec => [](OwnEnds /\ NoLeak)
<1>1. Init => OwnEnds /\ NoLeak
  BY DEF Init, OwnEnds, NoLeak
<1> QED BY <1>1, TypeCorrect, EndsStep, PTL DEF Spec
=============================================================================
