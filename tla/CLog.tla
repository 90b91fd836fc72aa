-------------------------------- MODULE CLog --------------------------------
(***************************************************************************)
(* cutil::CLog (logging/CLog.h, CLog.ipp): a log file that rotates.        *)
(*                                                                         *)
(* A CLog is a Thread whose operator() renames the file when it has grown  *)
(* and replaces fwriter_current, the FileWriteProxy that write() feeds.    *)
(* The proxies are used through what module FileWriteProxy establishes of  *)
(* them: accepted messages reach the file in order, some time later, and   *)
(* close() returns when all of them have.                                  *)
(*                                                                         *)
(*   - the rotator thread runs operator(); it holds fwriter_mutex during a *)
(*     rotation, whose renames are separate steps, since the process may   *)
(*     die between them and the proxies go on writing;                     *)
(*   - the owner calls open() and close();                                 *)
(*   - any writer calls write() or printf(): isOpen() is asked before the  *)
(*     lock, so the two are separate steps.                                *)
(*                                                                         *)
(* Name 0 is `filename`, name n is `filename.(n-1)`.  A message has size 1.*)
(***************************************************************************)
EXTENDS ThreadHandle, MessageSeqs, FiniteSets

CONSTANTS
  Writers,         \* the threads that write
  SizeToRotate,    \* size_to_rotate
  RotateAtFirst,   \* rotate_at_first, as open() gets it
  FopenOutcomes,   \* may the rotator's fopen succeed, fail, or both?
  MaxWrites, MaxOpens, MaxRotations, MaxCrashes   \* bounds

ASSUME CLogAssumption ==
  /\ IsFiniteSet(Writers)
  /\ SizeToRotate \in Nat /\ RotateAtFirst \in BOOLEAN
  /\ FopenOutcomes \in SUBSET BOOLEAN /\ FopenOutcomes # {}
  /\ MaxWrites \in Nat /\ MaxOpens \in Nat
  /\ MaxRotations \in Nat /\ MaxCrashes \in Nat

Inodes == 1 .. MaxOpens + MaxRotations
Names == 0 .. MaxOpens + MaxRotations + 1
None == 0                                   \* no file, no proxy

VARIABLES
  dir,              \* dir[name]: the inode of that name, or None
  content,          \* content[inode]: the messages in the file
  inodes,           \* number of inodes ever created
  current,          \* fwriter_current: the inode it writes to, or None
  currentQueue,     \* ... and the messages it has accepted and not written
  old, oldQueue,    \* the same of fwriter_old
  currentOpen,      \* fwriter_current->open() has succeeded
  tid, stop_flag, rotate_at_first,
  rotator,          \* where the rotator thread is
  shift,            \* i of the loop that renames
  owner,            \* where the owner's call is
  writing,          \* writing[w]: w is past isOpen() and before the lock
  accepted, lost,   \* messages accepted; lost in a crash or with a dead proxy
  opens, rotations, crashes

files == <<dir, content, inodes>>
currentVars == <<current, currentQueue, currentOpen>>
oldVars == <<old, oldQueue>>
flags == <<tid, stop_flag, rotate_at_first>>
counters == <<opens, rotations, crashes>>
vars == <<files, currentVars, oldVars, flags, rotator, shift, owner, writing,
          accepted, lost, counters>>

RotatorStates == {"off",
                  "check",    \* about to hold fwriter_mutex: loop head, or woken
                  "waiting",  \* in fwriter_wcond.wait
                  "shift",    \* holds it: renaming name `shift` to the next
                  "reopen",   \* holds it: about to replace fwriter_current
                  "closeOld"} \* unlocked: in fwriter_old->close()
OwnerStates == {"idle", "probe", "join", "closing"}

\* Only the rotator holds fwriter_mutex for longer than one step.
MutexFree == rotator \notin {"shift", "reopen"}

Init == /\ dir = [n \in Names |-> None] /\ content = [f \in Inodes |-> <<>>]
        /\ inodes = 0
        /\ current = None /\ currentQueue = <<>> /\ currentOpen = FALSE
        /\ old = None /\ oldQueue = <<>>
        /\ tid = "none" /\ stop_flag = FALSE /\ rotate_at_first = FALSE
        /\ rotator = "off" /\ shift = 0
        /\ owner = "idle" /\ writing = [w \in Writers |-> FALSE]
        /\ accepted = 0 /\ lost = {}
        /\ opens = 0 /\ rotations = 0 /\ crashes = 0
-----------------------------------------------------------------------------
(* The file system and the proxies *)

FileSize(n) == IF dir[n] = None THEN 0 ELSE Len(content[dir[n]])

\* rename() replaces whatever has the new name, and fails when there is no old
\* one, which the code ignores.
Rename(from, to) ==
  dir' = IF dir[from] = None THEN dir
         ELSE [dir EXCEPT ![to] = dir[from], ![from] = None]

\* fopen of `filename`, which creates it when it does not exist.
Created == dir[0] = None
OpenedInode == IF Created THEN inodes + 1 ELSE dir[0]
FopenCurrent == /\ dir' = [dir EXCEPT ![0] = OpenedInode]
                /\ inodes' = IF Created THEN inodes + 1 ELSE inodes

\* "w" also empties a file that exists.
FopenEmpties == content' = [content EXCEPT ![OpenedInode] = <<>>]

\* Some of the oldest messages of a proxy reach its file.
CurrentWrites == /\ currentOpen
                 /\ \E k \in 1 .. Len(currentQueue) :
                      /\ content' = [content EXCEPT ![current] =
                                       @ \o SubSeq(currentQueue, 1, k)]
                      /\ currentQueue' = SubSeq(currentQueue, k + 1, Len(currentQueue))
                 /\ UNCHANGED <<dir, inodes, current, currentOpen, oldVars, flags,
                                rotator, shift, owner, writing, accepted, lost,
                                counters>>

OldWrites == /\ \E k \in 1 .. Len(oldQueue) :
                  /\ content' = [content EXCEPT ![old] =
                                   @ \o SubSeq(oldQueue, 1, k)]
                  /\ oldQueue' = SubSeq(oldQueue, k + 1, Len(oldQueue))
             /\ UNCHANGED <<dir, inodes, currentVars, old, flags, rotator, shift,
                            owner, writing, accepted, lost, counters>>
-----------------------------------------------------------------------------
(* operator(), the rotator thread *)

\* Mutant: only the size counts.
MutHasToRotate == FileSize(0) >= SizeToRotate

HasToRotate == rotate_at_first \/ FileSize(0) >= SizeToRotate

RotatorSleeps == /\ rotator = "check" /\ ~stop_flag
                 /\ ~HasToRotate
                 /\ rotator' = "waiting"
                 /\ UNCHANGED <<files, currentVars, oldVars, flags, shift, owner,
                                writing, accepted, lost, counters>>

RotatorReturns == /\ rotator = "check" /\ stop_flag
                  /\ rotator' = "off"
                  /\ tid' = Terminated(tid)
                  /\ UNCHANGED <<files, currentVars, oldVars, stop_flag,
                                 rotate_at_first, shift, owner, writing, accepted,
                                 lost, counters>>

SpuriousWakeup == /\ rotator = "waiting"
                  /\ rotator' = "check"
                  /\ UNCHANGED <<files, currentVars, oldVars, flags, shift, owner,
                                 writing, accepted, lost, counters>>

\* The first suffix that is free: every name before it moves up by one.
FirstFree == CHOOSE n \in Names \ {0} :
               /\ dir[n] = None
               /\ \A m \in 1 .. n - 1 : dir[m] # None

\* What the loops rename first: the name below the first free one.
FirstShift == FirstFree - 1

RotationStarts == /\ rotator = "check" /\ ~stop_flag
                  /\ HasToRotate
                  /\ rotations < MaxRotations
                  /\ rotations' = rotations + 1
                  /\ shift' = FirstShift
                  /\ rotator' = "shift"
                  /\ UNCHANGED <<files, currentVars, oldVars, flags, owner, writing,
                                 accepted, lost, opens, crashes>>

\* Mutant: `filename` goes to the first free suffix and the others stay.
MutShift == /\ rotator = "shift"
            /\ Rename(0, FirstFree)
            /\ rotator' = "reopen" /\ rotate_at_first' = FALSE /\ shift' = 0
            /\ UNCHANGED <<content, inodes, currentVars, oldVars, tid, stop_flag,
                           owner, writing, accepted, lost, counters>>

\* One rename, from the highest suffix down to `filename` itself (name 0).
Shift == /\ rotator = "shift"
         /\ Rename(shift, shift + 1)
         /\ IF shift = 0
              THEN rotator' = "reopen" /\ rotate_at_first' = FALSE /\ shift' = 0
              ELSE shift' = shift - 1 /\ UNCHANGED <<rotator, rotate_at_first>>
         /\ UNCHANGED <<content, inodes, currentVars, oldVars, tid, stop_flag, owner,
                        writing, accepted, lost, counters>>

\* fwriter_old = fwriter_current, and a new proxy that overwrites `filename`.
\* The result of its open() is ignored: a proxy without a file keeps what it is
\* given until it is closed, and loses it then.
Reopen == /\ rotator = "reopen"
          /\ old' = current
          /\ IF currentOpen
               THEN oldQueue' = currentQueue /\ lost' = lost
               ELSE oldQueue' = <<>> /\ lost' = lost \cup Items(currentQueue)
          /\ currentQueue' = <<>>
          /\ current' = OpenedInode
          /\ \E opened \in FopenOutcomes :
               /\ currentOpen' = opened
               /\ IF opened THEN FopenCurrent /\ FopenEmpties
                            ELSE UNCHANGED files
          /\ rotator' = "closeOld"
          /\ UNCHANGED <<flags, shift, owner, writing, accepted, counters>>

\* fwriter_old->close() waits for its queue; then it is deleted.
OldDrained == oldQueue = <<>>
CloseOld == /\ rotator = "closeOld"
            /\ OldDrained
            /\ old' = None /\ oldQueue' = <<>>
            /\ rotator' = "check"
            /\ UNCHANGED <<files, currentVars, flags, shift, owner, writing,
                           accepted, lost, counters>>

Rotator == \/ RotatorSleeps \/ RotatorReturns \/ RotationStarts
           \/ Shift \/ Reopen \/ CloseOld
-----------------------------------------------------------------------------
(* write() and printf() of a writer *)

\* Mutant: no notify().
MutNotified == rotator

Notified == IF rotator = "waiting" THEN "check" ELSE rotator

\* isOpen() and the level, without the lock.  Nobody may write while the owner
\* closes: fwriter_current would be gone when write() gets the lock.
WriteEnters(w) == /\ ~writing[w]
                  /\ owner = "idle" /\ current # None
                  /\ accepted + Cardinality({v \in Writers : writing[v]}) < MaxWrites
                  /\ writing' = [writing EXCEPT ![w] = TRUE]
                  /\ UNCHANGED <<files, currentVars, oldVars, flags, rotator, shift,
                                 owner, accepted, lost, counters>>

Write(w) == /\ writing[w]
            /\ MutexFree
            /\ accepted' = accepted + 1
            /\ currentQueue' = Append(currentQueue, accepted + 1)
            /\ rotator' = Notified
            /\ writing' = [writing EXCEPT ![w] = FALSE]
            /\ UNCHANGED <<files, current, currentOpen, oldVars, flags, shift, owner,
                           lost, counters>>
-----------------------------------------------------------------------------
(* open() and close() of the owner *)

\* fwriter_current->open(filename, APPEND), then start(), whose result open()
\* ignores.
Open == /\ owner = "idle" /\ current = None
        /\ opens < MaxOpens
        /\ opens' = opens + 1
        /\ FopenCurrent
        /\ current' = OpenedInode /\ currentQueue' = <<>> /\ currentOpen' = TRUE
        /\ rotate_at_first' = RotateAtFirst
        /\ stop_flag' = FALSE
        /\ \E running \in Probe(tid), created \in CreateOutcomes :
             /\ tid' = Started(tid, running, created)
             /\ rotator' = IF ~running /\ created THEN "check" ELSE rotator
        /\ UNCHANGED <<content, oldVars, shift, owner, writing, accepted, lost,
                       rotations, crashes>>

\* The log is closed when nobody is inside write().
CloseRaisesStop == /\ owner = "idle" /\ current # None
                   /\ \A w \in Writers : ~writing[w]
                   /\ MutexFree
                   /\ stop_flag' = TRUE
                   /\ rotator' = Notified
                   /\ owner' = "probe"
                   /\ UNCHANGED <<files, currentVars, oldVars, tid, rotate_at_first,
                                  shift, writing, accepted, lost, counters>>

\* Mutant: close() does not join.
MutCloseProbes == /\ owner = "probe"
                  /\ owner' = "closing"
                  /\ UNCHANGED <<files, currentVars, oldVars, flags, rotator, shift,
                                 writing, accepted, lost, counters>>

CloseProbes == /\ owner = "probe"
               /\ \E running \in Probe(tid) :
                    /\ tid' = AfterProbe(tid, running)
                    /\ owner' = IF running THEN "join" ELSE "closing"
               /\ UNCHANGED <<files, currentVars, oldVars, stop_flag,
                              rotate_at_first, rotator, shift, writing, accepted,
                              lost, counters>>

CloseJoins == /\ owner = "join"
              /\ JoinReturns(tid)
              /\ tid' = Joined(tid)
              /\ owner' = "closing"
              /\ UNCHANGED <<files, currentVars, oldVars, stop_flag,
                             rotate_at_first, rotator, shift, writing, accepted,
                             lost, counters>>

\* Mutant: the proxy is deleted without a close() that waits.
MutCurrentDrained == TRUE

\* fwriter_current->close() waits for its queue; a proxy that could not open
\* its file closes at once and takes its queue along.
CurrentDrained == currentOpen => currentQueue = <<>>
CloseCurrent == /\ owner = "closing"
                /\ CurrentDrained
                /\ lost' = IF currentOpen THEN lost ELSE lost \cup Items(currentQueue)
                /\ current' = None /\ currentQueue' = <<>> /\ currentOpen' = FALSE
                /\ owner' = "idle"
                /\ UNCHANGED <<files, oldVars, flags, rotator, shift, writing,
                               accepted, counters>>

Close == CloseProbes \/ CloseJoins \/ CloseCurrent
-----------------------------------------------------------------------------
\* The process dies; the next one finds the files.
Crash == /\ crashes < MaxCrashes
         /\ current # None
         /\ crashes' = crashes + 1
         /\ lost' = lost \cup Items(currentQueue) \cup Items(oldQueue)
         /\ current' = None /\ currentQueue' = <<>> /\ currentOpen' = FALSE
         /\ old' = None /\ oldQueue' = <<>>
         /\ tid' = "none" /\ stop_flag' = FALSE /\ rotate_at_first' = FALSE
         /\ rotator' = "off" /\ shift' = 0
         /\ owner' = "idle" /\ writing' = [w \in Writers |-> FALSE]
         /\ UNCHANGED <<files, accepted, opens, rotations>>

\* The log is closed for good, and every bound on its use is reached.
Finished == /\ owner = "idle" /\ current = None /\ opens = MaxOpens
            /\ UNCHANGED vars

Next == \/ Rotator \/ SpuriousWakeup
        \/ CurrentWrites \/ OldWrites
        \/ \E w \in Writers : WriteEnters(w) \/ Write(w)
        \/ Open \/ CloseRaisesStop \/ Close
        \/ Crash \/ Finished

Spec == Init /\ [][Next]_vars

\* The rotator and the proxies run whenever they can, and so does an owner in
\* close().
FairSpec == /\ Spec
            /\ WF_vars(Rotator) /\ WF_vars(CurrentWrites) /\ WF_vars(OldWrites)
            /\ WF_vars(Close)
-----------------------------------------------------------------------------
(* Properties *)

TypeOK == /\ dir \in [Names -> Inodes \cup {None}]
          /\ content \in [Inodes -> Seq(1 .. MaxWrites)]
          /\ inodes \in 0 .. MaxOpens + MaxRotations
          /\ current \in Inodes \cup {None} /\ old \in Inodes \cup {None}
          /\ currentQueue \in Seq(1 .. MaxWrites) /\ oldQueue \in Seq(1 .. MaxWrites)
          /\ currentOpen \in BOOLEAN
          /\ tid \in HandleStates
          /\ stop_flag \in BOOLEAN /\ rotate_at_first \in BOOLEAN
          /\ rotator \in RotatorStates /\ shift \in Names
          /\ owner \in OwnerStates
          /\ writing \in [Writers -> BOOLEAN]
          /\ accepted \in 0 .. MaxWrites /\ lost \in SUBSET (1 .. MaxWrites)
          /\ opens \in 0 .. MaxOpens /\ rotations \in 0 .. MaxRotations
          /\ crashes \in 0 .. MaxCrashes

InFiles == UNION {Items(content[dir[n]]) : n \in {m \in Names : dir[m] # None}}

\* No message disappears: one that is not queued is in a file that still has a
\* name.  So rotation overwrites no file, and close() and the deletion of a
\* replaced proxy drop nothing.  `lost` holds what was queued when the process
\* died, or was given to a proxy that could not open its file.
AllLogged ==
  InFiles \cup Items(currentQueue) \cup Items(oldQueue) \cup lost = 1 .. accepted

\* No rename ever replaces an existing file, even in a process that finds the
\* files of one that died in the middle of a rotation.
NeverOverwrites == rotator = "shift" => dir[shift + 1] = None

\* The files, from the highest suffix to `filename`, hold the messages in the
\* order of acceptance, though two proxies may be writing to two of them.
AgeOrder ==
  /\ \A n \in Names : dir[n] # None => Increasing(content[dir[n]])
  /\ \A n, m \in Names : n < m /\ dir[n] # None /\ dir[m] # None =>
       \A x \in Items(content[dir[n]]), y \in Items(content[dir[m]]) : y < x

\* Rotation keeps the files and their order (CLog.ipp:54-103).
FilesInOrder == TypeOK /\ NeverOverwrites /\ AgeOrder

\* A rotator is the thread tid names, and it never outlives the log.
RotatorBelongs == rotator # "off" => tid = "live" /\ current # None

\* close() returns.
CloseReturns == (owner # "idle") ~> (owner = "idle")

\* A log opened with rotate_at_first rotates, unless it is closed first.
RotatesAtFirst == rotate_at_first ~> (~rotate_at_first \/ stop_flag)
=============================================================================
