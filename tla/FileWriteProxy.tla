--------------------------- MODULE FileWriteProxy ---------------------------
(***************************************************************************)
(* cutil::FileWriteProxy (misc/FileWriteProxy.h, .ipp): a Thread that      *)
(* writes to a file what other threads queue, so that they never wait for  *)
(* the disk.                                                               *)
(*                                                                         *)
(*   - the writer thread runs operator(): its critical section, fflush and *)
(*     fdatasync are separate steps, a wait on write_wcond is one more;    *)
(*   - the owner thread calls open(), close() (also what the destructor    *)
(*     does), one call at a time, step by step;                            *)
(*   - any thread calls write() (printf and the ostream end there) and     *)
(*     clearWriteQueue(), at any time: each is one critical section.       *)
(*                                                                         *)
(* A critical section of write_mutex is one step, since everything it      *)
(* reads or writes is accessed under that mutex only.  One write() call is *)
(* one message, numbered in the order of the critical sections.            *)
(***************************************************************************)
EXTENDS ThreadHandle, MessageSeqs

CONSTANTS MaxWrites,  \* bound: how many messages are written
          MaxOpens    \* bound: how often the file is opened

ASSUME BoundAssumption == MaxWrites \in Nat /\ MaxOpens \in Nat

VARIABLES
  fp,           \* fp # NULL
  stop_flag,
  write_queue,
  tid,          \* the inherited Thread object, see ThreadHandle
  writer,       \* where the writer thread is
  owner,        \* where the owner's call is
  stdio,        \* in the buffer of the FILE
  cache,        \* the part of the file only the kernel has
  disk,         \* the part of the file on stable storage
  opens,        \* number of successful open() calls
  accepted,     \* number of messages accepted by write()
  discarded,    \* messages cleared or overwritten at the caller's request
  promised      \* history: `accepted` when close() last raised stop_flag

vars == <<fp, stop_flag, write_queue, tid, writer, owner, stdio, cache, disk,
          opens, accepted, discarded, promised>>

fileVars == <<stdio, cache, disk>>
histVars == <<opens, accepted, discarded, promised>>

WriterStates == {"off",      \* no writer thread
                 "ready",    \* about to hold write_mutex: loop head, or woken
                 "waiting",  \* in write_wcond.wait
                 "flush",    \* unlocked, about to fflush
                 "sync"}     \* about to fdatasync
OwnerStates == {"idle", "probe", "join", "fclose"}

Init == /\ fp = FALSE
        /\ stop_flag = FALSE
        /\ write_queue = <<>>
        /\ tid = "none"
        /\ writer = "off"
        /\ owner = "idle"
        /\ stdio = <<>> /\ cache = <<>> /\ disk = <<>>
        /\ opens = 0 /\ accepted = 0 /\ discarded = {} /\ promised = 0
-----------------------------------------------------------------------------
(* Condition variable: a signal moves the only thread that ever waits. *)

\* Mutant: no notify().
MutNotified == writer

Notified == IF writer = "waiting" THEN "ready" ELSE writer

\* pthread_cond_wait may return without a signal.
SpuriousWakeup == /\ writer = "waiting"
                  /\ writer' = "ready"
                  /\ UNCHANGED <<fp, stop_flag, write_queue, tid, owner,
                                 fileVars, histVars>>
-----------------------------------------------------------------------------
(* operator(), the writer thread *)

\* Mutant: waits without a look at the queue.
MutWriterSleeps == /\ writer = "ready"
                   /\ ~stop_flag
                   /\ writer' = "waiting"
                   /\ UNCHANGED <<fp, stop_flag, write_queue, tid, owner,
                                  fileVars, histVars>>

WriterSleeps == /\ writer = "ready"
                /\ write_queue = <<>> /\ ~stop_flag
                /\ writer' = "waiting"
                /\ UNCHANGED <<fp, stop_flag, write_queue, tid, owner,
                               fileVars, histVars>>

\* Mutant: stop_flag is obeyed before the queue is empty.
MutWriterReturns == /\ writer = "ready"
                    /\ stop_flag
                    /\ writer' = "off"
                    /\ tid' = Terminated(tid)
                    /\ UNCHANGED <<fp, stop_flag, write_queue, owner,
                                   fileVars, histVars>>

WriterReturns == /\ writer = "ready"
                 /\ write_queue = <<>> /\ stop_flag
                 /\ writer' = "off"
                 /\ tid' = Terminated(tid)
                 /\ UNCHANGED <<fp, stop_flag, write_queue, owner,
                                fileVars, histVars>>

\* Mutant: the queue is not cleared.
MutTakesAgain == /\ writer = "ready"
                 /\ write_queue # <<>>
                 /\ stdio' = stdio \o write_queue
                 /\ writer' = "flush"
                 /\ UNCHANGED <<fp, stop_flag, write_queue, tid, owner, cache,
                                disk, histVars>>

\* fwrite of the whole queue, then write_queue.clear(), in the same section.
WriterTakes == /\ writer = "ready"
               /\ write_queue # <<>>
               /\ stdio' = stdio \o write_queue
               /\ write_queue' = <<>>
               /\ writer' = "flush"
               /\ UNCHANGED <<fp, stop_flag, tid, owner, cache, disk, histVars>>

\* Mutant: no fdatasync after the fflush.
MutWriterFlushes == /\ writer = "flush"
                    /\ cache' = cache \o stdio
                    /\ stdio' = <<>>
                    /\ writer' = "ready"
                    /\ UNCHANGED <<fp, stop_flag, write_queue, tid, owner, disk,
                                   histVars>>

WriterFlushes == /\ writer = "flush"
                 /\ cache' = cache \o stdio
                 /\ stdio' = <<>>
                 /\ writer' = "sync"
                 /\ UNCHANGED <<fp, stop_flag, write_queue, tid, owner, disk,
                                histVars>>

WriterSyncs == /\ writer = "sync"
               /\ disk' = disk \o cache
               /\ cache' = <<>>
               /\ writer' = "ready"
               /\ UNCHANGED <<fp, stop_flag, write_queue, tid, owner, stdio,
                              histVars>>

Writer == \/ WriterSleeps \/ WriterReturns \/ WriterTakes
          \/ WriterFlushes \/ WriterSyncs
-----------------------------------------------------------------------------
(* write() and clearWriteQueue(), any thread, open or not *)

Write == /\ accepted < MaxWrites
         /\ accepted' = accepted + 1
         /\ write_queue' = Append(write_queue, accepted + 1)
         /\ writer' = Notified
         /\ UNCHANGED <<fp, stop_flag, tid, owner, fileVars, opens, discarded,
                        promised>>

ClearWriteQueue == /\ write_queue # <<>>
                   /\ discarded' = discarded \cup Items(write_queue)
                   /\ write_queue' = <<>>
                   /\ UNCHANGED <<fp, stop_flag, tid, writer, owner, fileVars,
                                  opens, accepted, promised>>
-----------------------------------------------------------------------------
(* The owner: open() and close() *)

\* fopen of the same file with "w" empties it.
FopenWrite == /\ disk' = <<>> /\ cache' = <<>>
              /\ discarded' = discarded \cup Items(disk \o cache)
FopenAppend == UNCHANGED <<disk, cache, discarded>>

\* start() has returned once the new thread runs; open() ignores its result.
StartWriter == \E running \in Probe(tid), created \in CreateOutcomes :
  /\ tid' = Started(tid, running, created)
  /\ writer' = IF ~running /\ created THEN "ready" ELSE writer

Open == /\ owner = "idle" /\ ~fp
        /\ opens < MaxOpens
        /\ opens' = opens + 1
        /\ FopenWrite \/ FopenAppend
        /\ fp' = TRUE
        /\ stop_flag' = FALSE
        /\ StartWriter
        /\ UNCHANGED <<write_queue, owner, stdio, accepted, promised>>

CloseRaisesStop == /\ owner = "idle" /\ fp
                   /\ stop_flag' = TRUE
                   /\ writer' = Notified
                   /\ promised' = accepted
                   /\ owner' = "probe"
                   /\ UNCHANGED <<fp, write_queue, tid, fileVars, opens,
                                  accepted, discarded>>

\* join() first asks isRunning() and gives up when the answer is no.
CloseProbes == /\ owner = "probe"
               /\ \E running \in Probe(tid) :
                    /\ tid' = AfterProbe(tid, running)
                    /\ owner' = IF running THEN "join" ELSE "fclose"
               /\ UNCHANGED <<fp, stop_flag, write_queue, writer, fileVars,
                              histVars>>

CloseJoins == /\ owner = "join"
              /\ JoinReturns(tid)
              /\ tid' = Joined(tid)
              /\ owner' = "fclose"
              /\ UNCHANGED <<fp, stop_flag, write_queue, writer, fileVars,
                             histVars>>

CloseFcloses == /\ owner = "fclose"
                /\ cache' = cache \o stdio
                /\ stdio' = <<>>
                /\ fp' = FALSE
                /\ owner' = "idle"
                /\ UNCHANGED <<stop_flag, write_queue, tid, writer, disk,
                               histVars>>

Close == CloseProbes \/ CloseJoins \/ CloseFcloses

\* The owner is done and every bound is reached.
Finished == /\ owner = "idle" /\ ~fp
            /\ opens = MaxOpens /\ accepted = MaxWrites
            /\ UNCHANGED vars
-----------------------------------------------------------------------------
Next == \/ Writer \/ SpuriousWakeup
        \/ Write \/ ClearWriteQueue
        \/ Open \/ CloseRaisesStop \/ Close
        \/ Finished

Spec == Init /\ [][Next]_vars

\* The scheduler runs a thread that can run: the writer, and an owner that is
\* inside close().  Nobody has to call write(), open() or close().
FairSpec == Spec /\ WF_vars(Writer) /\ WF_vars(Close)
-----------------------------------------------------------------------------
(* Properties *)

TypeOK == /\ fp \in BOOLEAN /\ stop_flag \in BOOLEAN
          /\ tid \in HandleStates
          /\ writer \in WriterStates /\ owner \in OwnerStates
          /\ write_queue \in Seq(Nat) /\ stdio \in Seq(Nat)
          /\ cache \in Seq(Nat) /\ disk \in Seq(Nat)
          /\ opens \in Nat /\ accepted \in Nat /\ promised \in Nat
          /\ discarded \in SUBSET Nat

\* No wakeup is lost: while the writer sleeps in write_wcond.wait and nothing
\* has woken it, there is nothing to write and nobody asked it to stop.
NoLostWakeup == writer = "waiting" => write_queue = <<>> /\ ~stop_flag

\* The writer never sleeps, or returns, on data it took from the queue: it is
\* on stable storage (lines 31-40), in whatever order writes arrived.
NothingHeldBack == writer \in {"waiting", "ready", "off"} =>
                     stdio = <<>> /\ cache = <<>>

\* close() closes the FILE only when no thread can still use it.
NotClosedInUse == writer # "off" => fp /\ owner # "fclose"

\* The three together: the writer and close() never wait for, or work on, what
\* the other has left (FileWriteProxy.ipp:14-43, 69-86).
WriterSafe == TypeOK /\ NoLostWakeup /\ NotClosedInUse

\* When close() reaches fclose, every message accepted before it raised
\* stop_flag is in the file, unless the caller discarded it.
CloseKeepsPromise ==
  owner = "fclose" =>
    \A m \in 1 .. promised : m \in discarded \cup Items(disk \o cache \o stdio)

\* Every accepted message is in exactly one place, in the order of acceptance.
InOrder == Increasing(disk \o cache \o stdio \o write_queue)
Accounted ==
  Items(disk \o cache \o stdio \o write_queue) = (1 .. accepted) \ discarded

\* The writer and the queue implement the log of WriteLog.
Log == INSTANCE WriteLog WITH log <- disk,
                              pending <- cache \o stdio \o write_queue
ImplementsLog == Log!Spec

\* What is in the queue of an open file, and nobody has asked to close, is
\* eventually on stable storage (or discarded by the caller).
Delivered ==
  \A m \in 1 .. MaxWrites :
    (m \in Items(write_queue) /\ fp /\ ~stop_flag)
      ~> (m \in Items(disk) \cup discarded)

\* close() returns, though it waits for a thread that may be asleep.
CloseReturns == (owner # "idle") ~> (owner = "idle")
=============================================================================
