------------------------------ MODULE WriteLog ------------------------------
(***************************************************************************)
(* What an asynchronous file writer promises.  Messages are numbered in    *)
(* the order in which write() accepts them.  A message is first pending,   *)
(* then in the log, and messages reach the log in the order of acceptance. *)
(* Only the caller discards anything: pending messages from the young end  *)
(* (clearWriteQueue), or the log (opening the file for overwriting).       *)
(* The actions say which steps are allowed, not how to choose among them.  *)
(***************************************************************************)
EXTENDS MessageSeqs

VARIABLES accepted,  \* number of messages accepted so far
          pending,   \* accepted and not yet on stable storage
          log,       \* on stable storage
          discarded  \* thrown away at the caller's request

vars == <<accepted, pending, log, discarded>>

Init == accepted = 0 /\ pending = <<>> /\ log = <<>> /\ discarded = {}

Accept == /\ accepted' = accepted + 1
          /\ pending' = Append(pending, accepted + 1)
          /\ UNCHANGED <<log, discarded>>

\* The oldest pending messages reach stable storage together.
Persist == /\ Prefix(log, log')
           /\ log' \o pending' = log \o pending
           /\ UNCHANGED <<accepted, discarded>>

\* The youngest pending messages are dropped.
Drop == /\ Prefix(pending', pending)
        /\ discarded' = discarded \cup (Items(pending) \ Items(pending'))
        /\ UNCHANGED <<accepted, log>>

\* The file is overwritten from its start.
Truncate == /\ log' = <<>>
            /\ discarded' = discarded \cup Items(log)
            /\ UNCHANGED <<accepted, pending>>

Next == Accept \/ Persist \/ Drop \/ Truncate

Spec == Init /\ [][Next]_vars
=============================================================================
