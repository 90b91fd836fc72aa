------------------------------ MODULE Clients ------------------------------
(***************************************************************************)
(* The two request-and-answer clients (socket/SNTPClient.ipp, PingClient.ipp) *)
(* over a network that loses and delays answers.  Requests are numbered; an  *)
(* answer carries the number of its request, which the code never looks at.  *)
(***************************************************************************)
EXTENDS Naturals, FiniteSets

CONSTANTS
  Iterations,   \* the values of iteration that callers pass
  MaxRequests   \* bound on requests ever sent

VARIABLES
  pc, client,  \* the client that runs, "sntp" or "ping", and where it is
  iteration,   \* iterations left
  request,     \* number of the last request sent
  waiting,     \* requests the host has not answered
  answered,    \* requests the host has answered, not yet received
  data,        \* the answer in data[] or buf, 0 for none
  samples,     \* [request, answer] of each iteration of getClock()
  result,      \* [done, ok]: what the client returned; stale is history: the earlier
               \* requests whose answers the call may take for that to its own
  clock        \* the answer settimeofday() was called with

vars == <<pc, client, iteration, request, waiting, answered, data, samples, result, clock>>

Begun(stale) == [done |-> FALSE, ok |-> FALSE, stale |-> stale]

Init == /\ pc = "idle" /\ client = "sntp" /\ iteration = 0 /\ request = 0
        /\ waiting = {} /\ answered = {} /\ data = 0 /\ samples = {}
        /\ result = Begun({}) /\ clock = 0

Return(ok, stale) == pc' = "idle" /\ result' = [done |-> TRUE, ok |-> ok, stale |-> stale]
Goto(to) == pc' = to /\ UNCHANGED result

\* The host answers once; the network keeps an answer as long as it likes, or for
\* ever.
Host == /\ \E r \in waiting :
             waiting' = waiting \ {r} /\ answered' = answered \cup {r}
        /\ UNCHANGED <<pc, client, iteration, request, data, samples, result, clock>>

\* Each call has a socket of its own.  Answers to the port of an earlier one are
\* gone; a raw socket sees every answer there is, those to earlier pings too (but
\* late answers are not followed through a call of getClock()).
Call == \E c \in {"sntp", "ping"}, n \in Iterations :
  /\ pc = "idle" /\ client' = c /\ pc' = "open"
  /\ iteration' = IF n < 1 THEN 1 ELSE n
  /\ IF c = "ping" /\ client = "ping" THEN UNCHANGED <<waiting, answered>>
     ELSE waiting' = {} /\ answered' = {}
  /\ data' = 0 /\ samples' = {} /\ result' = Begun(waiting' \cup answered')
  /\ UNCHANGED <<request, clock>>

Opens == /\ pc = "open" /\ (Goto("send") \/ Return(FALSE, result.stale))
         /\ UNCHANGED <<client, iteration, request, waiting, answered, data, samples, clock>>

\* A request; when the socket is not sendable or send() fails there is none.
Sends == /\ pc = "send"
         /\ \/ request < MaxRequests /\ request' = request + 1
               /\ waiting' = waiting \cup {request'} /\ Goto("receive")
            \/ Return(FALSE, result.stale) /\ UNCHANGED <<request, waiting>>
         /\ UNCHANGED <<client, iteration, answered, data, samples, clock>>

\* Mutant: after a timeout the request is sent again.
MutGetClockReceives ==
  /\ pc = "receive" /\ client = "sntp"
  /\ \/ \E a \in answered :
          /\ data' = a /\ answered' = answered \ {a}
          /\ IF iteration > 0
             THEN /\ samples' = samples \cup {[request |-> request, answer |-> a]}
                  /\ iteration' = iteration - 1 /\ Goto("send")
             ELSE UNCHANGED <<samples, iteration>> /\ Return(TRUE, result.stale)
     \/ Goto("send") /\ UNCHANGED <<data, answered, samples, iteration>>
  /\ UNCHANGED <<client, request, waiting, clock>>

\* getClock(): the answer, or false at the timeout.  The last answer, after all
\* iterations, is the one that counts; the result of its recv() is not looked at,
\* so an error there (ICMP's "unreachable") leaves the data of the last iteration and
\* returns true.
GetClockReceives ==
  /\ pc = "receive" /\ client = "sntp"
  /\ \/ \E a \in answered :
          /\ data' = a /\ answered' = answered \ {a}
          /\ IF iteration > 0
             THEN /\ samples' = samples \cup {[request |-> request, answer |-> a]}
                  /\ iteration' = iteration - 1 /\ Goto("send")
             ELSE UNCHANGED <<samples, iteration>> /\ Return(TRUE, result.stale)
     \/ /\ \/ Return(FALSE, result.stale)
           \/ iteration = 0 /\ Return(TRUE, {data})
        /\ UNCHANGED <<data, answered, samples, iteration>>
  /\ UNCHANGED <<client, request, waiting, clock>>

PingReceives ==
  /\ pc = "receive" /\ client = "ping"
  /\ \/ \E a \in answered :
          data' = a /\ answered' = answered \ {a} /\ Return(TRUE, result.stale)
     \/ Return(FALSE, result.stale) /\ UNCHANGED <<data, answered>>
  /\ UNCHANGED <<client, iteration, request, waiting, samples, clock>>

\* setClock(): a time of 0 seconds is a failure, and so is one of 0 microseconds.
SetClock ==
  /\ pc = "idle" /\ client = "sntp" /\ result.done
  /\ clock' \in IF result.ok THEN {data, clock} ELSE {clock}
  /\ result' = [result EXCEPT !.done = FALSE]
  /\ UNCHANGED <<pc, client, iteration, request, waiting, answered, data, samples>>

Next == Host \/ Call \/ Opens \/ Sends \/ GetClockReceives \/ PingReceives \/ SetClock

Spec == Init /\ [][Next]_vars
-----------------------------------------------------------------------------
TypeOK == /\ pc \in {"idle", "open", "send", "receive"} /\ client \in {"sntp", "ping"}
          /\ {request, data, clock} \subseteq 0 .. MaxRequests
          /\ answered \subseteq 1 .. MaxRequests /\ result.stale \subseteq 0 .. MaxRequests

\* Whose answer a client takes for that to its request, although it looks at none: in
\* an iteration of getClock() it is the right one, as the client gives up at the first
\* timeout and has a socket of its own; at worst, when the last recv() fails, its
\* result is the answer to the request before.  ping() may also take a late answer, to
\* an earlier request that was open when it was called, and no other
\* (SNTPClient.ipp:42-84, PingClient.ipp:31-67).
AnswersMatch ==
  /\ \A s \in samples : s.request = s.answer
  /\ result.ok => data \in result.stale \cup {request}
  /\ client = "sntp" /\ result.ok => data \in {request, request - 1}
=============================================================================
