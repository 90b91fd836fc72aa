------------------------------- MODULE MCNet -------------------------------
(***************************************************************************)
(* The classes that talk to the outside, one at a time (see Parts).  The     *)
(* state of SocketHandle keeps its names.                                   *)
(***************************************************************************)
EXTENDS Parts, SocketHandle, TLC

CONSTANTS
  AnyHost, Multicast, Peer, Backlog,   \* of SocketCalls
  MaxBytes, SndBuf, RcvBuf, Window,    \* of SocketStream
  Original, MaxOpens,                  \* of SerialPort
  Length, buf_size, MaxUnget,          \* of StreamBuf
  Iterations, MaxRequests              \* of Clients

\* Buffers hold something; the rest are bounds.
ASSUME NetAssumption ==
  /\ {Backlog, MaxBytes, Window, MaxOpens, Length, MaxUnget, MaxRequests} \subseteq Nat
  /\ {SndBuf, RcvBuf, buf_size} \subseteq Nat \ {0} /\ Iterations \subseteq Nat

Calls == INSTANCE SocketCalls
  WITH sock <- s1, kernel <- s2, call <- s3, ret <- s4
Stream == INSTANCE SocketStream
  WITH sender <- s1, receiver <- s2, buf <- s3, received <- s4, channel <- s5, broken <- s6
Serial == INSTANCE SerialPort
  WITH fd <- s1, pre_term_attr <- s2, term_attr <- s3, before <- s4, failed <- s5,
       descriptors <- s6, opens <- s7
Buffer == INSTANCE StreamBuf
  WITH taken <- s1, isOpen <- s2, buffer <- s3, gptr <- s4, pos <- s5, ungot <- s6, last <- s7,
       given <- s8, order <- s9
Clients == INSTANCE Clients
  WITH pc <- s1, client <- s2, iteration <- s3, request <- s4, waiting <- s5,
       answered <- s6, data <- s7, samples <- s8, result <- s9, clock <- s10

NetInit ==
  /\ Init
  /\ \/ part = "handle" /\ No1
     \/ part = "calls" /\ Calls!Init /\ No5
     \/ part = "stream" /\ Stream!Init /\ No7
     \/ part = "serial" /\ Serial!Init /\ No8
     \/ part = "buffer" /\ Buffer!Init /\ s10 = 0
     \/ part = "clients" /\ Clients!Init

NetNext ==
  \/ part = "handle" /\ Next /\ UNCHANGED shared
  \/ /\ UNCHANGED vars
     /\ \/ part = "calls" /\ Calls!Next /\ UNCHANGED <<s5, s6, s7, s8, s9, s10>>
        \/ part = "stream" /\ Stream!Next /\ UNCHANGED <<s7, s8, s9, s10>>
        \/ part = "serial" /\ Serial!Next /\ UNCHANGED <<s8, s9, s10>>
        \/ part = "buffer" /\ Buffer!Next /\ UNCHANGED s10
        \/ part = "clients" /\ Clients!Next

NetSpec == NetInit /\ [][NetNext /\ UNCHANGED part]_<<part, vars, shared>>

\* connect(), bind(), close() and the rest of Socket's calls: an open socket is
\* blocking after any connect(), true means a connection to toAddress(), and
\* isBound() agrees with the kernel.
ConnectSound == part = "calls" => Calls!TypeOK /\ Calls!ConnectSound

\* sendAll() and recvAll(): bytes in order, and all of them or a closed socket.
StreamSound == part = "stream" => Stream!TypeOK /\ Stream!StreamInOrder /\ Stream!AllOrClosed

\* A serial port that is closed leaves its terminal as it found it.
PortRestored == part = "serial" => Serial!TypeOK /\ Serial!AttributesRestored

\* Characters of a stream come in order, also across a refill and an unget, and however
\* they are read together with blocks none is lost or comes twice.
CharsInOrder == part = "buffer" => Buffer!TypeOK /\ Buffer!CharsInOrder /\ Buffer!NothingLost

\* No client takes the answer to one request for that to another, but a late answer of
\* an earlier ping or, after a failing recv(), the answer before.
AnswersMatch == part = "clients" => Clients!TypeOK /\ Clients!AnswersMatch

Symmetry == Permutations(Counters)
=============================================================================
