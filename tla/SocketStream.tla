---------------------------- MODULE SocketStream ----------------------------
(***************************************************************************)
(* One direction of a TCP connection between two Sockets: the loops of      *)
(* sendAll() and recvAll() (socket/Socket.ipp), which the kernel serves in   *)
(* parts.  The bytes handed to sendAll() are numbered 1, 2, 3, ...           *)
(***************************************************************************)
EXTENDS Integers, Sequences, SequencesExt

CONSTANTS MaxBytes,  \* bound on the bytes handed to sendAll()
          SndBuf,    \* SO_SNDBUF
          RcvBuf,    \* SO_RCVBUF
          Window     \* what the kernels hold between the two

VARIABLES
  sender,    \* [open, pc, size, sentBytes, asked, ret]
  receiver,  \* [open, pc, size, recvBytes, ret]
  buf,       \* the caller's buffer of the current recvAll()
  received,  \* all bytes recv() has returned
  channel,   \* bytes on their way
  broken     \* has the connection been reset?

vars == <<sender, receiver, buf, received, channel, broken>>

Least(a, b) == IF a < b THEN a ELSE b
Range1(from, to) == [i \in 1 .. (to - from) |-> from + i]

Init ==
  /\ sender = [open |-> TRUE, pc |-> "idle", size |-> 0, sentBytes |-> 0, asked |-> 0, ret |-> "none"]
  /\ receiver = [open |-> TRUE, pc |-> "idle", size |-> 0, recvBytes |-> 0, ret |-> "none"]
  /\ buf = << >> /\ received = << >> /\ channel = << >> /\ broken = FALSE

Reset == ~broken /\ broken' = TRUE /\ channel' = << >>
         /\ UNCHANGED <<sender, receiver, buf, received>>
-----------------------------------------------------------------------------
(* sendAll(): the data of this call are the bytes after asked - size *)

SendAll == \E n \in 0 .. MaxBytes - sender.asked :
  /\ sender.pc = "idle"
  /\ sender' = IF ~sender.open THEN [sender EXCEPT !.ret = "false"]
               ELSE [sender EXCEPT !.pc = "send", !.size = n, !.sentBytes = 0,
                                   !.asked = @ + n, !.ret = "none"]
  /\ UNCHANGED <<receiver, buf, received, channel, broken>>

SendFails == [sender EXCEPT !.open = FALSE, !.pc = "idle", !.ret = "false"]

\* Mutant: `data` for `data + sentBytes`.
MutPiece(bytes) == LET first == sender.asked - sender.size IN Range1(first, first + bytes)

\* The next bytes of the call, and the state after the kernel took them.
Piece(bytes) == LET first == sender.asked - sender.size + sender.sentBytes
                IN Range1(first, first + bytes)
Sent(bytes) ==
  [sender EXCEPT !.sentBytes = @ + bytes,
                 !.pc = IF @ = "send" /\ sender.sentBytes + bytes = sender.size THEN "idle" ELSE @,
                 !.ret = IF sender.sentBytes + bytes = sender.size THEN "true" ELSE @]

\* One ::send: the kernel takes a part, or fails and the socket is closed.
Send ==
  /\ sender.pc = "send"
  /\ LET left == sender.size - sender.sentBytes
         bufnum == IF left > SndBuf THEN SndBuf ELSE left
     IN \/ \E bytes \in (IF bufnum = 0 THEN 0 ELSE 1) .. Least(bufnum, Window - Len(channel)) :
             /\ ~broken
             /\ channel' = channel \o Piece(bytes) /\ sender' = Sent(bytes)
        \/ /\ broken \/ ~receiver.open
           /\ sender' = SendFails /\ UNCHANGED channel
  /\ UNCHANGED <<receiver, buf, received, broken>>

CloseSender == /\ sender.pc = "idle" /\ sender.open /\ sender' = [sender EXCEPT !.open = FALSE]
               /\ UNCHANGED <<receiver, buf, received, channel, broken>>
-----------------------------------------------------------------------------
(* recvAll() and recv() *)

RecvAll == \E n \in 0 .. MaxBytes :
  /\ receiver.pc = "idle" /\ buf' = << >>
  /\ receiver' = IF ~receiver.open THEN [receiver EXCEPT !.ret = "false", !.size = n]
                 ELSE [receiver EXCEPT !.pc = "recv", !.size = n, !.recvBytes = 0, !.ret = "none"]
  /\ UNCHANGED <<sender, received, channel, broken>>

\* What ::recv may answer to a request for at most size bytes: a part of what is
\* there, end of file, or an error; with nothing there it blocks.
RecvAnswers(size) ==
  IF broken THEN {-1}
  ELSE IF size = 0 THEN {0}
  ELSE IF channel # << >> THEN 1 .. Least(size, Len(channel))
  ELSE IF ~sender.open THEN {0} ELSE {}

\* recv() closes the socket unless it got something or was asked for nothing.
Recv ==
  /\ receiver.pc = "recv"
  /\ LET left == receiver.size - receiver.recvBytes
         bufnum == IF left > RcvBuf THEN RcvBuf ELSE left
     IN \E got \in RecvAnswers(bufnum) :
          IF got <= 0
          THEN /\ receiver' = [receiver EXCEPT !.open = ~(bufnum > 0), !.pc = "idle", !.ret = "false"]
               /\ UNCHANGED <<buf, received, channel>>
          ELSE /\ buf' = buf \o SubSeq(channel, 1, got)
               /\ received' = received \o SubSeq(channel, 1, got)
               /\ channel' = SubSeq(channel, got + 1, Len(channel))
               /\ receiver' = [receiver EXCEPT !.recvBytes = @ + got,
                                 !.pc = IF receiver.recvBytes + got = receiver.size THEN "idle" ELSE @,
                                 !.ret = IF receiver.recvBytes + got = receiver.size THEN "true" ELSE @]
  /\ UNCHANGED <<sender, broken>>

\* recv() with peek_flag leaves the bytes, but closes at the end of the stream.
Peek ==
  /\ receiver.pc = "idle" /\ receiver.open
  /\ \E got \in RecvAnswers(1) :
       receiver' = [receiver EXCEPT !.open = (got > 0), !.ret = "none"]
  /\ UNCHANGED <<sender, buf, received, channel, broken>>

Next == Reset \/ SendAll \/ Send \/ CloseSender \/ RecvAll \/ Recv \/ Peek

Spec == Init /\ [][Next]_vars
-----------------------------------------------------------------------------
TypeOK ==
  /\ sender \in [open : BOOLEAN, pc : {"idle", "send"}, size : 0 .. MaxBytes,
                 sentBytes : 0 .. MaxBytes, asked : 0 .. MaxBytes, ret : {"none", "true", "false"}]
  /\ receiver \in [open : BOOLEAN, pc : {"idle", "recv"}, size : 0 .. MaxBytes,
                   recvBytes : 0 .. MaxBytes, ret : {"none", "true", "false"}]
  /\ Len(channel) <= Window /\ broken \in BOOLEAN

\* What arrives is what was sent, in order and once, through partial sends and
\* receives (Socket.ipp:552-581, 643-671).
StreamInOrder == IsPrefix(received \o channel, Range1(0, sender.asked))

\* true from recvAll() means exactly the bytes asked for; after false the socket
\* is closed, so that no half message is taken for the next one, unless nothing
\* was asked for; true from sendAll() means that everything was handed over.
AllOrClosed ==
  /\ receiver.ret = "true" => Len(buf) = receiver.size /\ IsSuffix(buf, received)
  /\ receiver.ret = "false" => ~receiver.open \/ receiver.size = 0
  /\ sender.ret = "true" => sender.sentBytes = sender.size
  /\ sender.ret = "false" => ~sender.open
  /\ sender.pc = "idle" /\ sender.open /\ ~broken =>
       Len(received) + Len(channel) = sender.asked
=============================================================================
