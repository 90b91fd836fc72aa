---------------------------- MODULE SocketCalls ----------------------------
(***************************************************************************)
(* The calls of one Socket object (socket/Socket.ipp) and the kernel socket  *)
(* under it: connect() with its timeout step by step, bind, accept, the      *)
(* multicast groups, and the calls that close the socket when they fail.    *)
(* Copies of the object are in SocketHandle, the bytes in SocketStream.      *)
(***************************************************************************)
EXTENDS Integers, FiniteSets, TLC

CONSTANTS AnyHost, Multicast, Peer, \* hosts
          Backlog               \* bound on connections waiting for accept()

VARIABLES
  sock,    \* the fields of Socket
  kernel,  \* the socket in the kernel
  call,    \* where connect() is: [pc, to]
  ret      \* what the last connect() returned

vars == <<sock, kernel, call, ret>>

A == INSTANCE Address WITH PathLength <- 1

Families == {"IPv4", "IPv6", "Local"}
Types == {"TCP", "UDP", "RAW"}
Addresses == {A!Unset} \cup {A!HostAddress(f, h, 1) : f \in {"IPv4", "IPv6"}, h \in {Peer, Multicast}}
             \cup {A!PathAddress(<<Peer>>)}
NoKernel == [conn |-> "none", peer |-> A!Unset, nonblock |-> FALSE, bound |-> FALSE, listening |-> FALSE,
             backlog |-> 0, ttl |-> FALSE, broadcast |-> FALSE, groups |-> {}]
Closed == [sock |-> FALSE, family |-> "IPv4", type |-> "UDP",
           local_addr |-> A!Unset, to_addr |-> A!Unset, from_addr |-> A!Unset]

Init == sock = Closed /\ kernel = NoKernel /\ ret = "none"
        /\ call = [pc |-> "idle", to |-> A!Unset]

IsBound == ~A!Same(sock.local_addr, A!Unset)

\* close(): the addresses are forgotten, family and type are kept.
Close ==
  /\ sock' = [sock EXCEPT !.sock = FALSE, !.local_addr = A!Unset,
                          !.to_addr = A!Unset, !.from_addr = A!Unset]
  /\ kernel' = NoKernel
Keep == UNCHANGED <<sock, kernel>>

Goto(pc) == call' = [call EXCEPT !.pc = pc] /\ UNCHANGED ret
Return(value) == ret' = value /\ call' = [pc |-> "idle", to |-> A!Unset]
-----------------------------------------------------------------------------
(* connect() *)

\* What ::connect answers, and the state it leaves the connection in.  A socket
\* whose attempt is under way stays with the peer of that attempt.
ConnectAnswers ==
  CASE kernel.conn = "none" /\ ~kernel.nonblock -> {<<"ok", "up">>, <<"error", "none">>}
    [] kernel.conn = "none" /\ kernel.nonblock ->
         {<<"ok", "up">>, <<"inprogress", "trying">>, <<"error", "none">>}
    [] kernel.conn = "trying" /\ ~kernel.nonblock -> {<<"ok", "up">>, <<"error", "failed">>}
    [] kernel.conn = "trying" /\ kernel.nonblock -> {<<"error", "trying">>}
    [] kernel.conn = "up" -> {<<"ok", "up">>, <<"error", "up">>}
    [] OTHER -> {<<"error", "failed">>}

ConnectChecks(to, timeout) ==
  /\ call.pc = "idle"
  /\ IF ~sock.sock \/ sock.family # to.family
     THEN Return("false") /\ Keep
     ELSE IF sock.type # "TCP"
     THEN Return("true") /\ sock' = [sock EXCEPT !.to_addr = to] /\ UNCHANGED kernel
     ELSE /\ call' = [pc |-> IF timeout THEN "nonblock" ELSE "connect", to |-> to]
          /\ UNCHANGED <<ret, sock, kernel>>

\* fcntl may fail, as every system call below.
ConnectNonblocks ==
  /\ call.pc = "nonblock"
  /\ \/ kernel' = [kernel EXCEPT !.nonblock = TRUE] /\ Goto("connect") /\ UNCHANGED sock
     \/ Close /\ Return("false")

ConnectAsks ==
  /\ call.pc = "connect"
  /\ \E answer \in ConnectAnswers :
       IF answer[1] = "error" THEN Close /\ Return("false")
       ELSE /\ kernel' = [kernel EXCEPT !.conn = answer[2],
                                        !.peer = IF kernel.conn = "none" THEN call.to ELSE @]
            /\ UNCHANGED sock
            /\ Goto(IF answer[1] = "inprogress" THEN "select"
                    ELSE IF kernel.nonblock THEN "restore" ELSE "getpeername")

\* Mutant: a timeout returns at once.
MutConnectWaits ==
  /\ call.pc = "select"
  /\ \/ kernel.conn \in {"up", "failed"} /\ Goto("restore") /\ Keep
     \/ Return("false") /\ Keep
     \/ Close /\ Return("false")

\* A timeout restores the flag and leaves the attempt to itself.  (The fcntl that
\* restores it is assumed to succeed here: when it fails, connect() returns false
\* with a socket that stays open and non-blocking.)
ConnectWaits ==
  /\ call.pc = "select"
  /\ \/ kernel.conn \in {"up", "failed"} /\ Goto("restore") /\ Keep
     \/ kernel' = [kernel EXCEPT !.nonblock = FALSE] /\ Return("false") /\ UNCHANGED sock
     \/ Close /\ Return("false")

ConnectRestores ==
  /\ call.pc = "restore"
  /\ \/ kernel' = [kernel EXCEPT !.nonblock = FALSE] /\ Goto("getpeername") /\ UNCHANGED sock
     \/ Close /\ Return("false")

ConnectVerifies ==
  /\ call.pc = "getpeername"
  /\ IF kernel.conn = "up"
     THEN sock' = [sock EXCEPT !.to_addr = kernel.peer] /\ Return("true") /\ UNCHANGED kernel
     ELSE Close /\ Return("false")

Connect == \/ \E to \in Addresses, timeout \in BOOLEAN : ConnectChecks(to, timeout)
           \/ ConnectNonblocks \/ ConnectAsks \/ ConnectWaits
           \/ ConnectRestores \/ ConnectVerifies
-----------------------------------------------------------------------------
(* The other calls: idle before and after *)

Open ==
  /\ ~sock.sock
  /\ \E f \in Families, t \in Types, opened \in BOOLEAN :
       sock' = [sock EXCEPT !.sock = opened, !.family = f, !.type = t]
  /\ UNCHANGED kernel

ExplicitClose == sock.sock /\ Close

\* Both overloads: a failing ::bind closes the socket, a failing ::listen leaves
\* it bound.
Bind ==
  /\ sock.sock /\ ~IsBound
  /\ \/ Close
     \/ \E listening \in IF sock.type = "TCP" THEN BOOLEAN ELSE {FALSE} :
          /\ kernel' = [kernel EXCEPT !.bound = TRUE, !.listening = listening]
          /\ sock' = [sock EXCEPT !.local_addr = IF sock.family = "Local" THEN A!PathAddress(<<Peer>>)
                                                 ELSE A!HostAddress(sock.family, AnyHost, 1)]

\* accept() takes a connection of a peer; what it returns is a Socket of its own.
Accept ==
  /\ IsBound /\ sock.type = "TCP" /\ kernel.backlog > 0
  /\ kernel' = [kernel EXCEPT !.backlog = @ - 1] /\ UNCHANGED sock

\* Interface and TTL are set before the group is joined; each may fail.
JoinMulticastGroup ==
  \E g \in Addresses, ttl, joined \in BOOLEAN :
    /\ sock.sock /\ A!IsMulticast(g) /\ sock.family = g.family /\ sock.type = "UDP"
    /\ kernel' = [kernel EXCEPT !.ttl = @ \/ ttl,
                                !.groups = IF ttl /\ joined THEN @ \cup {g} ELSE @]
    /\ UNCHANGED sock

LeaveMulticastGroup ==
  \E g \in kernel.groups :
    /\ sock.sock /\ A!IsMulticast(g) /\ sock.family = g.family /\ sock.type = "UDP"
    /\ kernel' = [kernel EXCEPT !.groups = @ \ {g}]
    /\ UNCHANGED sock

\* A datagram goes to the address given or to the last one, and without either
\* the call fails and closes the socket.
Send ==
  \E to \in Addresses :
    /\ sock.sock
    /\ \/ Close
       \/ /\ sock.type # "TCP" /\ ~(A!Same(to, A!Unset) /\ A!Same(sock.to_addr, A!Unset))
          /\ sock' = [sock EXCEPT !.to_addr = IF A!Same(to, A!Unset) THEN @ ELSE to]
          /\ UNCHANGED kernel

Recv ==
  /\ sock.sock
  /\ \/ Close
     \/ /\ sock.type # "TCP"
        /\ sock' = [sock EXCEPT !.from_addr = A!HostAddress("IPv4", Peer, 1)]
        /\ UNCHANGED kernel

SetBroadcast ==
  /\ sock.sock /\ sock.type # "TCP" /\ UNCHANGED sock
  /\ \E enable \in BOOLEAN : kernel' = [kernel EXCEPT !.broadcast = enable]

\* The questions: an answer or a timeout changes nothing, a failing select or
\* ioctl closes the socket.
IsAcceptableFails == IsBound /\ sock.type = "TCP" /\ Close
IsSendableFails == sock.sock /\ Close
IsReceivableFails == sock.sock /\ (sock.type = "UDP" => IsBound) /\ Close
ByteInQueueFails == sock.sock /\ Close

Calls == \/ Open \/ ExplicitClose \/ Bind \/ Accept \/ SetBroadcast
         \/ JoinMulticastGroup \/ LeaveMulticastGroup \/ Send \/ Recv
         \/ IsAcceptableFails \/ IsSendableFails \/ IsReceivableFails \/ ByteInQueueFails

\* The peer: answers an attempt, resets a connection, or connects to us.
Network ==
  /\ \/ kernel.conn = "trying" /\ kernel' = [kernel EXCEPT !.conn = "up"]
     \/ kernel.conn \in {"trying", "up"} /\ kernel' = [kernel EXCEPT !.conn = "failed"]
     \/ kernel.listening /\ kernel.backlog < Backlog
        /\ kernel' = [kernel EXCEPT !.backlog = @ + 1]
  /\ UNCHANGED <<sock, call, ret>>

Next == \/ Connect \/ Network
        \/ call.pc = "idle" /\ Calls /\ UNCHANGED call /\ ret' = "none"

Spec == Init /\ [][Next]_vars
-----------------------------------------------------------------------------
TypeOK ==
  /\ sock \in [sock : BOOLEAN, family : Families, type : Types, local_addr : Addresses
                 \cup {A!HostAddress(f, AnyHost, 1) : f \in {"IPv4", "IPv6"}},
               to_addr : Addresses, from_addr : Addresses]
  /\ kernel.conn \in {"none", "trying", "up", "failed"} /\ kernel.backlog \in 0 .. Backlog
  /\ call.pc \in {"idle", "nonblock", "connect", "select", "restore", "getpeername"}
  /\ ret \in {"none", "true", "false"}

\* Whatever way connect() ends, by success, error or timeout, an open socket is
\* blocking again (Socket.ipp:124-190).
ConnectRestoresBlocking == call.pc = "idle" => ~kernel.nonblock

\* true means a connection, unless the peer has reset it since, and toAddress() is
\* its peer: also when an earlier connect() to another address had timed out and
\* its attempt succeeds now (Socket.ipp:192-195).
ConnectTells ==
  ret = "true" /\ sock.type = "TCP" =>
    sock.sock /\ kernel.conn \in {"up", "failed"} /\ sock.to_addr = kernel.peer

\* isBound() is what the kernel says, through failures of bind and listen, closing
\* and reopening; a closed socket remembers no peer and no group
\* (Socket.ipp:92-98, 345-420).
AddressesAreCurrent ==
  /\ IsBound <=> kernel.bound
  /\ ~sock.sock => sock.to_addr = A!Unset /\ sock.from_addr = A!Unset /\ kernel = NoKernel
  /\ kernel.groups # {} => sock.type = "UDP" /\ sock.family # "Local"
ConnectSound == ConnectRestoresBlocking /\ ConnectTells /\ AddressesAreCurrent
=============================================================================
