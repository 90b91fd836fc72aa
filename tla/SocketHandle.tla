---------------------------- MODULE SocketHandle ----------------------------
(***************************************************************************)
(* cutil::Socket as a handle (socket/Socket.h, Socket.ipp): objects that   *)
(* are copied and assigned share a reference counter, and the last one to  *)
(* go closes the descriptor.  The descriptor itself is not shared: every   *)
(* object has its own `sock`, which only its own close() resets.           *)
(*                                                                         *)
(* One thread uses the objects (the counter has no lock); other threads of *)
(* the process open and close files, so a descriptor that was closed soon  *)
(* names something else.  What a socket sends and receives is left out;    *)
(* that any call may fail and then close the socket is not.                *)
(***************************************************************************)
EXTENDS Naturals, FiniteSets

CONSTANTS Objects,    \* the C++ objects
          Counters,   \* the addresses `new int` returns
          FDs,        \* file descriptors
          None,       \* -1
          SharedChange  \* may open(), close() or a failure reach an object
                        \* while copies of it exist?

ASSUME SocketAssumption ==
  /\ IsFiniteSet(Objects) /\ Counters # {} /\ None \notin FDs
  /\ SharedChange \in BOOLEAN

VARIABLES
  alive,        \* the objects that exist
  ref_counter,  \* ref_counter[o]: which counter o points to
  sock,         \* sock[o]
  count,        \* count[c]: the counter at c; 0 when c is not allocated
  table         \* table[f]: "free", "socket" or "other"

vars == <<alive, ref_counter, sock, count, table>>

Init == /\ alive = {}
        /\ ref_counter \in [Objects -> Counters]
        /\ \A o, p \in Objects : ref_counter[o] = ref_counter[p]
        /\ sock = [o \in Objects |-> None]
        /\ count = [c \in Counters |-> 0]
        /\ table = [f \in FDs |-> "free"]

IsOpen(o) == sock[o] # None

\* Who may change the socket of o (see SharedChange).
MayChange(o) == SharedChange \/ count[ref_counter[o]] = 1
-----------------------------------------------------------------------------
(* Constructors, destructor, assignment *)

\* A new counter of 1, and a socket that is closed or the accepted one.
Constructed(o, f) ==
  \E c \in Counters : /\ count[c] = 0
                      /\ count' = [count EXCEPT ![c] = 1]
                      /\ ref_counter' = [ref_counter EXCEPT ![o] = c]
                      /\ sock' = [sock EXCEPT ![o] = f]

Construct(o) == /\ o \notin alive
                /\ alive' = alive \cup {o}
                /\ Constructed(o, None)
                /\ UNCHANGED table

\* Mutant: the counter is shared but not increased.
MutCopy(o, s) == /\ o \notin alive /\ s \in alive
                 /\ alive' = alive \cup {o}
                 /\ ref_counter' = [ref_counter EXCEPT ![o] = ref_counter[s]]
                 /\ sock' = [sock EXCEPT ![o] = sock[s]]
                 /\ UNCHANGED <<count, table>>

Copy(o, s) == /\ o \notin alive /\ s \in alive
              /\ alive' = alive \cup {o}
              /\ ref_counter' = [ref_counter EXCEPT ![o] = ref_counter[s]]
              /\ count' = [count EXCEPT ![ref_counter[s]] = @ + 1]
              /\ sock' = [sock EXCEPT ![o] = sock[s]]
              /\ UNCHANGED table

\* Mutant: the descriptor is closed whatever the counter says.
MutReleasedAlways(o) == IF IsOpen(o) THEN [table EXCEPT ![sock[o]] = "free"] ELSE table

\* The descriptors after o has given up its reference.
Released(o) == IF count[ref_counter[o]] = 1 /\ IsOpen(o)
               THEN [table EXCEPT ![sock[o]] = "free"] ELSE table

Destroy(o) == /\ o \in alive
              /\ alive' = alive \ {o}
              /\ count' = [count EXCEPT ![ref_counter[o]] = @ - 1]
              /\ table' = Released(o)
              /\ sock' = [sock EXCEPT ![o] = None]
              /\ UNCHANGED ref_counter

\* operator=.  o = s is left out: with a counter of 1 the code deletes the
\* counter and then uses it, with a larger one nothing changes.
Assign(o, s) ==
  /\ o \in alive /\ s \in alive /\ o # s
  /\ table' = Released(o)
  /\ count' = [[count EXCEPT ![ref_counter[o]] = @ - 1]
                      EXCEPT ![ref_counter[s]] = @ + 1]
  /\ ref_counter' = [ref_counter EXCEPT ![o] = ref_counter[s]]
  /\ sock' = [sock EXCEPT ![o] = sock[s]]
  /\ UNCHANGED alive
-----------------------------------------------------------------------------
(* open(), close(), accept() *)

\* A failing open() leaves sock = -1.
Open(o) == /\ o \in alive /\ ~IsOpen(o)
           /\ MayChange(o)
           /\ \E f \in FDs : /\ table[f] = "free"
                             /\ table' = [table EXCEPT ![f] = "socket"]
                             /\ sock' = [sock EXCEPT ![o] = f]
           /\ UNCHANGED <<alive, ref_counter, count>>

\* close(), by the user or by a connect(), bind(), select(), send(), recv() or
\* ioctl() that failed.
Close(o) == /\ o \in alive /\ IsOpen(o)
            /\ MayChange(o)
            /\ table' = [table EXCEPT ![sock[o]] = "free"]
            /\ sock' = [sock EXCEPT ![o] = None]
            /\ UNCHANGED <<alive, ref_counter, count>>

\* accept() returns a new object; one that failed is closed.
Accept(o, s) ==
  /\ o \notin alive /\ s \in alive /\ IsOpen(s)
  /\ alive' = alive \cup {o}
  /\ \/ Constructed(o, None) /\ UNCHANGED table
     \/ \E f \in FDs : /\ table[f] = "free"
                       /\ table' = [table EXCEPT ![f] = "socket"]
                       /\ Constructed(o, f)
-----------------------------------------------------------------------------
\* Another thread opens or closes a file; it never closes one of ours.
OtherThread(f) ==
  /\ table[f] \in {"free", "other"}
  /\ table' = [table EXCEPT ![f] = IF @ = "free" THEN "other" ELSE "free"]
  /\ UNCHANGED <<alive, ref_counter, sock, count>>

Next == \/ \E o \in Objects : Construct(o) \/ Destroy(o) \/ Open(o) \/ Close(o)
        \/ \E o, s \in Objects : Copy(o, s) \/ Assign(o, s) \/ Accept(o, s)
        \/ \E f \in FDs : OtherThread(f)

Spec == Init /\ [][Next]_vars
-----------------------------------------------------------------------------
(* Properties *)

TypeOK == /\ alive \in SUBSET Objects
          /\ ref_counter \in [Objects -> Counters]
          /\ sock \in [Objects -> FDs \cup {None}]
          /\ count \in [Counters -> Nat]
          /\ table \in [FDs -> {"free", "socket", "other"}]

Sharers(c) == {o \in alive : ref_counter[o] = c}

\* A counter counts the objects that point to it, so it is deleted with the
\* last of them and never before, and never leaks.
RefCounted == \A c \in Counters : count[c] = Cardinality(Sharers(c))

\* The copies of a socket agree on the descriptor, and nobody else has it.
SharersAgree ==
  ~SharedChange =>
    \A o, p \in alive : IsOpen(o) =>
      (sock[o] = sock[p] <=> ref_counter[o] = ref_counter[p])

\* An open object names a socket that is open: the descriptor is not closed
\* (and given to somebody else) while an object still refers to it.
DelayedClose == \A o \in alive : IsOpen(o) => table[sock[o]] = "socket"

\* An open descriptor has an object that will close it.
NoLeak == \A f \in FDs : table[f] = "socket" => \E o \in alive : sock[o] = f

\* The descriptor is closed with the last of its objects, and not before
\* (Socket.ipp:10-101).
ClosesExactly == TypeOK /\ DelayedClose /\ NoLeak
=============================================================================
