----------------------------- MODULE Net_proofs -----------------------------
(***************************************************************************)
(* Theorems about the classes that talk to the outside.  The reference      *)
(* counter of cutil::Socket is right whatever the user does, the descriptor *)
(* as long as nobody changes a socket that has copies.  The other parts are  *)
(* instances: their variables are s1, s2, ..., in the order of MCNet.        *)
(***************************************************************************)
EXTENDS MCNet, FiniteSetTheorems, SequenceTheorems, TLAPS

CountInv == TypeOK /\ RefCounted
-----------------------------------------------------------------------------
(* What the counter tells about the objects *)

LEMMA SharersFinite ==
  ASSUME TypeOK, NEW c PROVE IsFiniteSet(Sharers(c))
<1>1. Sharers(c) \in SUBSET Objects
  BY DEF TypeOK, Sharers
<1>2. IsFiniteSet(Objects)
  BY SocketAssumption
<1> QED BY <1>1, <1>2, FS_Subset

LEMMA CountTells ==
  ASSUME CountInv
  PROVE  /\ \A o \in alive : ref_counter[o] \in Counters /\ count[ref_counter[o]] >= 1
         /\ \A o, p \in alive : count[ref_counter[o]] = 1 /\ ref_counter[p] = ref_counter[o]
                                  => p = o
         /\ \A c \in Counters : count[c] = 0 => \A o \in alive : ref_counter[o] # c
<1> USE DEF CountInv
<1>1. ASSUME NEW o \in alive
      PROVE  ref_counter[o] \in Counters /\ o \in Sharers(ref_counter[o])
  BY DEF TypeOK, Sharers
<1>2. ASSUME NEW c \in Counters, count[c] = 0 PROVE Sharers(c) = {}
  BY <1>2, SharersFinite, FS_EmptySet DEF RefCounted
<1>3. ASSUME NEW c \in Counters, count[c] = 1 PROVE \E x : Sharers(c) = {x}
  BY <1>3, SharersFinite, FS_Singleton DEF RefCounted
<1>4. \A c \in Counters : count[c] \in Nat
  BY DEF TypeOK
<1>5. \A o \in alive : count[ref_counter[o]] >= 1
  BY <1>1, <1>2, <1>4
<1>6. ASSUME NEW o \in alive, NEW p \in alive, count[ref_counter[o]] = 1,
             ref_counter[p] = ref_counter[o]
      PROVE  p = o
  <2>1. PICK x : Sharers(ref_counter[o]) = {x}
    BY <1>1, <1>3, <1>6
  <2> QED BY <1>1, <1>6, <2>1
<1>7. ASSUME NEW c \in Counters, count[c] = 0, NEW o \in alive PROVE ref_counter[o] # c
  BY <1>1, <1>2, <1>7
<1> QED BY <1>1, <1>5, <1>6, <1>7

LEMMA OtherSharer ==
  ASSUME CountInv, NEW o \in alive, count[ref_counter[o]] # 1
  PROVE  \E p \in alive : p # o /\ ref_counter[p] = ref_counter[o]
<1>1. o \in Sharers(ref_counter[o]) /\ ref_counter[o] \in Counters
  BY DEF CountInv, TypeOK, Sharers
<1>2. Cardinality(Sharers(ref_counter[o])) # 1
  BY <1>1 DEF CountInv, RefCounted
<1>3. Sharers(ref_counter[o]) # {o}
  BY <1>2, FS_Singleton
<1> QED BY <1>1, <1>3 DEF Sharers
-----------------------------------------------------------------------------
(* The three ways in which the objects at a counter change *)

LEMMA Joining ==
  ASSUME CountInv, NEW o \in Objects, o \notin alive, NEW c \in Counters,
         alive' = alive \cup {o},
         ref_counter' = [ref_counter EXCEPT ![o] = c],
         count' = [count EXCEPT ![c] = @ + 1]
  PROVE  RefCounted'
<1> USE DEF CountInv
<1>1. SUFFICES ASSUME NEW d \in Counters
               PROVE  count'[d] = Cardinality(Sharers(d)')
  BY DEF RefCounted
<1>2. count[d] = Cardinality(Sharers(d)) /\ IsFiniteSet(Sharers(d))
  BY SharersFinite DEF RefCounted
<1>3. o \notin Sharers(d)
  BY DEF Sharers
<1>4. CASE d = c
  <2>1. Sharers(d)' = Sharers(d) \cup {o}
    BY <1>4 DEF Sharers, TypeOK
  <2>2. count'[d] = count[d] + 1
    BY <1>4 DEF TypeOK
  <2> QED BY <1>2, <1>3, <2>1, <2>2, FS_AddElement
<1>5. CASE d # c
  <2>1. Sharers(d)' = Sharers(d)
    BY <1>5 DEF Sharers, TypeOK
  <2>2. count'[d] = count[d]
    BY <1>5 DEF TypeOK
  <2> QED BY <1>2, <2>1, <2>2
<1> QED BY <1>4, <1>5

LEMMA Leaving ==
  ASSUME CountInv, NEW o \in alive,
         alive' = alive \ {o}, ref_counter' = ref_counter,
         count' = [count EXCEPT ![ref_counter[o]] = @ - 1]
  PROVE  RefCounted'
<1> USE DEF CountInv
<1>1. SUFFICES ASSUME NEW d \in Counters
               PROVE  count'[d] = Cardinality(Sharers(d)')
  BY DEF RefCounted
<1>2. count[d] = Cardinality(Sharers(d)) /\ IsFiniteSet(Sharers(d))
  BY SharersFinite DEF RefCounted
<1>3. Sharers(d)' = Sharers(d) \ {o}
  BY DEF Sharers, TypeOK
<1>4. o \in Sharers(d) <=> d = ref_counter[o]
  BY DEF Sharers
<1>5. count'[d] = IF d = ref_counter[o] THEN count[d] - 1 ELSE count[d]
  BY DEF TypeOK
<1> QED BY <1>2, <1>3, <1>4, <1>5, FS_RemoveElement

LEMMA Moving ==
  ASSUME CountInv, NEW o \in alive, NEW c \in Counters,
         alive' = alive,
         ref_counter' = [ref_counter EXCEPT ![o] = c],
         count' = [[count EXCEPT ![ref_counter[o]] = @ - 1] EXCEPT ![c] = @ + 1]
  PROVE  RefCounted'
<1> USE DEF CountInv
<1>1. SUFFICES ASSUME NEW d \in Counters
               PROVE  count'[d] = Cardinality(Sharers(d)')
  BY DEF RefCounted
<1>2. count[d] = Cardinality(Sharers(d)) /\ IsFiniteSet(Sharers(d)) /\ count[d] \in Nat
  BY SharersFinite DEF RefCounted, TypeOK
<1>3. o \in Sharers(d) <=> d = ref_counter[o]
  BY DEF Sharers
<1>4. CASE ref_counter[o] = c
  <2>1. Sharers(d)' = Sharers(d)
    BY <1>4 DEF Sharers, TypeOK
  <2>2. count'[d] = count[d]
    BY <1>2, <1>4 DEF TypeOK
  <2> QED BY <1>2, <2>1, <2>2
<1>5. CASE ref_counter[o] # c
  <2>1. CASE d = c
    <3>1. Sharers(d)' = Sharers(d) \cup {o}
      BY <2>1 DEF Sharers, TypeOK
    <3>2. count'[d] = count[d] + 1
      BY <1>5, <2>1 DEF TypeOK
    <3> QED BY <1>2, <1>3, <1>5, <2>1, <3>1, <3>2, FS_AddElement, ZenonT(90)
  <2>2. CASE d = ref_counter[o]
    <3>1. Sharers(d)' = Sharers(d) \ {o}
      BY <1>5, <2>2 DEF Sharers, TypeOK
    <3>2. count'[d] = count[d] - 1
      BY <1>5, <2>2 DEF TypeOK
    <3> QED BY <1>2, <1>3, <2>2, <3>1, <3>2, FS_RemoveElement
  <2>3. CASE d # c /\ d # ref_counter[o]
    <3>1. Sharers(d)' = Sharers(d)
      BY <2>3 DEF Sharers, TypeOK
    <3>2. count'[d] = count[d]
      BY <2>3 DEF TypeOK
    <3> QED BY <1>2, <3>1, <3>2
  <2> QED BY <2>1, <2>2, <2>3
<1> QED BY <1>4, <1>5

LEMMA Staying ==
  ASSUME CountInv, UNCHANGED <<alive, ref_counter, count>>
  PROVE  RefCounted'
BY DEF CountInv, RefCounted, Sharers
-----------------------------------------------------------------------------
(* The counters are right, always *)

LEMMA CountInit == Init => CountInv
<1> SUFFICES ASSUME Init PROVE CountInv
  OBVIOUS
<1>1. TypeOK
  BY SocketAssumption DEF Init, TypeOK
<1>2. \A c \in Counters : Sharers(c) = {} /\ count[c] = 0
  BY DEF Init, Sharers
<1> QED BY <1>1, <1>2, FS_EmptySet DEF CountInv, RefCounted

\* A new object at a counter that was free.
LEMMA FreshCounter ==
  ASSUME CountInv, NEW o \in Objects, o \notin alive, NEW f,
         alive' = alive \cup {o}, Constructed(o, f)
  PROVE  RefCounted'
<1>1. PICK c \in Counters : /\ count[c] = 0
                            /\ count' = [count EXCEPT ![c] = 1]
                            /\ ref_counter' = [ref_counter EXCEPT ![o] = c]
  BY DEF Constructed
<1>2. count' = [count EXCEPT ![c] = @ + 1]
  BY <1>1 DEF CountInv, TypeOK
<1> QED BY <1>1, <1>2, Joining

LEMMA CountStep == CountInv /\ [Next]_vars => CountInv'
<1> SUFFICES ASSUME CountInv, [Next]_vars PROVE CountInv'
  OBVIOUS
<1> USE SocketAssumption
<1>1. ASSUME NEW o \in Objects, Construct(o) PROVE CountInv'
  <2>1. TypeOK'
    BY <1>1 DEF Construct, Constructed, CountInv, TypeOK
  <2> QED BY <1>1, <2>1, FreshCounter DEF Construct, CountInv
<1>2. ASSUME NEW o \in Objects, Destroy(o) PROVE CountInv'
  <2>1. ref_counter[o] \in Counters /\ count[ref_counter[o]] >= 1
    BY <1>2, CountTells DEF Destroy
  <2>2. table' \in [FDs -> {"free", "socket", "other"}]
    BY <1>2 DEF Destroy, Released, CountInv, TypeOK
  <2>3. TypeOK'
    BY <1>2, <2>1, <2>2 DEF Destroy, CountInv, TypeOK
  <2> QED BY <1>2, <2>3, Leaving DEF Destroy, CountInv
<1>3. ASSUME NEW o \in Objects, Open(o) PROVE CountInv'
  <2>1. TypeOK'
    BY <1>3 DEF Open, CountInv, TypeOK
  <2> QED BY <1>3, <2>1, Staying DEF Open, CountInv
<1>4. ASSUME NEW o \in Objects, Close(o) PROVE CountInv'
  <2>1. TypeOK'
    BY <1>4 DEF Close, CountInv, TypeOK
  <2> QED BY <1>4, <2>1, Staying DEF Close, CountInv
<1>5. ASSUME NEW o \in Objects, NEW s \in Objects, Copy(o, s) PROVE CountInv'
  <2>1. TypeOK'
    BY <1>5 DEF Copy, CountInv, TypeOK
  <2>2. ref_counter[s] \in Counters
    BY DEF CountInv, TypeOK
  <2> QED BY <1>5, <2>1, <2>2, Joining DEF Copy, CountInv
<1>6. ASSUME NEW o \in Objects, NEW s \in Objects, Assign(o, s) PROVE CountInv'
  <2>1. ref_counter[o] \in Counters /\ ref_counter[s] \in Counters
        /\ count[ref_counter[o]] >= 1
    BY <1>6, CountTells DEF Assign, CountInv, TypeOK
  <2>2. table' \in [FDs -> {"free", "socket", "other"}]
    BY <1>6 DEF Assign, Released, CountInv, TypeOK
  <2>3. count' \in [Counters -> Nat]
    <3>1. [count EXCEPT ![ref_counter[o]] = @ - 1] \in [Counters -> Nat]
      BY <2>1 DEF CountInv, TypeOK
    <3> QED BY <1>6, <2>1, <3>1 DEF Assign
  <2>4. TypeOK'
    BY <1>6, <2>1, <2>2, <2>3 DEF Assign, CountInv, TypeOK
  <2> QED BY <1>6, <2>1, <2>4, Moving DEF Assign, CountInv
<1>7. ASSUME NEW o \in Objects, NEW s \in Objects, Accept(o, s) PROVE CountInv'
  <2>1. TypeOK'
    <3>1. alive' \in SUBSET Objects /\ table' \in [FDs -> {"free", "socket", "other"}]
      BY <1>7 DEF Accept, CountInv, TypeOK
    <3>2. PICK f \in FDs \cup {None} : Constructed(o, f)
      BY <1>7 DEF Accept
    <3> QED BY <3>1, <3>2 DEF Constructed, CountInv, TypeOK
  <2> QED BY <1>7, <2>1, FreshCounter DEF Accept, CountInv
<1>8. ASSUME NEW f \in FDs, OtherThread(f) PROVE CountInv'
  <2>1. TypeOK'
    BY <1>8 DEF OtherThread, CountInv, TypeOK
  <2> QED BY <1>8, <2>1, Staying DEF OtherThread, CountInv
<1>9. CASE UNCHANGED vars
  BY <1>9 DEF vars, CountInv, TypeOK, RefCounted, Sharers
<1> QED BY <1>1, <1>2, <1>3, <1>4, <1>5, <1>6, <1>7, <1>8, <1>9 DEF Next

\* TypeOK is an invariant of SocketHandle.
THEOREM TypeCorrect == Spec => []TypeOK
<1>1. CountInv => TypeOK
  BY DEF CountInv
<1> QED BY <1>1, CountInit, CountStep, PTL DEF Spec

\* The reference counter of Socket.ipp:10-54 is exact, for any use of the
\* objects: it is deleted with the last of them, and never before.
THEOREM CounterIsExact == Spec => []RefCounted
<1>1. CountInv => RefCounted
  BY DEF CountInv
<1> QED BY <1>1, CountInit, CountStep, PTL DEF Spec
-----------------------------------------------------------------------------
(* The descriptors, when a socket with copies is never changed *)

Unshared == SharedChange = FALSE

\* The objects at one counter agree on the descriptor, no two counters share
\* one, and every socket has an object.
Sound == /\ \A o \in Objects \ alive : sock[o] = None
         /\ \A o, p \in alive : sock[o] # None =>
              (sock[o] = sock[p] <=> ref_counter[o] = ref_counter[p])
         /\ \A o \in alive : sock[o] # None => table[sock[o]] = "socket"
         /\ \A f \in FDs : table[f] = "socket" => \E o \in alive : sock[o] = f

LEMMA SoundInit == Init => Sound
BY DEF Init, Sound

LEMMA SoundStep ==
  ASSUME Unshared, CountInv, Sound, [Next]_vars
  PROVE  Sound'
<1>a. /\ \A o \in alive : ref_counter[o] \in Counters /\ count[ref_counter[o]] >= 1
      /\ \A o, p \in alive : count[ref_counter[o]] = 1 /\ ref_counter[p] = ref_counter[o]
                               => p = o
      /\ \A c \in Counters : count[c] = 0 => \A o \in alive : ref_counter[o] # c
  BY CountTells
<1>b. TypeOK
  BY DEF CountInv
<1> USE <1>a, <1>b, SocketAssumption DEF TypeOK
<1>1. ASSUME NEW o \in Objects, Construct(o) PROVE Sound'
  <2>1. PICK c \in Counters : /\ count[c] = 0
                              /\ ref_counter' = [ref_counter EXCEPT ![o] = c]
                              /\ sock' = [sock EXCEPT ![o] = None]
    BY <1>1 DEF Construct, Constructed
  <2>2. o \notin alive /\ alive' = alive \cup {o} /\ table' = table
    BY <1>1 DEF Construct
  <2> QED BY <2>1, <2>2 DEF Sound
<1>2. ASSUME NEW o \in Objects, Destroy(o) PROVE Sound'
  <2>1. /\ o \in alive /\ alive' = alive \ {o} /\ ref_counter' = ref_counter
        /\ sock' = [sock EXCEPT ![o] = None]
        /\ table' = Released(o)
    BY <1>2 DEF Destroy
  <2>2. CASE count[ref_counter[o]] = 1 /\ sock[o] # None
    <3>1. table' = [table EXCEPT ![sock[o]] = "free"]
      BY <2>1, <2>2 DEF Released, IsOpen
    <3>2. \A p \in alive : p # o => ref_counter[p] # ref_counter[o]
      BY <2>1, <2>2
    <3> QED BY <2>1, <2>2, <3>1, <3>2 DEF Sound
  <2>3. CASE sock[o] = None
    <3>1. table' = table
      BY <2>1, <2>3 DEF Released, IsOpen
    <3> QED BY <2>1, <2>3, <3>1 DEF Sound
  <2>4. CASE count[ref_counter[o]] # 1 /\ sock[o] # None
    <3>1. table' = table
      BY <2>1, <2>4 DEF Released
    <3>2. PICK p \in alive : p # o /\ ref_counter[p] = ref_counter[o]
      BY <2>1, <2>4, OtherSharer
    <3>3. sock[p] = sock[o]
      BY <2>1, <2>4, <3>2 DEF Sound
    <3> QED BY <2>1, <3>1, <3>2, <3>3 DEF Sound
  <2> QED BY <2>2, <2>3, <2>4
<1>3. ASSUME NEW o \in Objects, Open(o) PROVE Sound'
  <2>1. PICK f \in FDs : /\ table[f] = "free"
                         /\ table' = [table EXCEPT ![f] = "socket"]
                         /\ sock' = [sock EXCEPT ![o] = f]
    BY <1>3 DEF Open
  <2>2. /\ o \in alive /\ sock[o] = None /\ count[ref_counter[o]] = 1
        /\ alive' = alive /\ ref_counter' = ref_counter
    BY <1>3 DEF Open, IsOpen, MayChange, Unshared
  <2>3. \A p \in alive : p # o => ref_counter[p] # ref_counter[o] /\ sock[p] # f
    BY <2>1, <2>2 DEF Sound
  <2> QED BY <2>1, <2>2, <2>3 DEF Sound
<1>4. ASSUME NEW o \in Objects, Close(o) PROVE Sound'
  <2>1. /\ o \in alive /\ sock[o] # None /\ count[ref_counter[o]] = 1
        /\ alive' = alive /\ ref_counter' = ref_counter
        /\ table' = [table EXCEPT ![sock[o]] = "free"]
        /\ sock' = [sock EXCEPT ![o] = None]
    BY <1>4 DEF Close, IsOpen, MayChange, Unshared
  <2>2. \A p \in alive : p # o => ref_counter[p] # ref_counter[o]
    BY <2>1
  <2> QED BY <2>1, <2>2 DEF Sound
<1>5. ASSUME NEW o \in Objects, NEW s \in Objects, Copy(o, s) PROVE Sound'
  <2>1. /\ o \notin alive /\ s \in alive /\ alive' = alive \cup {o}
        /\ ref_counter' = [ref_counter EXCEPT ![o] = ref_counter[s]]
        /\ sock' = [sock EXCEPT ![o] = sock[s]] /\ table' = table
    BY <1>5 DEF Copy
  <2> QED BY <2>1 DEF Sound
<1>6. ASSUME NEW o \in Objects, NEW s \in Objects, Assign(o, s) PROVE Sound'
  <2>1. /\ o \in alive /\ s \in alive /\ o # s /\ alive' = alive
        /\ ref_counter' = [ref_counter EXCEPT ![o] = ref_counter[s]]
        /\ sock' = [sock EXCEPT ![o] = sock[s]]
        /\ table' = Released(o)
    BY <1>6 DEF Assign
  <2>2. CASE count[ref_counter[o]] = 1 /\ sock[o] # None
    <3>1. table' = [table EXCEPT ![sock[o]] = "free"]
      BY <2>1, <2>2 DEF Released, IsOpen
    <3>2. \A p \in alive : p # o => ref_counter[p] # ref_counter[o]
      BY <2>1, <2>2
    <3> QED BY <2>1, <2>2, <3>1, <3>2 DEF Sound
  <2>3. CASE sock[o] = None
    <3>1. table' = table
      BY <2>1, <2>3 DEF Released, IsOpen
    <3> QED BY <2>1, <2>3, <3>1 DEF Sound
  <2>4. CASE count[ref_counter[o]] # 1 /\ sock[o] # None
    <3>1. table' = table
      BY <2>1, <2>4 DEF Released
    <3>2. PICK p \in alive : p # o /\ ref_counter[p] = ref_counter[o]
      BY <2>1, <2>4, OtherSharer
    <3>3. sock[p] = sock[o]
      BY <2>1, <2>4, <3>2 DEF Sound
    <3> QED BY <2>1, <3>1, <3>2, <3>3 DEF Sound
  <2> QED BY <2>2, <2>3, <2>4
<1>7. ASSUME NEW o \in Objects, NEW s \in Objects, Accept(o, s) PROVE Sound'
  <2>1. o \notin alive /\ alive' = alive \cup {o}
    BY <1>7 DEF Accept
  <2>2. CASE Constructed(o, None) /\ table' = table
    <3>1. PICK c \in Counters : /\ count[c] = 0
                                /\ ref_counter' = [ref_counter EXCEPT ![o] = c]
                                /\ sock' = [sock EXCEPT ![o] = None]
      BY <2>2 DEF Constructed
    <3> QED BY <2>1, <2>2, <3>1 DEF Sound
  <2>3. CASE \E f \in FDs : /\ table[f] = "free"
                            /\ table' = [table EXCEPT ![f] = "socket"]
                            /\ Constructed(o, f)
    <3>1. PICK f \in FDs : /\ table[f] = "free"
                           /\ table' = [table EXCEPT ![f] = "socket"]
                           /\ Constructed(o, f)
      BY <2>3
    <3>2. PICK c \in Counters : /\ count[c] = 0
                                /\ ref_counter' = [ref_counter EXCEPT ![o] = c]
                                /\ sock' = [sock EXCEPT ![o] = f]
      BY <3>1 DEF Constructed
    <3>3. \A p \in alive : ref_counter[p] # c /\ sock[p] # f /\ p # o
      BY <2>1, <3>1, <3>2 DEF Sound
    <3> QED BY <2>1, <3>1, <3>2, <3>3 DEF Sound
  <2> QED BY <1>7, <2>2, <2>3 DEF Accept
<1>8. ASSUME NEW f \in FDs, OtherThread(f) PROVE Sound'
  BY <1>8 DEF OtherThread, Sound
<1>9. CASE UNCHANGED vars
  BY <1>9 DEF vars, Sound
<1> QED BY <1>1, <1>2, <1>3, <1>4, <1>5, <1>6, <1>7, <1>8, <1>9 DEF Next

\* As long as nobody opens, closes or breaks a socket that has copies, an open
\* object names an open socket: the counter delays close() to the last object.
THEOREM CloseIsDelayed ==
  ASSUME Unshared PROVE Spec => []DelayedClose
<1>1. Sound => DelayedClose
  BY DEF Sound, DelayedClose, IsOpen
<1>2. Init => CountInv /\ Sound
  BY CountInit, SoundInit
<1>3. CountInv /\ Sound /\ [Next]_vars => CountInv' /\ Sound'
  BY CountStep, SoundStep
<1> QED BY <1>1, <1>2, <1>3, PTL DEF Spec

\* ... and no descriptor is left without an object that will close it.
THEOREM NothingLeaks ==
  ASSUME Unshared PROVE Spec => [](NoLeak /\ SharersAgree)
<1>1. Sound => NoLeak /\ SharersAgree
  BY DEF Sound, NoLeak, SharersAgree, IsOpen
<1>2. Init => CountInv /\ Sound
  BY CountInit, SoundInit
<1>3. CountInv /\ Sound /\ [Next]_vars => CountInv' /\ Sound'
  BY CountStep, SoundStep
<1> QED BY <1>1, <1>2, <1>3, PTL DEF Spec

\* What the run checks of the descriptors as one invariant.
THEOREM ClosesOnce ==
  ASSUME Unshared PROVE Spec => []ClosesExactly
<1>1. CountInv /\ Sound => ClosesExactly
  BY DEF CountInv, Sound, ClosesExactly, DelayedClose, NoLeak, IsOpen
<1>2. Init => CountInv /\ Sound
  BY CountInit, SoundInit
<1>3. CountInv /\ Sound /\ [Next]_vars => CountInv' /\ Sound'
  BY CountStep, SoundStep
<1> QED BY <1>1, <1>2, <1>3, PTL DEF Spec
-----------------------------------------------------------------------------
(* SerialPort: s1 is fd, s2 pre_term_attr, s3 term_attr, s4 before, s5 failed, *)
(* s6 descriptors, s7 opens                                                  *)

\* The bounds are numbers.
LEMMA Bounds ==
  /\ Backlog \in Nat /\ MaxBytes \in Nat /\ Window \in Nat /\ MaxOpens \in Nat
  /\ Length \in Nat /\ MaxUnget \in Nat /\ MaxRequests \in Nat
  /\ SndBuf \in Nat \ {0} /\ RcvBuf \in Nat \ {0} /\ buf_size \in Nat \ {0}
  /\ Iterations \subseteq Nat
BY NetAssumption DEF NetAssumption

SerialInv == Serial!TypeOK /\ Serial!AttributesRestored

\* What a closed port needs no history for, and an open one has in pre_term_attr.
LEMMA SerialStep == SerialInv /\ [Serial!Next]_(Serial!vars) => SerialInv'
<1> SUFFICES ASSUME SerialInv, [Serial!Next]_(Serial!vars)  PROVE SerialInv'
  OBVIOUS
<1>0. /\ s1 \in BOOLEAN /\ s5 \in BOOLEAN /\ s6 \in 0 .. 1 /\ s7 \in 0 .. MaxOpens
      /\ {s2, s3, s4} \subseteq Original \cup {Serial!Raw}
      /\ ~s1 /\ ~s5 => s3 = s4
      /\ s1 => s2 = s4
      /\ s6 = IF s1 THEN 1 ELSE 0
  BY Zenon DEF SerialInv, Serial!TypeOK, Serial!AttributesRestored
<1>a. ASSUME s1' \in BOOLEAN, s5' \in BOOLEAN, s7' \in 0 .. MaxOpens,
             {s2', s3', s4'} \subseteq Original \cup {Serial!Raw},
             ~s1' /\ ~s5' => s3' = s4', s1' => s2' = s4',
             s6' = IF s1' THEN 1 ELSE 0
      PROVE  SerialInv'
  <2>1. s6' \in 0 .. 1
    BY <1>a
  <2>2. {s1', s5'} \subseteq BOOLEAN
    BY <1>a, Zenon
  <2>3. Serial!TypeOK'
    BY <1>a, <2>1, <2>2, Zenon DEF Serial!TypeOK
  <2>4. Serial!AttributesRestored'
    BY <1>a, Zenon DEF Serial!AttributesRestored
  <2> QED BY <2>3, <2>4, Zenon DEF SerialInv
<1>1. CASE Serial!Open
  <2>1. s7' \in 0 .. MaxOpens
    BY <1>0, <1>1, Bounds DEF Serial!Open
  <2>2. Serial!Restored \in Original \cup {Serial!Raw} /\ Serial!Remaining = 0
    BY <1>0 DEF Serial!Restored, Serial!Remaining
  <2>3. CASE /\ s1' = FALSE /\ s6' = Serial!Remaining /\ s3' = Serial!Restored
             /\ s2' \in {s2, Serial!Restored} /\ UNCHANGED <<s4, s5>>
    BY <1>0, <1>a, <2>1, <2>2, <2>3 DEF Serial!Restored
  <2>4. CASE /\ s1' = TRUE /\ s6' = Serial!Remaining + 1 /\ s3' = Serial!Raw
             /\ s2' = Serial!Restored /\ s4' = Serial!Restored /\ s5' = FALSE
    <3>1. s1' \in BOOLEAN /\ s5' \in BOOLEAN /\ s1' /\ s2' = s4'
      BY <2>4, Zenon
    <3>2. {s2', s3', s4'} \subseteq Original \cup {Serial!Raw}
      BY <2>2, <2>4
    <3>3. s6' = 1
      BY <2>2, <2>4
    <3>4. s6' = IF s1' THEN 1 ELSE 0
      BY <3>1, <3>3, Zenon
    <3> QED BY <3>1, <3>2, <3>4, <2>1, <1>a, Zenon
  <2> QED BY <1>1, <2>3, <2>4, Zenon DEF Serial!Open
<1>2. CASE Serial!Close
  <2>1. /\ s1 /\ s1' = FALSE /\ s3' = Serial!Restored /\ s6' = Serial!Remaining
        /\ UNCHANGED <<s2, s4, s5, s7>>
    BY <1>2 DEF Serial!Close
  <2>2. s1' \in BOOLEAN /\ ~s1' /\ s5' \in BOOLEAN
    BY <1>0, <2>1, Zenon
  <2>3. s3' = s2 /\ s2 = s4 /\ s6' = 0
    BY <1>0, <2>1 DEF Serial!Restored, Serial!Remaining
  <2>4. {s2', s3', s4'} \subseteq Original \cup {Serial!Raw} /\ s3' = s4' /\ s7' \in 0 .. MaxOpens
    BY <1>0, <2>1, <2>3
  <2>5. s6' = IF s1' THEN 1 ELSE 0
    BY <2>2, <2>3, Zenon
  <2> QED BY <2>2, <2>4, <2>5, <1>a, Zenon
<1>3. CASE Serial!IoFails
  <2>1. /\ s1 /\ s1' = FALSE /\ s5' = TRUE /\ s6' = s6 - 1
        /\ UNCHANGED <<s2, s3, s4, s7>>
    BY <1>3 DEF Serial!IoFails
  <2>2. s1' \in BOOLEAN /\ ~s1' /\ s5' \in BOOLEAN /\ s5'
    BY <2>1, Zenon
  <2>3. s6' = 0
    BY <1>0, <2>1
  <2>4. {s2', s3', s4'} \subseteq Original \cup {Serial!Raw} /\ s7' \in 0 .. MaxOpens
    BY <1>0, <2>1
  <2>5. s6' = IF s1' THEN 1 ELSE 0
    BY <2>2, <2>3, Zenon
  <2> QED BY <2>2, <2>4, <2>5, <1>a, Zenon
<1>4. CASE Serial!OtherProgram
  BY <1>0, <1>4, <1>a DEF Serial!OtherProgram
<1>5. CASE UNCHANGED Serial!vars
  BY <1>0, <1>5, <1>a DEF Serial!vars
<1> QED BY <1>1, <1>2, <1>3, <1>4, <1>5 DEF Serial!Next
-----------------------------------------------------------------------------
(* SNTPClient and PingClient: s1 is pc, s2 client, s3 iteration, s4 request,  *)
(* s5 waiting, s6 answered, s7 data, s8 samples, s9 result, s10 clock        *)

\* Results, with the earlier requests whose answers may be mistaken.
Results == [done : BOOLEAN, ok : BOOLEAN, stale : SUBSET (0 .. MaxRequests)]

\* What is on its way is the answer to the last request, or one that was on its way when
\* a ping was called.  A getClock() that has sent its last request has the answer to the
\* one before.
ClientsInv == /\ Clients!TypeOK /\ Clients!AnswersMatch
              /\ s5 \subseteq 1 .. s4 /\ s6 \subseteq 1 .. s4 /\ s5 \cap s6 = {}
              /\ s9 \in Results
              /\ s1 # "idle" => /\ ~s9.ok
                                /\ s5 \cup s6 \subseteq s9.stale \cup {s4}
                                /\ s2 = "sntp" => /\ s9.stale = {} /\ s3 \in Nat
                                                  /\ s1 \in {"open", "send"} => s5 \cup s6 = {}
                                                  /\ s1 = "open" => s3 # 0
                                                  /\ s1 = "send" /\ s3 = 0 => s7 = s4
                                                  /\ s1 = "receive" /\ s3 = 0 => s7 = s4 - 1
              /\ s1 # "idle" /\ s1 # "receive" => s5 \cup s6 \subseteq s9.stale

\* What a return makes of the result.
LEMMA Returned ==
  ASSUME s9 \in Results, NEW ok \in BOOLEAN, NEW stale \in SUBSET (0 .. MaxRequests),
         Clients!Return(ok, stale)
  PROVE  s1' = "idle" /\ s9' \in Results /\ s9'.ok = ok /\ s9'.stale = stale
<1>1. s1' = "idle" /\ s9' = [done |-> TRUE, ok |-> ok, stale |-> stale]
  BY DEF Clients!Return
<1> QED BY <1>1 DEF Results

\* Each step of a client keeps that.
LEMMA ClientsStep == ClientsInv /\ [Clients!Next]_(Clients!vars) => ClientsInv'
<1> SUFFICES ASSUME ClientsInv, [Clients!Next]_(Clients!vars)  PROVE ClientsInv'
  OBVIOUS
<1>0. /\ MaxRequests \in Nat /\ Iterations \subseteq Nat
      /\ s1 \in {"idle", "open", "send", "receive"} /\ s2 \in {"sntp", "ping"}
      /\ {s4, s7, s10} \subseteq 0 .. MaxRequests
      /\ s5 \subseteq 1 .. s4 /\ s6 \subseteq 1 .. s4 /\ s5 \cap s6 = {}
      /\ \A r \in Nat : r <= MaxRequests => 1 .. r \subseteq 1 .. MaxRequests
      /\ s9 \in Results /\ s9.stale \subseteq 0 .. MaxRequests /\ s9.ok \in BOOLEAN
      /\ \A s \in s8 : s.request = s.answer
  BY Bounds DEF ClientsInv, Clients!TypeOK, Clients!AnswersMatch, Results
\* A call that returns leaves no more than types and an answer that may be taken.
<1>a. ASSUME NEW ok \in BOOLEAN, NEW stale \in SUBSET (0 .. MaxRequests),
             Clients!Return(ok, stale), UNCHANGED <<s2, s10>>,
             s4' \in 0 .. MaxRequests, s7' \in 0 .. MaxRequests,
             s5' \subseteq 1 .. s4', s6' \subseteq 1 .. s4', s5' \cap s6' = {},
             \A s \in s8' : s.request = s.answer,
             ok => s7' \in stale \cup {s4'} /\ (s2 = "sntp" => s7' \in {s4', s4' - 1})
      PROVE  ClientsInv'
  <2>1. s1' = "idle" /\ s9' \in Results /\ s9'.ok = ok /\ s9'.stale = stale
    BY <1>0, <1>a, Returned
  <2>2. Clients!TypeOK' /\ Clients!AnswersMatch'
    <3>1. s6' \subseteq 1 .. MaxRequests
      BY <1>0, <1>a
    <3> QED BY <1>0, <1>a, <2>1, <3>1 DEF Clients!TypeOK, Clients!AnswersMatch
  <2> QED BY <1>a, <2>1, <2>2 DEF ClientsInv
<1>1. CASE Clients!Host
  <2>1. PICK r \in s5 : s5' = s5 \ {r} /\ s6' = s6 \cup {r}
    BY <1>1 DEF Clients!Host
  <2>2. /\ s5' \cup s6' = s5 \cup s6 /\ s5' \cap s6' = {}
        /\ s5' \subseteq 1 .. s4 /\ s6' \subseteq 1 .. s4
    BY <1>0, <2>1
  <2>3. UNCHANGED <<s1, s2, s3, s4, s7, s8, s9, s10>>
    BY <1>1 DEF Clients!Host
  <2> QED BY <1>0, <2>2, <2>3 DEF ClientsInv, Clients!TypeOK, Clients!AnswersMatch
<1>2. CASE Clients!Call
  <2>1. PICK c \in {"sntp", "ping"}, n \in Iterations :
          /\ s2' = c /\ s1' = "open" /\ s3' = IF n < 1 THEN 1 ELSE n
          /\ IF c = "ping" /\ s2 = "ping" THEN UNCHANGED <<s5, s6>> ELSE s5' = {} /\ s6' = {}
          /\ s7' = 0 /\ s8' = {} /\ s9' = Clients!Begun(s5' \cup s6')
          /\ UNCHANGED <<s4, s10>>
    BY <1>2 DEF Clients!Call
  <2>2. /\ s5' \subseteq 1 .. s4' /\ s6' \subseteq 1 .. s4' /\ s5' \cap s6' = {}
        /\ s2' = "sntp" => s5' \cup s6' = {}
    BY <1>0, <2>1
  <2>3. s9' \in Results /\ ~s9'.ok /\ s9'.stale = s5' \cup s6'
    <3>1. s5' \cup s6' \in SUBSET (0 .. MaxRequests)
      BY <1>0, <2>1, <2>2
    <3> QED BY <2>1, <3>1 DEF Clients!Begun, Results
  <2>4. s3' \in Nat /\ s3' # 0
    BY <1>0, <2>1
  <2>5. s7' \in 0 .. MaxRequests
    BY <1>0, <2>1
  <2>6. s1' = "open" /\ s2' \in {"sntp", "ping"} /\ s8' = {} /\ UNCHANGED <<s4, s10>>
    BY <2>1
  <2>7. Clients!TypeOK' /\ Clients!AnswersMatch'
    <3>1. s6' \subseteq 1 .. MaxRequests
      BY <1>0, <2>2, <2>6
    <3> QED BY <1>0, <2>3, <2>5, <2>6, <3>1 DEF Clients!TypeOK, Clients!AnswersMatch, Results
  <2> QED BY <2>2, <2>3, <2>4, <2>6, <2>7 DEF ClientsInv
<1>3. CASE Clients!Opens
  <2>1. s1 = "open" /\ UNCHANGED <<s2, s3, s4, s5, s6, s7, s8, s10>>
    BY <1>3 DEF Clients!Opens
  <2>2. CASE Clients!Goto("send")
    <3>1. s1' = "send" /\ s9' = s9
      BY <2>2 DEF Clients!Goto
    <3> QED BY <1>0, <2>1, <3>1 DEF ClientsInv, Clients!TypeOK, Clients!AnswersMatch
  <2>3. CASE Clients!Return(FALSE, s9.stale)
    BY <1>0, <1>a, <2>1, <2>3
  <2> QED BY <1>3, <2>2, <2>3 DEF Clients!Opens
<1>4. CASE Clients!Sends
  <2>1. s1 = "send" /\ UNCHANGED <<s2, s3, s6, s7, s8, s10>>
    BY <1>4 DEF Clients!Sends
  <2>2. CASE /\ s4 < MaxRequests /\ s4' = s4 + 1
             /\ s5' = s5 \cup {s4'} /\ Clients!Goto("receive")
    <3>1. s1' = "receive" /\ s9' = s9
      BY <2>2 DEF Clients!Goto
    <3>2. s4' \in 0 .. MaxRequests /\ s4' \in 1 .. MaxRequests /\ s4 = s4' - 1
      BY <1>0, <2>2
    <3>3. s5' \cup s6' \subseteq s9'.stale \cup {s4'}
      BY <2>1, <2>2, <3>1 DEF ClientsInv
    <3>4. /\ s5' \subseteq 1 .. s4' /\ s6' \subseteq 1 .. s4' /\ s5' \cap s6' = {}
          /\ s6' \subseteq 1 .. MaxRequests
      BY <1>0, <2>1, <2>2, <3>2
    <3> QED BY <1>0, <2>1, <2>2, <3>1, <3>2, <3>3, <3>4
            DEF ClientsInv, Clients!TypeOK, Clients!AnswersMatch
  <2>3. CASE Clients!Return(FALSE, s9.stale) /\ UNCHANGED <<s4, s5>>
    BY <1>0, <1>a, <2>1, <2>3
  <2> QED BY <1>4, <2>2, <2>3 DEF Clients!Sends
<1>5. CASE Clients!GetClockReceives
  <2>1. s1 = "receive" /\ s2 = "sntp" /\ UNCHANGED <<s2, s4, s5, s10>>
    BY <1>5 DEF Clients!GetClockReceives
  <2>2. s9.stale = {} /\ s5 \cup s6 \subseteq {s4} /\ s3 \in Nat /\ ~s9.ok
    BY <2>1 DEF ClientsInv
  <2>3. ASSUME NEW a \in s6, s7' = a, s6' = s6 \ {a}, s3 > 0,
               s8' = s8 \cup {[request |-> s4, answer |-> a]}, s3' = s3 - 1,
               Clients!Goto("send")
        PROVE  ClientsInv'
    <3>1. a = s4 /\ s6' = {} /\ s7' = s4 /\ s3' \in Nat
      BY <2>2, <2>3
    <3>2. s5' \cup s6' \subseteq s9.stale
      <4>1. s4 \notin s5
        BY <1>0, <2>3, <3>1
      <4> QED BY <2>1, <2>2, <3>1, <4>1
    <3>3. s1' = "send" /\ s9' = s9
      BY <2>3 DEF Clients!Goto
    <3>4. \A s \in s8' : s.request = s.answer
      BY <1>0, <2>3, <3>1
    <3> QED BY <1>0, <2>1, <2>2, <3>1, <3>2, <3>3, <3>4
            DEF ClientsInv, Clients!TypeOK, Clients!AnswersMatch
  <2>4. ASSUME NEW a \in s6, s7' = a, s6' = s6 \ {a}, UNCHANGED s8,
               Clients!Return(TRUE, s9.stale)
        PROVE  ClientsInv'
    <3>1. a = s4 /\ s6' \subseteq 1 .. s4 /\ s7' = s4 /\ s5 \cap s6' = {}
      BY <1>0, <2>2, <2>4
    <3> QED BY <1>0, <1>a, <2>1, <2>4, <3>1
  <2>5. ASSUME Clients!Return(FALSE, s9.stale), UNCHANGED <<s6, s7, s8>>  PROVE ClientsInv'
    BY <1>0, <1>a, <2>1, <2>5
  <2>6. ASSUME s3 = 0, Clients!Return(TRUE, {s7}), UNCHANGED <<s6, s7, s8>>  PROVE ClientsInv'
    <3>1. s7 = s4 - 1 /\ {s7} \in SUBSET (0 .. MaxRequests)
      BY <1>0, <2>1, <2>6 DEF ClientsInv
    <3> QED BY <1>0, <1>a, <2>1, <2>6, <3>1
  <2> QED BY <1>5, <2>2, <2>3, <2>4, <2>5, <2>6 DEF Clients!GetClockReceives
<1>6. CASE Clients!PingReceives
  <2>1. s1 = "receive" /\ s2 = "ping" /\ UNCHANGED <<s2, s4, s5, s8, s10>>
    BY <1>6 DEF Clients!PingReceives
  <2>2. ASSUME NEW a \in s6, s7' = a, s6' = s6 \ {a}, Clients!Return(TRUE, s9.stale)
        PROVE  ClientsInv'
    <3>1. /\ a \in s9.stale \cup {s4} /\ a \in 0 .. MaxRequests /\ s6' \subseteq 1 .. s4
          /\ s5 \cap s6' = {}
      BY <1>0, <2>1, <2>2 DEF ClientsInv
    <3> QED BY <1>0, <1>a, <2>1, <2>2, <3>1
  <2>3. ASSUME Clients!Return(FALSE, s9.stale), UNCHANGED <<s6, s7>>  PROVE ClientsInv'
    BY <1>0, <1>a, <2>1, <2>3
  <2> QED BY <1>6, <2>2, <2>3, Zenon DEF Clients!PingReceives
<1>7. CASE Clients!SetClock
  <2>1. /\ s1 = "idle" /\ s10' \in {s7, s10} /\ s9' = [s9 EXCEPT !.done = FALSE]
        /\ UNCHANGED <<s1, s2, s3, s4, s5, s6, s7, s8>>
    BY <1>7 DEF Clients!SetClock
  <2>2. s9' \in Results /\ s9'.ok = s9.ok /\ s9'.stale = s9.stale
    BY <1>0, <2>1 DEF Results
  <2> QED BY <1>0, <2>1, <2>2 DEF ClientsInv, Clients!TypeOK, Clients!AnswersMatch
<1>8. CASE UNCHANGED Clients!vars
  BY <1>8 DEF Clients!vars, ClientsInv, Clients!TypeOK, Clients!AnswersMatch
<1> QED BY <1>1, <1>2, <1>3, <1>4, <1>5, <1>6, <1>7, <1>8 DEF Clients!Next
-----------------------------------------------------------------------------
(* StreamBuf: s1 is taken, s2 isOpen, s3 buffer, s4 gptr, s5 pos, s6 ungot,   *)
(* s7 last, s8 given, s9 order                                               *)

\* How many characters in front of gptr the user may put back in order.
MayUnget == IF s9 = "block" THEN 0 ELSE MaxUnget - s6

\* In the buffer are the last characters of t: unless the order is lost, those at gptr
\* and after it, and those in front that the user may still put back.
BufferInv ==
  /\ s1 \in 0 .. Length /\ s2 \in BOOLEAN
  /\ s3 \in Seq(Nat) /\ Len(s3) <= buf_size /\ Len(s3) # 1
  /\ s4 \in 1 .. Len(s3) + 1 /\ s6 \in 0 .. MaxUnget
  /\ s5 \in Nat /\ s1 = s5 + (Len(s3) + 1 - s4)
  /\ s9 \in {"chars", "block", "mixed"}
  /\ s9 # "mixed" => /\ \A i \in 1 .. Len(s3) : i >= s4 - MayUnget
                                                  => s3[i] = s1 - (Len(s3) - i)
                     /\ s7.char = s7.at
  /\ s3 = << >> /\ s9 = "chars" => s1 = 0

\* With at most one character put back in a row, each step keeps that.
LEMMA BufferStep ==
  ASSUME MaxUnget <= 1, BufferInv, [Buffer!Next]_(Buffer!vars)  PROVE BufferInv'
<1>0. /\ Length \in Nat /\ buf_size \in Nat \ {0} /\ MaxUnget \in 0 .. 1
      /\ s1 \in 0 .. Length /\ s5 \in Nat /\ s3 \in Seq(Nat) /\ Len(s3) \in Nat
      /\ s4 \in 1 .. Len(s3) + 1 /\ s6 \in 0 .. MaxUnget
      /\ s9 \in {"chars", "block", "mixed"} /\ s1 = s5 + (Len(s3) + 1 - s4)
  BY Bounds DEF BufferInv
<1>1. CASE Buffer!Underflow
  <2>1. PICK k \in Buffer!Reads(buf_size - 1) :
          /\ s1' = s1 + k /\ s3' = Buffer!Refilled(k)
          /\ s4' = IF k > 0 THEN 2 ELSE s4
    BY <1>1 DEF Buffer!Underflow
  <2>2. /\ s4 = Len(s3) + 1 /\ UNCHANGED <<s2, s5, s6, s7, s8, s9>>
    BY <1>0, <1>1 DEF Buffer!Underflow, BufferInv
  <2>3. k \in 0 .. (buf_size - 1) /\ s1 + k <= Length
    BY <1>0, <2>1 DEF Buffer!Reads
  <2>4. Buffer!Kept \in Nat
    BY <1>0, <2>2 DEF Buffer!Kept
  <2>5. s9 # "mixed" /\ MayUnget = 1 => Buffer!Kept = s1
    BY <1>0, <2>2 DEF Buffer!Kept, BufferInv, MayUnget
  <2>a. MayUnget' = MayUnget /\ MayUnget \in 0 .. 1
    BY <1>0, <2>2 DEF MayUnget
  <2>6. CASE k > 0
    <3>1. s3' = <<Buffer!Kept>> \o [i \in 1 .. k |-> s1 + i]
      BY <2>1, <2>6 DEF Buffer!Refilled, Buffer!Next1
    <3>2. <<Buffer!Kept>> \in Seq(Nat) /\ [i \in 1 .. k |-> s1 + i] \in Seq(Nat)
      BY <1>0, <2>3, <2>4
    <3>3. /\ s3' \in Seq(Nat) /\ Len(s3') = k + 1 /\ s3'[1] = Buffer!Kept
          /\ \A i \in 2 .. k + 1 : s3'[i] = s1 + (i - 1)
      BY <2>3, <3>1, <3>2
    <3>4. s9' # "mixed" =>
            \A i \in 1 .. Len(s3') : i >= s4' - MayUnget' => s3'[i] = s1' - (Len(s3') - i)
      <4> SUFFICES ASSUME s9 # "mixed", NEW i \in 1 .. k + 1, i >= 2 - MayUnget
                   PROVE  s3'[i] = (s1 + k) - ((k + 1) - i)
        BY <2>1, <2>2, <2>6, <2>a, <3>3
      <4>1. CASE i = 1
        <5>1. MayUnget = 1
          BY <2>a, <4>1
        <5> QED BY <1>0, <2>3, <2>5, <3>3, <4>1, <5>1
      <4>2. CASE i # 1
        <5>1. s3'[i] = s1 + (i - 1)
          BY <2>3, <3>3, <4>2
        <5> QED BY <1>0, <2>3, <5>1
      <4> QED BY <4>1, <4>2
    <3>5. s4' = 2 /\ s5' \in Nat /\ s1' = s5' + (Len(s3') + 1 - s4') /\ s1' \in 0 .. Length
      BY <1>0, <2>1, <2>2, <2>3, <2>6, <3>3 DEF BufferInv
    <3>6. /\ Len(s3') <= buf_size /\ Len(s3') # 1 /\ s4' \in 1 .. Len(s3') + 1
          /\ s3' # << >>
      BY <1>0, <2>3, <2>6, <3>3, <3>5
    <3>7. /\ s2' \in BOOLEAN /\ s6' \in 0 .. MaxUnget /\ s9' \in {"chars", "block", "mixed"}
          /\ s9' # "mixed" => s7'.char = s7'.at
      BY <1>0, <2>2, Zenon DEF BufferInv
    <3> QED BY <3>3, <3>4, <3>5, <3>6, <3>7, Zenon DEF BufferInv
  <2>7. CASE k = 0
    <3>1. s3' = [i \in DOMAIN s3 |-> IF i = 1 THEN Buffer!Kept ELSE s3[i]]
      BY <2>1, <2>7 DEF Buffer!Refilled
    <3>2. /\ s3' \in Seq(Nat) /\ Len(s3') = Len(s3)
          /\ \A i \in 1 .. Len(s3) : i # 1 => s3'[i] = s3[i]
      BY <1>0, <2>4, <3>1, SMTT(40)
    <3>3. s1' = s1 /\ s4' = s4
      BY <1>0, <2>1, <2>7
    <3>4. s9' # "mixed" =>
            \A i \in 1 .. Len(s3') : i >= s4' - MayUnget' => s3'[i] = s1' - (Len(s3') - i)
      BY <1>0, <2>2, <2>a, <3>2, <3>3 DEF BufferInv
    <3>5. s3' = << >> => s3 = << >>
      BY <1>0, <3>2
    <3> QED BY <1>0, <2>2, <3>2, <3>3, <3>4, <3>5 DEF BufferInv
  <2> QED BY <1>0, <2>3, <2>6, <2>7
<1>2. CASE Buffer!Get
  <2>1. /\ s4 \in 1 .. Len(s3) /\ s4' = s4 + 1 /\ s5' = s5 + 1
        /\ s7' = [at |-> s5', char |-> s3[s4]]
        /\ s6' = (IF s6 = 0 THEN 0 ELSE s6 - 1) /\ UNCHANGED <<s1, s2, s3>>
        /\ s9' = IF s9 = "block" THEN "chars" ELSE s9
    BY <1>2 DEF Buffer!Get, BufferInv
  <2>2. s9 # "mixed" => s3[s4] = s5 + 1
    BY <1>0, <2>1 DEF BufferInv, MayUnget
  <2>3. s9 # "mixed" => s7'.char = s7'.at
    BY <2>1, <2>2
  <2>4. s9 # "mixed" =>
          \A i \in 1 .. Len(s3) : i >= s4' - MayUnget' => s3[i] = s1 - (Len(s3) - i)
    <3>3. s9 # "mixed" => \A i \in 1 .. Len(s3) : i >= s4 - MayUnget => s3[i] = s1 - (Len(s3) - i)
      BY DEF BufferInv
    <3> SUFFICES ASSUME s9 # "mixed", NEW i \in 1 .. Len(s3), i >= s4' - MayUnget'
                 PROVE  s3[i] = s1 - (Len(s3) - i)
      OBVIOUS
    <3>5. i >= s4 - MayUnget
      BY <1>0, <2>1 DEF MayUnget
    <3> QED BY <3>3, <3>5
  <2>5. s3 # << >>
    BY <1>0, <2>1
  <2> QED BY <1>0, <2>1, <2>3, <2>4, <2>5 DEF BufferInv
<1>3. CASE Buffer!Unget
  <2>1. /\ s4 > 1 /\ s5 > 0 /\ s6 < MaxUnget /\ s4' = s4 - 1 /\ s5' = s5 - 1
        /\ s6' = s6 + 1 /\ UNCHANGED <<s1, s2, s3, s7>>
        /\ s9' = IF s9 = "block" THEN "mixed" ELSE s9
    BY <1>3 DEF Buffer!Unget
  <2>2. s6 = 0 /\ MaxUnget = 1 /\ s6' = 1 /\ s6' \in 0 .. MaxUnget
    BY <1>0, <2>1
  <2>3. s4' \in 1 .. Len(s3) + 1 /\ s5' \in Nat /\ s1 = s5' + (Len(s3) + 1 - s4')
    BY <1>0, <2>1
  <2>4. s9' # "mixed" =>
          \A i \in 1 .. Len(s3) : i >= s4' - MayUnget' => s3[i] = s1 - (Len(s3) - i)
    <3>1. s9' # "mixed" => s4' - MayUnget' = s4 - MayUnget /\ s9 # "mixed"
      BY <1>0, <2>1, <2>2 DEF MayUnget
    <3> QED BY <3>1 DEF BufferInv
  <2>5. /\ s9' \in {"chars", "block", "mixed"}
        /\ s9' # "mixed" => s7'.char = s7'.at
    BY <1>0, <2>1 DEF BufferInv
  <2>6. /\ UNCHANGED <<s1, s2, s3>> /\ s1 \in 0 .. Length /\ s2 \in BOOLEAN
        /\ s3 \in Seq(Nat) /\ Len(s3) <= buf_size /\ Len(s3) # 1 /\ s3 # << >>
    <3>1. Len(s3) # 0
      BY <1>0, <2>1
    <3> QED BY <2>1, <3>1 DEF BufferInv
  <2>7. s1' \in 0 .. Length /\ s2' \in BOOLEAN /\ s3' = s3 /\ s1' = s1
    BY <2>6, Zenon
  <2>8. s3' \in Seq(Nat) /\ Len(s3') <= buf_size /\ Len(s3') # 1 /\ s3' # << >>
    BY <2>6, <2>7, Zenon
  <2>9. s1' = s5' + (Len(s3') + 1 - s4') /\ s4' \in 1 .. Len(s3') + 1
    BY <2>3, <2>7
  <2>10. s9' # "mixed" =>
           \A i \in 1 .. Len(s3') : i >= s4' - MayUnget' => s3'[i] = s1' - (Len(s3') - i)
    BY <2>4, <2>7
  <2> QED BY <2>2, <2>3, <2>5, <2>7, <2>8, <2>9, <2>10, Zenon DEF BufferInv
<1>4. CASE Buffer!ReadBlock
  <2>1. PICK n \in 1 .. 2 : \E k \in Buffer!Reads(n) :
          /\ k > 0 /\ s1' = s1 + k /\ s5' = s5 + k /\ s6' = 0
          /\ s7' = [at |-> s5', char |-> s1'] /\ UNCHANGED <<s2, s3, s4>>
          /\ s9' = IF s4 <= Len(s3) \/ s9 = "mixed" THEN "mixed" ELSE "block"
    BY <1>4 DEF Buffer!ReadBlock
  <2>2. PICK k \in Buffer!Reads(n) :
          /\ k > 0 /\ s1' = s1 + k /\ s5' = s5 + k /\ s6' = 0
          /\ s7' = [at |-> s5', char |-> s1'] /\ UNCHANGED <<s2, s3, s4>>
          /\ s9' = IF s4 <= Len(s3) \/ s9 = "mixed" THEN "mixed" ELSE "block"
    BY <2>1
  <2>3. k \in Nat /\ s1 + k <= Length
    BY <1>0, <2>1, <2>2 DEF Buffer!Reads
  <2>4. s9' \in {"block", "mixed"}
        /\ (s9' = "block" => s4 = Len(s3) + 1 /\ s1 = s5 /\ MayUnget' = 0)
    <3>1. s9' = "block" => ~(s4 <= Len(s3))
      BY <2>2
    <3>2. s9' = "block" => s4 = Len(s3) + 1
      BY <1>0, <3>1
    <3>3. s9' = "block" => s1 = s5
      BY <1>0, <3>2
    <3> QED BY <2>2, <3>2, <3>3 DEF MayUnget
  <2>5. s9' # "mixed" => s7'.char = s7'.at
    BY <1>0, <2>2, <2>3, <2>4
  <2>6. s1' = s5' + (Len(s3) + 1 - s4) /\ s1' \in 0 .. Length /\ s5' \in Nat
    BY <1>0, <2>2, <2>3
  <2>7. /\ s2' \in BOOLEAN /\ s3' \in Seq(Nat) /\ Len(s3') <= buf_size /\ Len(s3') # 1
        /\ s3' = s3 /\ s4' = s4 /\ s6' \in 0 .. MaxUnget
    BY <1>0, <2>2 DEF BufferInv
  <2>8. s9' # "mixed" => \A i \in 1 .. Len(s3) : ~(i >= s4 - MayUnget')
    BY <1>0, <2>4
  <2>9. s9' \in {"chars", "block", "mixed"} /\ s9' # "chars" /\ s4' \in 1 .. Len(s3') + 1
    BY <1>0, <2>4, <2>7
  <2> QED BY <2>5, <2>6, <2>7, <2>8, <2>9 DEF BufferInv
<1>5. CASE Buffer!Closed
  <2>1. s2' \in BOOLEAN /\ UNCHANGED <<s1, s3, s4, s5, s6, s7, s9>>
    BY <1>5, Zenon DEF Buffer!Closed
  <2> QED BY <1>0, <2>1, Zenon DEF BufferInv, MayUnget
<1>6. CASE UNCHANGED Buffer!vars
  BY <1>6 DEF Buffer!vars, BufferInv, MayUnget
<1> QED BY <1>1, <1>2, <1>3, <1>4, <1>5, <1>6 DEF Buffer!Next

\* The first place was overwritten with the last character, which happens only at the
\* end of t: the user is at the end of the buffer then, or one character before it.
EndKept == /\ s3[1] = s3[Len(s3)] /\ s1 = Length
           /\ s4 >= Len(s3) /\ (s4 = Len(s3) => s6 >= 1)

\* What is buffered are different characters, and the user has all those that are not.
BufferHas ==
  /\ \A i \in 2 .. Len(s3) : s3[i] \in 1 .. s1 /\ s3[i] = s3[Len(s3)] - (Len(s3) - i)
  /\ Len(s3) > 0 => s3[1] \in 0 .. s1 /\ (s3[1] < s3[2] \/ EndKept)
  /\ s8 \subseteq 1 .. s1
  /\ \A c \in 1 .. s1 : c \notin s8 <=> \E i \in s4 .. Len(s3) : s3[i] = c

\* Whatever is read and put back in turn, each step keeps that.
LEMMA BufferKeeps ==
  ASSUME MaxUnget <= 1, BufferInv, BufferHas, [Buffer!Next]_(Buffer!vars)  PROVE BufferHas'
<1>0. /\ Length \in Nat /\ buf_size \in Nat \ {0} /\ MaxUnget \in 0 .. 1
      /\ s1 \in 0 .. Length /\ s3 \in Seq(Nat) /\ Len(s3) \in Nat /\ Len(s3) # 1
      /\ s4 \in 1 .. Len(s3) + 1 /\ s6 \in 0 .. MaxUnget
  BY Bounds DEF BufferInv
<1>1. CASE Buffer!Underflow
  <2>1. PICK k \in Buffer!Reads(buf_size - 1) :
          /\ s1' = s1 + k /\ s3' = Buffer!Refilled(k)
          /\ s4' = IF k > 0 THEN 2 ELSE s4
    BY <1>1 DEF Buffer!Underflow
  <2>2. s4 = Len(s3) + 1 /\ s2 /\ UNCHANGED <<s6, s8>>
    BY <1>0, <1>1 DEF Buffer!Underflow
  <2>3. k \in 0 .. (buf_size - 1) /\ s1 + k <= Length /\ (k = 0 => s1 = Length)
    BY <1>0, <2>1, <2>2 DEF Buffer!Reads
  <2>4. /\ Buffer!Kept \in 0 .. s1
        /\ Len(s3) > 0 => Buffer!Kept = s3[Len(s3)]
    BY <1>0, <2>2 DEF Buffer!Kept, BufferHas
  <2>5. \A c \in 1 .. s1 : c \in s8
    BY <1>0, <2>2 DEF BufferHas
  <2>6. CASE k > 0
    <3>1. s3' = <<Buffer!Kept>> \o [i \in 1 .. k |-> s1 + i]
      BY <2>1, <2>6 DEF Buffer!Refilled, Buffer!Next1
    <3>2. <<Buffer!Kept>> \in Seq(Nat) /\ [i \in 1 .. k |-> s1 + i] \in Seq(Nat)
      BY <1>0, <2>3, <2>4
    <3>3. /\ s3' \in Seq(Nat) /\ Len(s3') = k + 1 /\ s3'[1] = Buffer!Kept
          /\ \A i \in 2 .. k + 1 : s3'[i] = s1 + (i - 1)
      BY <2>3, <3>1, <3>2
    <3>4. s1' = s1 + k /\ s4' = 2 /\ s8' = s8
      BY <2>1, <2>2, <2>6
    <3>5. \A i \in 2 .. Len(s3') : /\ s3'[i] \in 1 .. s1'
                                   /\ s3'[i] = s3'[Len(s3')] - (Len(s3') - i)
      <4>1. ASSUME NEW i \in 2 .. k + 1
            PROVE  s3'[i] \in 1 .. s1 + k /\ s3'[i] = s3'[k + 1] - (k + 1 - i)
        <5>1. s3'[i] = s1 + (i - 1) /\ s3'[k + 1] = s1 + (k + 1 - 1)
          BY <2>3, <2>6, <3>3
        <5> QED BY <1>0, <2>3, <5>1
      <4>2. s1' = s1 + k /\ Len(s3') = k + 1
        BY <3>3, <3>4
      <4> SUFFICES ASSUME NEW i \in 2 .. Len(s3')
                   PROVE  /\ s3'[i] \in 1 .. s1'
                          /\ s3'[i] = s3'[Len(s3')] - (Len(s3') - i)
        OBVIOUS
      <4>3. i \in 2 .. k + 1
        BY <4>2
      <4>4. s3'[i] \in 1 .. s1 + k /\ s3'[i] = s3'[k + 1] - (k + 1 - i)
        BY <4>1, <4>3
      <4>5. 1 .. s1' = 1 .. s1 + k /\ Len(s3') - i = k + 1 - i /\ s3'[Len(s3')] = s3'[k + 1]
        BY <1>0, <2>3, <4>2
      <4> QED BY <4>4, <4>5, Zenon
    <3>6. s3'[1] \in 0 .. s1' /\ s3'[1] < s3'[2]
      BY <1>0, <2>3, <2>4, <2>6, <3>3, <3>4
    <3>7. s8' \subseteq 1 .. s1'
      BY <1>0, <2>3, <3>4 DEF BufferHas
    <3>8. ASSUME NEW c \in 1 .. s1'
          PROVE  c \notin s8' <=> \E i \in s4' .. Len(s3') : s3'[i] = c
      <4>1. CASE c <= s1
        <5>1. c \in s8'
          BY <1>0, <2>5, <3>4, <4>1
        <5>2. \A i \in 2 .. k + 1 : s3'[i] # c
          BY <1>0, <2>3, <3>3, <4>1
        <5> QED BY <3>3, <3>4, <5>1, <5>2
      <4>2. CASE c > s1
        <5>1. c \notin s8'
          BY <1>0, <3>4, <4>2 DEF BufferHas
        <5>2. c - s1 + 1 \in 2 .. k + 1 /\ s3'[c - s1 + 1] = c
          BY <1>0, <2>3, <3>3, <3>4, <4>2
        <5> QED BY <3>3, <3>4, <5>1, <5>2
      <4> QED BY <1>0, <2>3, <3>4, <4>1, <4>2
    <3> QED BY <3>5, <3>6, <3>7, <3>8 DEF BufferHas
  <2>7. CASE k = 0
    <3>1. s3' = [i \in DOMAIN s3 |-> IF i = 1 THEN Buffer!Kept ELSE s3[i]]
      BY <2>1, <2>7 DEF Buffer!Refilled
    <3>2. /\ s3' \in Seq(Nat) /\ Len(s3') = Len(s3)
          /\ \A i \in 1 .. Len(s3) : i # 1 => s3'[i] = s3[i]
          /\ Len(s3) > 0 => s3'[1] = Buffer!Kept
      BY <1>0, <2>4, <3>1, SMTT(40)
    <3>3. s1' = s1 /\ s4' = s4 /\ s8' = s8 /\ s6' = s6
      BY <1>0, <2>1, <2>2, <2>7
    <3>4. \A i \in 2 .. Len(s3') : /\ s3'[i] \in 1 .. s1'
                                   /\ s3'[i] = s3'[Len(s3')] - (Len(s3') - i)
      <4> SUFFICES ASSUME NEW i \in 2 .. Len(s3)
                   PROVE  s3'[i] \in 1 .. s1 /\ s3'[i] = s3'[Len(s3)] - (Len(s3) - i)
        BY <3>2, <3>3
      <4>1. i \in 1 .. Len(s3) /\ Len(s3) \in 1 .. Len(s3) /\ i # 1 /\ Len(s3) # 1
        BY <1>0
      <4>2. s3'[i] = s3[i] /\ s3'[Len(s3)] = s3[Len(s3)]
        BY <3>2, <4>1
      <4> QED BY <4>2 DEF BufferHas
    <3>5. Len(s3') > 0 => s3'[1] \in 0 .. s1' /\ EndKept'
      BY <1>0, <2>2, <2>3, <2>4, <2>7, <3>2, <3>3 DEF EndKept
    <3>6. /\ s8' \subseteq 1 .. s1'
          /\ \A c \in 1 .. s1' : c \notin s8' <=> \E i \in s4' .. Len(s3') : s3'[i] = c
      BY <1>0, <2>2, <3>2, <3>3 DEF BufferHas
    <3> QED BY <3>4, <3>5, <3>6 DEF BufferHas
  <2> QED BY <2>3, <2>6, <2>7
<1>2. CASE Buffer!Get
  <2>1. /\ s4 \in 1 .. Len(s3) /\ s4' = s4 + 1 /\ UNCHANGED <<s1, s3>>
        /\ s8' = s8 \cup ({s3[s4]} \ {0})
        /\ s6' = IF s6 = 0 THEN 0 ELSE s6 - 1
    BY <1>0, <1>2 DEF Buffer!Get
  <2>b. Len(s3) >= 2 /\ Len(s3) \in 1 .. Len(s3)
    <3>1. s4 \in 1 .. Len(s3) /\ Len(s3) \in Nat /\ Len(s3) # 1
      BY <1>0, <2>1, Zenon
    <3> QED BY <3>1
  <2>c. s3[Len(s3)] \in Nat
    BY <1>0, <2>b
  <2>d. PICK n \in Nat, t \in Nat : n = Len(s3) /\ t = s3[Len(s3)]
    BY <1>0, <2>c
  <2>a. /\ n >= 2 /\ \A i \in 2 .. n : s3[i] \in 1 .. s1 /\ s3[i] = t - (n - i)
        /\ s3[1] \in 0 .. s1 /\ (s3[1] < s3[2] \/ EndKept)
    <3>1. \A i \in 2 .. n : s3[i] \in 1 .. s1 /\ s3[i] = t - (n - i)
      BY <2>d DEF BufferHas
    <3> QED BY <2>b, <2>d, <3>1 DEF BufferHas
  <2>2. s3[s4] \in 0 .. s1
    <3>1. CASE s4 = 1
      BY <2>a, <3>1
    <3>2. CASE s4 # 1
      <4>1. s4 \in 2 .. n
        BY <1>0, <2>1, <2>d, <3>2
      <4>2. s3[s4] \in 1 .. s1
        BY <2>a, <4>1
      <4> QED BY <1>0, <4>2
    <3> QED BY <3>1, <3>2
  <2>3. ASSUME NEW i \in s4 + 1 .. Len(s3)  PROVE s3[i] # s3[s4]
    <3>0. i \in 2 .. n /\ s3[i] = t - (n - i)
      BY <1>0, <2>1, <2>a, <2>d
    <3>1. CASE s4 = 1
      <4>1. s3[1] < s3[2]
        BY <1>0, <2>1, <2>a, <2>b, <3>1 DEF EndKept
      <4>2. s3[2] = t - (n - 2)
        BY <1>0, <2>a
      <4>3. i > 2 \/ i = 2
        BY <3>0
      <4> QED BY <1>0, <2>2, <2>d, <3>0, <3>1, <4>1, <4>2, <4>3
    <3>2. CASE s4 # 1
      <4>1. s3[s4] = t - (n - s4)
        BY <1>0, <2>1, <2>a, <2>d, <3>2
      <4>2. s4 \in Nat /\ i \in Nat /\ i > s4
        BY <1>0, <2>1
      <4> QED BY <2>d, <3>0, <4>1, <4>2
    <3> QED BY <3>1, <3>2
  <2>4. /\ s8' \subseteq 1 .. s1
        /\ \A c \in 1 .. s1 : c \notin s8' <=> \E i \in s4' .. Len(s3) : s3[i] = c
    <3>1. \A c \in 1 .. s1 : c \notin s8' <=> c \notin s8 /\ c # s3[s4]
      BY <2>1
    <3>2. \A c : (\E i \in s4 .. Len(s3) : s3[i] = c) /\ c # s3[s4]
                   <=> \E i \in s4 + 1 .. Len(s3) : s3[i] = c
      BY <1>0, <2>1, <2>3
    <3>3. s8' \subseteq 1 .. s1
      <4>1. {s3[s4]} \ {0} \subseteq 1 .. s1
        BY <1>0, <2>2
      <4> QED BY <2>1, <4>1 DEF BufferHas
    <3>4. s4' = s4 + 1 /\ \A c \in 1 .. s1 : c \notin s8 <=> \E i \in s4 .. Len(s3) : s3[i] = c
      BY <2>1 DEF BufferHas
    <3> QED BY <3>1, <3>2, <3>3, <3>4
  <2>5. EndKept => EndKept'
    BY <1>0, <2>1, <2>b DEF EndKept
  <2> QED BY <2>1, <2>4, <2>5 DEF BufferHas
<1>3. CASE Buffer!Unget
  <2>1. /\ s4 > 1 /\ s6 < MaxUnget /\ s4' = s4 - 1 /\ s6' = s6 + 1
        /\ s8' = s8 \ {s3[s4 - 1]} /\ UNCHANGED <<s1, s3>>
    BY <1>3 DEF Buffer!Unget
  <2>2. EndKept => EndKept'
    BY <1>0, <2>1 DEF EndKept
  <2>3. \A c : (\E i \in s4' .. Len(s3) : s3[i] = c)
                 <=> c = s3[s4 - 1] \/ \E i \in s4 .. Len(s3) : s3[i] = c
    BY <1>0, <2>1
  <2>4. \A c \in 1 .. s1 : c \notin s8' <=> c = s3[s4 - 1] \/ c \notin s8
    BY <2>1
  <2>5. s8' \subseteq 1 .. s1
    BY <2>1 DEF BufferHas
  <2> QED BY <2>1, <2>2, <2>3, <2>4, <2>5 DEF BufferHas
<1>4. CASE Buffer!ReadBlock
  <2>1. PICK n \in 1 .. 2 : \E k \in Buffer!Reads(n) :
          /\ k > 0 /\ s1' = s1 + k /\ s8' = s8 \cup (s1 + 1 .. s1 + k) /\ UNCHANGED <<s3, s4>>
    BY <1>4 DEF Buffer!ReadBlock
  <2>2. PICK k \in Buffer!Reads(n) :
          /\ k > 0 /\ s1' = s1 + k /\ s8' = s8 \cup (s1 + 1 .. s1 + k) /\ UNCHANGED <<s3, s4>>
    BY <2>1
  <2>3. k \in Nat /\ k > 0 /\ s1 + k <= Length
    BY <1>0, <2>1, <2>2 DEF Buffer!Reads
  <2>4. ~EndKept
    BY <1>0, <2>3 DEF EndKept
  <2>5. \A i \in 1 .. Len(s3) : s3[i] \in 0 .. s1
    BY <1>0 DEF BufferHas
  <2>6. s8' \subseteq 1 .. s1'
    BY <1>0, <2>2, <2>3 DEF BufferHas
  <2>7. ASSUME NEW c \in 1 .. s1'
        PROVE  c \notin s8' <=> \E i \in s4' .. Len(s3') : s3'[i] = c
    <3>1. CASE c <= s1
      BY <1>0, <2>2, <2>3, <3>1 DEF BufferHas
    <3>2. CASE c > s1
      BY <1>0, <2>2, <2>3, <2>5, <3>2
    <3> QED BY <1>0, <2>2, <2>3, <3>1, <3>2
  <2>8. \A i \in 2 .. Len(s3) : s3[i] \in 1 .. s1' /\ s3[i] = s3[Len(s3)] - (Len(s3) - i)
    BY <1>0, <2>2, <2>3 DEF BufferHas
  <2>9. Len(s3) > 0 => s3[1] \in 0 .. s1' /\ s3[1] < s3[2]
    BY <1>0, <2>2, <2>3, <2>4 DEF BufferHas
  <2> QED BY <2>2, <2>6, <2>7, <2>8, <2>9 DEF BufferHas
<1>5. CASE Buffer!Closed
  <2>1. UNCHANGED <<s1, s3, s4, s6, s8>>
    BY <1>5 DEF Buffer!Closed
  <2> QED BY <2>1 DEF BufferHas, EndKept
<1>6. CASE UNCHANGED Buffer!vars
  BY <1>6 DEF Buffer!vars, BufferHas, EndKept
<1> QED BY <1>1, <1>2, <1>3, <1>4, <1>5, <1>6 DEF Buffer!Next
-----------------------------------------------------------------------------
(* SocketStream: s1 is sender, s2 receiver, s3 buf, s4 received, s5 channel,  *)
(* s6 broken                                                                 *)

\* Adding the bytes after first to what is there.
LEMMA Appending ==
  ASSUME NEW s \in Seq(Nat), NEW first \in Nat, NEW n \in Nat,
         NEW t, t = s \o Stream!Range1(first, first + n)
  PROVE  /\ t \in Seq(Nat) /\ Len(t) = Len(s) + n
         /\ \A i \in 1 .. Len(s) : t[i] = s[i]
         /\ \A i \in 1 .. n : t[Len(s) + i] = first + i
<1>1. Stream!Range1(first, first + n) = [i \in 1 .. n |-> first + i]
  BY DEF Stream!Range1
<1>2. PICK r \in Seq(Nat) : /\ r = Stream!Range1(first, first + n) /\ Len(r) = n
                            /\ \A i \in 1 .. n : r[i] = first + i
  <2>1. /\ [i \in 1 .. n |-> first + i] \in Seq(Nat)
        /\ Len([i \in 1 .. n |-> first + i]) = n
    OBVIOUS
  <2> QED BY <1>1, <2>1
<1>3. t = s \o r
  BY <1>2
<1>4. t \in Seq(Nat) /\ Len(t) = Len(s) + n
  <2>1. s \o r \in Seq(Nat) /\ Len(s \o r) = Len(s) + Len(r)
    BY ConcatProperties, Zenon
  <2> QED BY <1>2, <1>3, <2>1, Zenon
<1>5. \A i \in 1 .. n : t[Len(s) + i] = r[i]
  BY <1>2, <1>3
<1>6. \A i \in 1 .. Len(s) : t[i] = s[i]
  BY <1>2, <1>3
<1> QED BY <1>2, <1>4, <1>5, <1>6

\* Moving got bytes from the front of t to the end of s.
LEMMA BytesMove ==
  \A s, t \in Seq(Nat) : \A got \in 1 .. Len(t) : \A u :
    u = s \o SubSeq(t, 1, got) =>
      /\ u \in Seq(Nat) /\ Len(u) = Len(s) + got
      /\ \A i \in 1 .. Len(s) : u[i] = s[i]
      /\ \A i \in 1 .. got : u[Len(s) + i] = t[i]
<1> SUFFICES ASSUME NEW s \in Seq(Nat), NEW t \in Seq(Nat), NEW got \in 1 .. Len(t),
                    NEW u, u = s \o SubSeq(t, 1, got)
             PROVE  /\ u \in Seq(Nat) /\ Len(u) = Len(s) + got
                    /\ \A i \in 1 .. Len(s) : u[i] = s[i]
                    /\ \A i \in 1 .. got : u[Len(s) + i] = t[i]
  OBVIOUS
<1>1. SubSeq(t, 1, got) \in Seq(Nat) /\ Len(SubSeq(t, 1, got)) = got
  OBVIOUS
<1>2. \A i \in 1 .. got : SubSeq(t, 1, got)[i] = t[i]
  OBVIOUS
<1> QED BY <1>1, <1>2

\* What is left of t then.
LEMMA BytesLeft ==
  \A t \in Seq(Nat) : \A got \in 1 .. Len(t) : \A u :
    u = SubSeq(t, got + 1, Len(t)) =>
      /\ u \in Seq(Nat) /\ Len(u) = Len(t) - got
      /\ \A i \in 1 .. Len(t) - got : u[i] = t[got + i]
OBVIOUS

\* IsPrefix and IsSuffix by their elements.
LEMMA Prefixes ==
  ASSUME NEW s \in Seq(Nat), NEW t \in Seq(Nat), Len(s) <= Len(t),
         \A i \in 1 .. Len(s) : s[i] = t[i]
  PROVE  Stream!IsPrefix(s, t)
BY DEF Stream!IsPrefix

LEMMA Suffixes ==
  ASSUME NEW s \in Seq(Nat), NEW t \in Seq(Nat), Len(s) <= Len(t),
         \A i \in 1 .. Len(s) : s[i] = t[(Len(t) - Len(s)) + i]
  PROVE  Stream!IsSuffix(s, t)
<1>1. PICK m \in Nat, n \in Nat : m = Len(s) /\ n = Len(t) /\ m <= n
  OBVIOUS
<1>2. /\ Stream!Reverse(s) \in Seq(Nat) /\ Len(Stream!Reverse(s)) = m
      /\ \A i \in 1 .. m : Stream!Reverse(s)[i] = s[(m - i) + 1]
  BY <1>1 DEF Stream!Reverse
<1>3. /\ Stream!Reverse(t) \in Seq(Nat) /\ Len(Stream!Reverse(t)) = n
      /\ \A i \in 1 .. n : Stream!Reverse(t)[i] = t[(n - i) + 1]
  BY <1>1 DEF Stream!Reverse
<1>4. ASSUME NEW i \in 1 .. m  PROVE Stream!Reverse(s)[i] = Stream!Reverse(t)[i]
  <2>1. (m - i) + 1 \in 1 .. m /\ (n - m) + ((m - i) + 1) = (n - i) + 1 /\ i \in 1 .. n
    BY <1>1
  <2>2. s[(m - i) + 1] = t[(n - m) + ((m - i) + 1)]
    BY <1>1, <2>1
  <2> QED BY <1>2, <1>3, <2>1, <2>2
<1>5. Stream!IsPrefix(Stream!Reverse(s), Stream!Reverse(t))
  BY <1>1, <1>2, <1>3, <1>4, Prefixes
<1> QED BY <1>5 DEF Stream!IsSuffix

StreamTypes == Stream!TypeOK /\ {s3, s4, s5} \subseteq Seq(Nat)

\* The n-th byte received or on its way is the n-th byte sent.
InOrder ==
  /\ Len(s4) + Len(s5) <= s1.asked /\ (s6 => s5 = << >>)
  /\ \A i \in 1 .. Len(s4) : s4[i] = i
  /\ \A i \in 1 .. Len(s5) : s5[i] = Len(s4) + i

\* sendAll() has handed over sentBytes of its size bytes, and all of those before.
Sending ==
  /\ s1.sentBytes <= s1.size /\ s1.size <= s1.asked
  /\ s1.pc = "send" => s1.open /\ s1.ret = "none"
  /\ s1.pc = "send" /\ ~s6 => Len(s4) + Len(s5) = (s1.asked - s1.size) + s1.sentBytes
  /\ s1.pc = "idle" /\ s1.open /\ ~s6 => Len(s4) + Len(s5) = s1.asked
  /\ s1.ret = "true" => s1.sentBytes = s1.size
  /\ s1.ret = "false" => ~s1.open

\* recvAll() has the last recvBytes bytes received in the caller's buffer.
Receiving ==
  /\ s2.pc = "recv" => /\ s2.ret = "none"
                       /\ s2.recvBytes < s2.size \/ (s2.size = 0 /\ s2.recvBytes = 0)
  /\ s2.pc = "recv" \/ s2.ret = "true" =>
       /\ Len(s3) = s2.recvBytes /\ Len(s3) <= Len(s4)
       /\ \A i \in 1 .. Len(s3) : s3[i] = (Len(s4) - Len(s3)) + i
  /\ s2.ret = "true" => s2.recvBytes = s2.size
  /\ s2.ret = "false" => ~s2.open \/ s2.size = 0

StreamInv == StreamTypes /\ InOrder /\ Sending /\ Receiving

\* A step of the sender keeps it ...
LEMMA SenderStep ==
  ASSUME StreamInv, Stream!SendAll \/ Stream!Send \/ Stream!CloseSender  PROVE StreamInv'
<1>0. /\ MaxBytes \in Nat /\ Window \in Nat /\ SndBuf \in Nat \ {0}
      /\ {s3, s4, s5} \subseteq Seq(Nat) /\ Len(s4) \in Nat /\ Len(s5) \in 0 .. Window
      /\ {s1.size, s1.sentBytes, s1.asked} \subseteq 0 .. MaxBytes
      /\ s1.sentBytes <= s1.size /\ s1.size <= s1.asked
  BY Bounds DEF StreamInv, StreamTypes, Stream!TypeOK, Sending
<1>1. CASE Stream!SendAll
  <2>0. UNCHANGED <<s2, s3, s4, s5, s6>> /\ s1.pc = "idle"
    BY <1>1 DEF Stream!SendAll
  <2>1. CASE ~s1.open
    <3>1. s1' = [s1 EXCEPT !.ret = "false"]
      BY <1>1, <2>1 DEF Stream!SendAll
    <3> QED BY <1>0, <2>0, <2>1, <3>1 
         DEF StreamInv, StreamTypes, Stream!TypeOK, InOrder, Sending, Receiving
  <2>2. CASE s1.open
    <3>1. PICK n \in 0 .. MaxBytes - s1.asked :
            s1' = [s1 EXCEPT !.pc = "send", !.size = n, !.sentBytes = 0,
                             !.asked = s1.asked + n, !.ret = "none"]
      BY <1>1, <2>2 DEF Stream!SendAll
    <3>2. s1.asked + n \in 0 .. MaxBytes /\ n \in 0 .. MaxBytes /\ 0 \in 0 .. MaxBytes
      BY <1>0
    <3>3. Stream!TypeOK'
      BY <2>0, <3>1, <3>2 DEF StreamInv, StreamTypes, Stream!TypeOK
    <3>4. /\ s1'.pc = "send" /\ s1'.size = n /\ s1'.sentBytes = 0 /\ s1'.ret = "none"
          /\ s1'.asked = s1.asked + n /\ s1'.open = s1.open
      BY <3>1 DEF StreamInv, StreamTypes, Stream!TypeOK
    <3>5. InOrder'
      BY <1>0, <2>0, <3>2, <3>4 DEF StreamInv, InOrder
    <3>6. Sending'
      BY <1>0, <2>0, <2>2, <3>2, <3>4, SMTT(30) DEF StreamInv, Sending
    <3>7. Receiving'
      BY <2>0 DEF StreamInv, Receiving
    <3> QED BY <2>0, <3>3, <3>5, <3>6, <3>7 DEF StreamInv, StreamTypes
  <2> QED BY <2>1, <2>2
<1>2. CASE Stream!Send
  <2>0. UNCHANGED <<s2, s3, s4, s6>> /\ s1.pc = "send"
    BY <1>2 DEF Stream!Send
  <2>1. ASSUME NEW bytes \in Nat, bytes <= s1.size - s1.sentBytes,
               bytes <= Window - Len(s5), ~s6,
               s5' = s5 \o Stream!Piece(bytes), s1' = Stream!Sent(bytes)
        PROVE  StreamInv'
    <3>a. PICK l4 \in Nat, l5 \in Nat, a \in Nat, z \in Nat, b \in Nat :
            /\ l4 = Len(s4) /\ l5 = Len(s5) /\ a = s1.asked /\ z = s1.size /\ b = s1.sentBytes
            /\ l5 <= Window /\ b <= z /\ z <= a /\ a <= MaxBytes
      <4>1. /\ Len(s4) \in Nat /\ Len(s5) \in Nat /\ s1.asked \in Nat
            /\ s1.size \in Nat /\ s1.sentBytes \in Nat /\ Len(s5) <= Window
            /\ s1.sentBytes <= s1.size /\ s1.size <= s1.asked /\ s1.asked <= MaxBytes
        BY <1>0
      <4> QED BY <4>1, Zenon
    <3>b. bytes <= z - b /\ l5 + bytes <= Window /\ l4 + l5 = (a - z) + b
      BY <1>0, <2>0, <2>1, <3>a DEF StreamInv, Sending
    <3> DEFINE first == l4 + l5
    <3>c. l4 + l5 = (a - z) + b /\ bytes <= z - b
      BY <3>b
    <3>d. (a - z) + b = (s1.asked - s1.size) + s1.sentBytes
      BY <3>a
    <3>e. l4 + l5 \in Nat /\ (l4 + l5) + bytes <= a
      BY <3>c
    <3>1. /\ first \in Nat /\ first = (s1.asked - s1.size) + s1.sentBytes
          /\ first = l4 + l5 /\ first + bytes <= a
      BY <3>c, <3>d, <3>e
    <3> HIDE DEF first
    <3>2. Stream!Piece(bytes) = Stream!Range1(first, first + bytes)
      BY <3>1 DEF Stream!Piece
    <3>3. /\ s5' \in Seq(Nat) /\ Len(s5') = Len(s5) + bytes
          /\ \A i \in 1 .. Len(s5) : s5'[i] = s5[i]
          /\ \A i \in 1 .. bytes : s5'[Len(s5) + i] = first + i
      <4>1. s5' = s5 \o Stream!Range1(first, first + bytes) /\ s5 \in Seq(Nat)
        BY <1>0, <2>1, <3>2
      <4>2. bytes \in Nat /\ first \in Nat
        BY <2>1, <3>1
      <4>3. \A n \in Nat : \A s \in Seq(Nat) : \A u :
              u = s \o Stream!Range1(first, first + n) =>
                /\ u \in Seq(Nat) /\ Len(u) = Len(s) + n
                /\ \A i \in 1 .. Len(s) : u[i] = s[i]
                /\ \A i \in 1 .. n : u[Len(s) + i] = first + i
        BY <4>2, Appending, ZenonT(60)
      <4>4. \A u : u = s5 \o Stream!Range1(first, first + bytes) =>
                /\ u \in Seq(Nat) /\ Len(u) = Len(s5) + bytes
                /\ \A i \in 1 .. Len(s5) : u[i] = s5[i]
                /\ \A i \in 1 .. bytes : u[Len(s5) + i] = first + i
        BY <4>1, <4>2, <4>3
      <4> QED BY <4>1, <4>4
    <3>4. first = Len(s4) + Len(s5)
      BY <3>a, <3>1
    <3>5. /\ s1'.sentBytes = s1.sentBytes + bytes /\ s1'.size = s1.size
          /\ s1'.asked = s1.asked /\ s1'.open = s1.open
          /\ s1'.pc = (IF s1.sentBytes + bytes = s1.size THEN "idle" ELSE "send")
          /\ s1'.ret = (IF s1.sentBytes + bytes = s1.size THEN "true" ELSE s1.ret)
      BY <2>0, <2>1 DEF Stream!Sent, StreamInv, StreamTypes, Stream!TypeOK
    <3>6. Stream!TypeOK'
      <4>1. s1.sentBytes + bytes \in 0 .. MaxBytes /\ Len(s5') <= Window
        <5>0. s1.sentBytes + bytes = b + bytes /\ z <= a /\ a <= MaxBytes
          BY <3>a
        <5>1. b + bytes <= MaxBytes /\ b + bytes \in Nat
          BY <1>0, <3>c, <5>0
        <5>2. Len(s5') = l5 + bytes
          BY <3>3, <3>a
        <5> QED BY <1>0, <3>b, <5>0, <5>1, <5>2
      <4>2. s1' \in [open : BOOLEAN, pc : {"idle", "send"}, size : 0 .. MaxBytes,
                     sentBytes : 0 .. MaxBytes, asked : 0 .. MaxBytes,
                     ret : {"none", "true", "false"}]
        BY <2>1, <4>1 DEF Stream!Sent, StreamInv, StreamTypes, Stream!TypeOK
      <4> QED BY <2>0, <4>1, <4>2, Zenon DEF StreamInv, StreamTypes, Stream!TypeOK
    <3>7. InOrder'
      <4>1. ASSUME NEW i \in 1 .. Len(s5')  PROVE s5'[i] = Len(s4) + i
        <5>1. CASE i <= Len(s5)
          BY <1>0, <3>3, <5>1 DEF StreamInv, InOrder
        <5>2. CASE i > Len(s5)
          <6>1. i - Len(s5) \in 1 .. bytes /\ Len(s5) + (i - Len(s5)) = i
            BY <1>0, <3>3, <5>2
          <6>2. s5'[i] = first + (i - Len(s5))
            BY <3>3, <6>1
          <6> QED BY <3>a, <3>1, <6>2
        <5> QED BY <1>0, <3>3, <5>1, <5>2
      <4>2. Len(s4') + Len(s5') <= s1'.asked
        BY <2>0, <3>a, <3>1, <3>3, <3>5
      <4>3. ~s6' /\ \A i \in 1 .. Len(s4') : s4'[i] = i
        BY <2>0, <2>1 DEF StreamInv, InOrder
      <4> QED BY <2>0, <4>1, <4>2, <4>3 DEF InOrder
    <3>8. Sending'
      <4>1. s1'.sentBytes <= s1'.size /\ s1'.size <= s1'.asked
        BY <3>a, <3>b, <3>5
      <4>a. /\ Len(s4') = l4 /\ Len(s5') = l5 + bytes /\ s1'.asked = a /\ s1'.size = z
            /\ s1'.sentBytes = b + bytes
        BY <2>0, <3>a, <3>3, <3>5
      <4>2. Len(s4') + Len(s5') = (s1'.asked - s1'.size) + s1'.sentBytes
        <5>1. l4 + (l5 + bytes) = (a - z) + (b + bytes)
          BY <3>c
        <5> QED BY <4>a, <5>1
      <4>3. /\ s1.open /\ s1.ret = "none" /\ s1'.open = s1.open
        BY <2>0, <3>5 DEF StreamInv, Sending
      <4>4. CASE s1.sentBytes + bytes = s1.size
        <5>1. s1'.pc = "idle" /\ s1'.ret = "true" /\ s1'.sentBytes = s1'.size
          BY <3>5, <4>4
        <5>2. Len(s4') + Len(s5') = s1'.asked
          <6>1. l4 + (l5 + bytes) = a
            <7>1. b + bytes = z
              BY <3>a, <4>4
            <7> QED BY <3>c, <7>1
          <6> QED BY <4>a, <6>1
        <5> QED BY <4>1, <5>1, <5>2 DEF Sending
      <4>5. CASE s1.sentBytes + bytes # s1.size
        <5>1. s1'.pc = "send" /\ s1'.ret = "none"
          BY <3>5, <4>3, <4>5
        <5> QED BY <4>1, <4>2, <4>3, <5>1, Zenon DEF Sending
      <4> QED BY <4>4, <4>5
    <3>9. Receiving'
      BY <2>0 DEF StreamInv, Receiving
    <3>10. {s3, s4, s5}' \subseteq Seq(Nat)
      BY <1>0, <2>0, <3>3
    <3> QED BY <3>6, <3>7, <3>8, <3>9, <3>10, Zenon DEF StreamInv, StreamTypes
  <2>2. ASSUME s1' = Stream!SendFails, UNCHANGED s5  PROVE StreamInv'
    <3>1. s1' = [s1 EXCEPT !.open = FALSE, !.pc = "idle", !.ret = "false"]
      BY <2>2 DEF Stream!SendFails
    <3>2. /\ ~s1'.open /\ s1'.pc = "idle" /\ s1'.ret = "false"
          /\ s1'.size = s1.size /\ s1'.sentBytes = s1.sentBytes /\ s1'.asked = s1.asked
      BY <3>1, Zenon DEF StreamInv, StreamTypes, Stream!TypeOK
    <3>3. Stream!TypeOK'
      BY <2>0, <2>2, <3>1 DEF StreamInv, StreamTypes, Stream!TypeOK
    <3>4. InOrder' /\ Sending' /\ Receiving'
      BY <2>0, <2>2, <3>2 DEF StreamInv, InOrder, Sending, Receiving
    <3> QED BY <1>0, <2>0, <2>2, <3>3, <3>4 DEF StreamInv, StreamTypes
  <2>3. \/ \E bytes \in Nat : /\ bytes <= s1.size - s1.sentBytes /\ bytes <= Window - Len(s5)
                              /\ ~s6 /\ s5' = s5 \o Stream!Piece(bytes)
                              /\ s1' = Stream!Sent(bytes)
        \/ s1' = Stream!SendFails /\ UNCHANGED s5
    <3> DEFINE left == s1.size - s1.sentBytes
               bufnum == IF left > SndBuf THEN SndBuf ELSE left
               bytesTaken == (IF bufnum = 0 THEN 0 ELSE 1) .. Stream!Least(bufnum, Window - Len(s5))
    <3>1. left \in Nat /\ bufnum \in Nat /\ bufnum <= left
      BY <1>0
    <3>2. PICK room \in Nat : room = Window - Len(s5)
      <4>1. Window - Len(s5) \in Nat
        BY <1>0
      <4> QED BY <4>1
    <3>3. ASSUME NEW bytes \in bytesTaken
          PROVE  bytes \in Nat /\ bytes <= left /\ bytes <= Window - Len(s5)
      <4>1. bytes \in (IF bufnum = 0 THEN 0 ELSE 1) .. Stream!Least(bufnum, room)
        BY <3>2
      <4> HIDE DEF left, bufnum
      <4> QED BY <3>1, <3>2, <4>1 DEF Stream!Least
    <3>4. \/ \E bytes \in bytesTaken :
                ~s6 /\ s5' = s5 \o Stream!Piece(bytes) /\ s1' = Stream!Sent(bytes)
          \/ s1' = Stream!SendFails /\ UNCHANGED s5
      BY <1>2, Zenon DEF Stream!Send
    <3> HIDE DEF bytesTaken
    <3> QED BY <3>3, <3>4, Zenon
  <2> QED BY <2>1, <2>2, <2>3, Zenon
<1>3. CASE Stream!CloseSender
  <2>1. /\ s1.pc = "idle" /\ s1' = [s1 EXCEPT !.open = FALSE]
        /\ UNCHANGED <<s2, s3, s4, s5, s6>>
    BY <1>3 DEF Stream!CloseSender
  <2>2. /\ ~s1'.open /\ s1'.pc = s1.pc /\ s1'.ret = s1.ret
        /\ s1'.size = s1.size /\ s1'.sentBytes = s1.sentBytes /\ s1'.asked = s1.asked
    BY <2>1, Zenon DEF StreamInv, StreamTypes, Stream!TypeOK
  <2>3. Stream!TypeOK'
    BY <2>1 DEF StreamInv, StreamTypes, Stream!TypeOK
  <2>4. InOrder' /\ Sending' /\ Receiving'
    BY <2>1, <2>2 DEF StreamInv, InOrder, Sending, Receiving
  <2> QED BY <1>0, <2>1, <2>3, <2>4 DEF StreamInv, StreamTypes
<1> QED BY <1>1, <1>2, <1>3

\* ... and so does one of the receiver ...
LEMMA ReceiverStep ==
  ASSUME StreamInv, Stream!RecvAll \/ Stream!Recv \/ Stream!Peek  PROVE StreamInv'
<1>0. /\ MaxBytes \in Nat /\ Window \in Nat /\ RcvBuf \in Nat \ {0}
      /\ s3 \in Seq(Nat) /\ s4 \in Seq(Nat) /\ s5 \in Seq(Nat)
      /\ Len(s4) \in Nat /\ Len(s5) \in 0 .. Window
      /\ {s2.size, s2.recvBytes} \subseteq 0 .. MaxBytes
  BY Bounds DEF StreamInv, StreamTypes, Stream!TypeOK
<1>1. CASE Stream!RecvAll
  <2>0. UNCHANGED <<s1, s4, s5, s6>> /\ s2.pc = "idle" /\ s3' = << >>
    BY <1>1 DEF Stream!RecvAll
  <2>1. InOrder' /\ Sending'
    BY <2>0 DEF StreamInv, InOrder, Sending
  <2>2. PICK n \in 0 .. MaxBytes :
          s2' = IF ~s2.open THEN [s2 EXCEPT !.ret = "false", !.size = n]
                ELSE [s2 EXCEPT !.pc = "recv", !.size = n, !.recvBytes = 0, !.ret = "none"]
    BY <1>1 DEF Stream!RecvAll
  <2>3. CASE ~s2.open
    <3>1. s2' = [s2 EXCEPT !.ret = "false", !.size = n]
      BY <2>2, <2>3
    <3>2. Stream!TypeOK'
      BY <2>0, <3>1 DEF StreamInv, StreamTypes, Stream!TypeOK
    <3>3. s2'.pc = "idle" /\ s2'.ret = "false" /\ s2'.open = s2.open
      BY <2>0, <3>1 DEF StreamInv, StreamTypes, Stream!TypeOK
    <3>4. Receiving'
      BY <2>3, <3>3 DEF Receiving
    <3> QED BY <1>0, <2>0, <2>1, <3>2, <3>4 DEF StreamInv, StreamTypes
  <2>4. CASE s2.open
    <3>1. s2' = [s2 EXCEPT !.pc = "recv", !.size = n, !.recvBytes = 0, !.ret = "none"]
      BY <2>2, <2>4
    <3>2. Stream!TypeOK'
      <4>1. 0 \in 0 .. MaxBytes
        BY <1>0
      <4> QED BY <2>0, <3>1, <4>1 DEF StreamInv, StreamTypes, Stream!TypeOK
    <3>3. s2'.pc = "recv" /\ s2'.ret = "none" /\ s2'.size = n /\ s2'.recvBytes = 0
      BY <3>1 DEF StreamInv, StreamTypes, Stream!TypeOK
    <3>4. Len(s3') = 0 /\ n \in Nat
      BY <1>0, <2>0
    <3>5. Receiving'
      BY <1>0, <2>0, <3>3, <3>4 DEF Receiving
    <3> QED BY <1>0, <2>0, <2>1, <3>2, <3>5 DEF StreamInv, StreamTypes
  <2> QED BY <2>3, <2>4
<1>2. CASE Stream!Recv
  <2>0. UNCHANGED <<s1, s6>> /\ s2.pc = "recv" /\ s2.ret = "none"
    BY <1>2 DEF Stream!Recv, StreamInv, Receiving
  <2> DEFINE left == s2.size - s2.recvBytes
             bufnum == IF left > RcvBuf THEN RcvBuf ELSE left
  <2>1. left \in Nat /\ bufnum \in Nat /\ bufnum <= left /\ (bufnum = 0 => s2.size = 0)
    BY <1>0, <2>0, SMTT(30) DEF StreamInv, Receiving
  <2>2. ASSUME s2' = [s2 EXCEPT !.open = ~(bufnum > 0), !.pc = "idle", !.ret = "false"],
               UNCHANGED <<s3, s4, s5>>
        PROVE  StreamInv'
    <3>1. PICK open \in BOOLEAN :
            /\ s2' = [s2 EXCEPT !.open = open, !.pc = "idle", !.ret = "false"]
            /\ open <=> ~(bufnum > 0)
      BY <2>2, Zenon
    <3>2. Stream!TypeOK'
      BY <2>0, <2>2, <3>1, Zenon DEF StreamInv, StreamTypes, Stream!TypeOK
    <3>3. /\ s2'.pc = "idle" /\ s2'.ret = "false" /\ s2'.size = s2.size /\ s2'.open = open
      BY <3>1, Zenon DEF StreamInv, StreamTypes, Stream!TypeOK
    <3>4. Receiving'
      <4>1. ~open \/ s2.size = 0
        BY <2>1, <3>1
      <4> QED BY <3>3, <4>1, Zenon DEF Receiving
    <3>5. InOrder' /\ Sending'
      BY <2>0, <2>2 DEF StreamInv, InOrder, Sending
    <3> QED BY <1>0, <2>2, <3>2, <3>4, <3>5 DEF StreamInv, StreamTypes
  <2>3. ASSUME NEW got \in 1 .. Len(s5), got <= left, ~s6,
               s3' = s3 \o SubSeq(s5, 1, got), s4' = s4 \o SubSeq(s5, 1, got),
               s5' = SubSeq(s5, got + 1, Len(s5)),
               s2' = [s2 EXCEPT !.recvBytes = s2.recvBytes + got,
                                !.pc = IF s2.recvBytes + got = s2.size THEN "idle" ELSE @,
                                !.ret = IF s2.recvBytes + got = s2.size THEN "true" ELSE @]
        PROVE  StreamInv'
    <3>a. PICK l3 \in Nat, l4 \in Nat, l5 \in Nat, z \in Nat, b \in Nat :
            /\ l3 = Len(s3) /\ l4 = Len(s4) /\ l5 = Len(s5) /\ z = s2.size /\ b = s2.recvBytes
      <4>1. /\ Len(s3) \in Nat /\ Len(s4) \in Nat /\ Len(s5) \in Nat
            /\ s2.size \in Nat /\ s2.recvBytes \in Nat
        BY <1>0
      <4> QED BY <4>1, Zenon
    <3>b. /\ got \in Nat /\ got <= l5 /\ l5 <= Window /\ z <= MaxBytes /\ b + got <= z
          /\ l3 = b /\ l3 <= l4
      <4>1. got <= z - b /\ l3 = b /\ l3 <= l4
        BY <2>0, <2>3, <3>a DEF StreamInv, Receiving
      <4>2. got \in Nat /\ got <= l5 /\ l5 <= Window /\ z <= MaxBytes
        BY <1>0, <2>3, <3>a, SMTT(30)
      <4> QED BY <4>1, <4>2
    <3>1. /\ s3' \in Seq(Nat) /\ Len(s3') = Len(s3) + got
          /\ \A i \in 1 .. Len(s3) : s3'[i] = s3[i]
          /\ \A i \in 1 .. got : s3'[Len(s3) + i] = s5[i]
      <4>1. s3' = s3 \o SubSeq(s5, 1, got) /\ {s3, s5} \subseteq Seq(Nat)
        BY <1>0, <2>3
      <4>2. s3' \in Seq(Nat) /\ Len(s3') = Len(s3) + got
        BY <4>1, BytesMove
      <4>3. \A i \in 1 .. Len(s3) : s3'[i] = s3[i]
        BY <4>1, BytesMove
      <4>4. \A i \in 1 .. got : s3'[Len(s3) + i] = s5[i]
        BY <4>1, BytesMove
      <4> QED BY <4>2, <4>3, <4>4
    <3>2. /\ s4' \in Seq(Nat) /\ Len(s4') = Len(s4) + got
          /\ \A i \in 1 .. Len(s4) : s4'[i] = s4[i]
          /\ \A i \in 1 .. got : s4'[Len(s4) + i] = s5[i]
      <4>1. s4' = s4 \o SubSeq(s5, 1, got) /\ {s4, s5} \subseteq Seq(Nat)
        BY <1>0, <2>3
      <4>2. s4' \in Seq(Nat) /\ Len(s4') = Len(s4) + got
        BY <4>1, BytesMove
      <4>3. \A i \in 1 .. Len(s4) : s4'[i] = s4[i]
        BY <4>1, BytesMove
      <4>4. \A i \in 1 .. got : s4'[Len(s4) + i] = s5[i]
        BY <4>1, BytesMove
      <4> QED BY <4>2, <4>3, <4>4
    <3>3. /\ s5' \in Seq(Nat) /\ Len(s5') = Len(s5) - got
          /\ \A i \in 1 .. Len(s5) - got : s5'[i] = s5[got + i]
      <4>1. s5' = SubSeq(s5, got + 1, Len(s5)) /\ s5 \in Seq(Nat)
        BY <1>0, <2>3
      <4>2. s5' \in Seq(Nat) /\ Len(s5') = Len(s5) - got
        BY <4>1, BytesLeft
      <4>3. \A i \in 1 .. Len(s5) - got : s5'[i] = s5[got + i]
        BY <4>1, BytesLeft
      <4> QED BY <4>2, <4>3
    <3>c. \A i \in 1 .. l5 : s5[i] = l4 + i
      BY <3>a DEF StreamInv, InOrder
    <3>4. /\ s2'.recvBytes = b + got /\ s2'.size = z /\ s2'.open = s2.open
          /\ s2'.pc = (IF b + got = z THEN "idle" ELSE "recv")
          /\ s2'.ret = (IF b + got = z THEN "true" ELSE "none")
      BY <2>0, <2>3, <3>a DEF StreamInv, StreamTypes, Stream!TypeOK
    <3>5. Stream!TypeOK'
      <4>1. s2.recvBytes + got \in 0 .. MaxBytes /\ Len(s5') <= Window
        <5>1. b + got \in 0 .. MaxBytes /\ l5 - got <= Window
          BY <1>0, <3>b
        <5> QED BY <3>a, <3>3, <5>1
      <4>2. s2' \in [open : BOOLEAN, pc : {"idle", "recv"}, size : 0 .. MaxBytes,
                     recvBytes : 0 .. MaxBytes, ret : {"none", "true", "false"}]
        BY <2>3, <4>1 DEF StreamInv, StreamTypes, Stream!TypeOK
      <4> QED BY <2>0, <4>1, <4>2, Zenon DEF StreamInv, StreamTypes, Stream!TypeOK
    <3>6. InOrder'
      <4>1. ASSUME NEW i \in 1 .. Len(s4')  PROVE s4'[i] = i
        <5>1. CASE i <= l4
          BY <3>a, <3>2, <5>1 DEF StreamInv, InOrder
        <5>2. CASE i > l4
          <6>1. i - l4 \in 1 .. got /\ l4 + (i - l4) = i
            BY <3>a, <3>b, <3>2, <5>2
          <6>2. s4'[i] = s5[i - l4]
            BY <3>a, <3>2, <6>1
          <6>3. s5[i - l4] = i
            BY <3>b, <3>c, <6>1
          <6> QED BY <6>2, <6>3
        <5> QED BY <3>a, <3>b, <3>2, <5>1, <5>2
      <4>2. ASSUME NEW i \in 1 .. Len(s5')  PROVE s5'[i] = Len(s4') + i
        <5>1. got + i \in 1 .. l5 /\ s5'[i] = s5[got + i]
          BY <3>a, <3>b, <3>3
        <5>2. s5[got + i] = l4 + (got + i) /\ Len(s4') = l4 + got
          BY <3>a, <3>c, <3>2, <5>1
        <5> QED BY <3>b, <5>1, <5>2
      <4>3. Len(s4') + Len(s5') <= s1'.asked /\ ~s6'
        <5>1. l4 + l5 <= s1.asked
          BY <3>a DEF StreamInv, InOrder
        <5>2. Len(s4') = l4 + got /\ Len(s5') = l5 - got
          BY <3>a, <3>2, <3>3
        <5>3. (l4 + got) + (l5 - got) = l4 + l5
          BY <3>b
        <5> QED BY <2>0, <2>3, <5>1, <5>2, <5>3
      <4> QED BY <4>1, <4>2, <4>3 DEF InOrder
    <3>7. Sending'
      <4>1. Len(s4') + Len(s5') = Len(s4) + Len(s5)
        <5>1. Len(s4') = l4 + got /\ Len(s5') = l5 - got
          BY <3>a, <3>2, <3>3
        <5>2. (l4 + got) + (l5 - got) = l4 + l5
          BY <3>b
        <5> QED BY <3>a, <5>1, <5>2
      <4> QED BY <2>0, <4>1 DEF StreamInv, Sending
    <3>8. Receiving'
      <4>1. Len(s3') = b + got /\ Len(s4') = l4 + got /\ b + got <= l4 + got
        <5>1. b + got <= l4 + got
          BY <3>b
        <5> QED BY <3>a, <3>b, <3>1, <3>2, <5>1
      <4>2. ASSUME NEW i \in 1 .. b + got  PROVE s3'[i] = ((l4 + got) - (b + got)) + i
        <5>1. CASE i <= b
          <6>1. s3'[i] = s3[i] /\ i \in 1 .. l3
            BY <3>a, <3>b, <3>1, <5>1, SMTT(90)
          <6>2. s3[i] = (l4 - l3) + i
            BY <2>0, <3>a, <6>1 DEF StreamInv, Receiving
          <6> QED BY <3>b, <6>1, <6>2
        <5>2. CASE i > b
          <6>1. i - b \in 1 .. got /\ b + (i - b) = i
            BY <3>b, <5>2
          <6>2. s3'[i] = s5[i - b]
            <7>1. s3'[Len(s3) + (i - b)] = s5[i - b]
              BY <3>1, <6>1
            <7>2. Len(s3) + (i - b) = i
              BY <3>a, <3>b, <6>1
            <7> QED BY <7>1, <7>2, Zenon
          <6>3. s5[i - b] = l4 + (i - b)
            BY <3>b, <3>c, <6>1
          <6> QED BY <3>b, <6>2, <6>3
        <5> QED BY <3>b, <5>1, <5>2
      <4>a. /\ Len(s3') = s2'.recvBytes /\ Len(s3') <= Len(s4')
            /\ \A i \in 1 .. Len(s3') : s3'[i] = (Len(s4') - Len(s3')) + i
        BY <3>4, <4>1, <4>2
      <4>3. CASE b + got = z
        <5>1. s2'.pc = "idle" /\ s2'.ret = "true" /\ s2'.recvBytes = s2'.size
          BY <3>4, <4>3
        <5> QED BY <4>a, <5>1, Zenon DEF Receiving
      <4>4. CASE b + got # z
        <5>1. s2'.pc = "recv" /\ s2'.ret = "none" /\ s2'.recvBytes < s2'.size
          BY <3>b, <3>4, <4>4
        <5>2. s2'.ret # "true" /\ s2'.ret # "false"
          BY <5>1
        <5> QED BY <4>a, <5>1, <5>2, Zenon DEF Receiving
      <4> QED BY <4>3, <4>4
    <3> QED BY <3>1, <3>2, <3>3, <3>5, <3>6, <3>7, <3>8 DEF StreamInv, StreamTypes
  <2> HIDE DEF left, bufnum
  <2>4. PICK got \in Stream!RecvAnswers(bufnum) :
          IF got <= 0
          THEN /\ s2' = [s2 EXCEPT !.open = ~(bufnum > 0), !.pc = "idle", !.ret = "false"]
               /\ UNCHANGED <<s3, s4, s5>>
          ELSE /\ s3' = s3 \o SubSeq(s5, 1, got) /\ s4' = s4 \o SubSeq(s5, 1, got)
               /\ s5' = SubSeq(s5, got + 1, Len(s5))
               /\ s2' = [s2 EXCEPT !.recvBytes = s2.recvBytes + got,
                           !.pc = IF s2.recvBytes + got = s2.size THEN "idle" ELSE @,
                           !.ret = IF s2.recvBytes + got = s2.size THEN "true" ELSE @]
    BY <1>2, Zenon DEF Stream!Recv, left, bufnum
  <2>5. ASSUME ~(got <= 0)  PROVE got \in 1 .. Len(s5) /\ got <= left /\ ~s6
    <3>1. s6 \in BOOLEAN
      BY Zenon DEF StreamInv, StreamTypes, Stream!TypeOK
    <3>2. PICK l5 \in Nat : l5 = Len(s5)
      BY <1>0
    <3>3. ~s6 /\ bufnum # 0 /\ s5 # << >>
      BY <2>1, <2>5 DEF Stream!RecvAnswers
    <3>4. got \in 1 .. Stream!Least(bufnum, l5)
      BY <2>5, <3>2, <3>3 DEF Stream!RecvAnswers
    <3> QED BY <2>1, <3>2, <3>3, <3>4 DEF Stream!Least
  <2> QED BY <2>2, <2>3, <2>4, <2>5, Zenon
<1>3. CASE Stream!Peek
  <2>0. UNCHANGED <<s1, s3, s4, s5, s6>> /\ s2.pc = "idle"
    BY <1>3 DEF Stream!Peek
  <2>1. PICK open \in BOOLEAN : s2' = [s2 EXCEPT !.open = open, !.ret = "none"]
    <3>1. PICK got \in Stream!RecvAnswers(1) : s2' = [s2 EXCEPT !.open = (got > 0), !.ret = "none"]
      BY <1>3 DEF Stream!Peek
    <3>2. (got > 0) \in BOOLEAN
      OBVIOUS
    <3> QED BY <3>1, <3>2, Zenon
  <2>2. Stream!TypeOK'
    BY <2>0, <2>1 DEF StreamInv, StreamTypes, Stream!TypeOK
  <2>3. s2'.pc = "idle" /\ s2'.ret = "none"
    BY <2>0, <2>1, Zenon DEF StreamInv, StreamTypes, Stream!TypeOK
  <2>4. InOrder' /\ Sending' /\ Receiving'
    BY <2>0, <2>3 DEF StreamInv, InOrder, Sending, Receiving
  <2> QED BY <1>0, <2>0, <2>2, <2>4 DEF StreamInv, StreamTypes
<1> QED BY <1>1, <1>2, <1>3

\* ... and the connection's breaking.
LEMMA StreamStep == StreamInv /\ [Stream!Next]_(Stream!vars) => StreamInv'
<1> SUFFICES ASSUME StreamInv, [Stream!Next]_(Stream!vars)  PROVE StreamInv'
  OBVIOUS
<1>1. CASE Stream!Reset
  <2>1. UNCHANGED <<s1, s2, s3, s4>> /\ s6' = TRUE /\ s5' = << >>
    BY <1>1 DEF Stream!Reset
  <2>2. s6' \in BOOLEAN /\ s6'
    BY <2>1, Zenon
  <2>3. Len(s5') = 0 /\ s5' \in Seq(Nat) /\ Window \in Nat
    BY <2>1, Bounds
  <2>4. Stream!TypeOK'
    <3>1. Len(s5') <= Window
      BY <2>3
    <3> QED BY <2>1, <2>2, <3>1, Zenon DEF StreamInv, StreamTypes, Stream!TypeOK
  <2>5. InOrder'
    <3>1. Len(s4) + 0 <= s1.asked
      <4>1. PICK l4 \in Nat, l5 \in Nat : l4 = Len(s4) /\ l5 = Len(s5) /\ s1.asked \in Nat
        BY Bounds DEF StreamInv, StreamTypes, Stream!TypeOK
      <4> QED BY <4>1 DEF StreamInv, InOrder
    <3> QED BY <2>1, <2>3, <3>1 DEF StreamInv, InOrder
  <2>6. Sending'
    BY <2>1, <2>2 DEF StreamInv, Sending
  <2>7. Receiving'
    BY <2>1 DEF StreamInv, Receiving
  <2>8. {s3, s4, s5}' \subseteq Seq(Nat)
    BY <2>1, <2>3 DEF StreamInv, StreamTypes
  <2> QED BY <2>4, <2>5, <2>6, <2>7, <2>8, Zenon DEF StreamInv, StreamTypes
<1>2. CASE UNCHANGED Stream!vars
  BY <1>2 DEF Stream!vars, StreamInv, StreamTypes, Stream!TypeOK, InOrder, Sending, Receiving
<1> QED BY <1>1, <1>2, SenderStep, ReceiverStep DEF Stream!Next

\* The invariant holds of a new connection and gives what the run checks.
LEMMA StreamInit == Stream!Init => StreamInv
<1> SUFFICES ASSUME Stream!Init  PROVE StreamInv
  OBVIOUS
<1>1. /\ s1 = [open |-> TRUE, pc |-> "idle", size |-> 0, sentBytes |-> 0, asked |-> 0, ret |-> "none"]
      /\ s2 = [open |-> TRUE, pc |-> "idle", size |-> 0, recvBytes |-> 0, ret |-> "none"]
      /\ s3 = << >> /\ s4 = << >> /\ s5 = << >> /\ s6 = FALSE
  BY DEF Stream!Init
<1>2. 0 \in 0 .. MaxBytes /\ Len(s5) = 0 /\ Len(s4) = 0 /\ Len(s5) <= Window
  BY <1>1, Bounds
<1>3. StreamTypes
  <2>1. /\ s1 \in [open : BOOLEAN, pc : {"idle", "send"}, size : 0 .. MaxBytes, sentBytes : 0 .. MaxBytes,
                   asked : 0 .. MaxBytes, ret : {"none", "true", "false"}]
        /\ s2 \in [open : BOOLEAN, pc : {"idle", "recv"}, size : 0 .. MaxBytes,
                   recvBytes : 0 .. MaxBytes, ret : {"none", "true", "false"}]
    BY <1>1, <1>2
  <2>2. {s3, s4, s5} \subseteq Seq(Nat)
    BY <1>1
  <2>3. s6 \in BOOLEAN
    BY <1>1, Zenon
  <2> QED BY <1>2, <2>1, <2>2, <2>3, Zenon DEF StreamTypes, Stream!TypeOK
<1>4. InOrder /\ Sending /\ Receiving
  BY <1>1, <1>2 DEF InOrder, Sending, Receiving
<1> QED BY <1>3, <1>4 DEF StreamInv

LEMMA StreamIsSound ==
  StreamInv => Stream!TypeOK /\ Stream!StreamInOrder /\ Stream!AllOrClosed
<1> SUFFICES ASSUME StreamInv
             PROVE  Stream!StreamInOrder /\ Stream!AllOrClosed
  BY DEF StreamInv, StreamTypes
<1>0. /\ s3 \in Seq(Nat) /\ s4 \in Seq(Nat) /\ s5 \in Seq(Nat) /\ s1.asked \in Nat
      /\ Len(s3) \in Nat /\ Len(s4) \in Nat /\ Len(s5) \in Nat
      /\ s2.pc \in {"idle", "recv"}
  BY Bounds DEF StreamInv, StreamTypes, Stream!TypeOK
<1>1. Stream!StreamInOrder
  <2>1. Stream!Range1(0, s1.asked) = [i \in 1 .. s1.asked |-> i]
    BY <1>0 DEF Stream!Range1
  <2>2. /\ Stream!Range1(0, s1.asked) \in Seq(Nat) /\ Len(Stream!Range1(0, s1.asked)) = s1.asked
        /\ \A i \in 1 .. s1.asked : Stream!Range1(0, s1.asked)[i] = i
    BY <1>0, <2>1
  <2>3. /\ s4 \o s5 \in Seq(Nat) /\ Len(s4 \o s5) = Len(s4) + Len(s5)
        /\ \A i \in 1 .. Len(s4) + Len(s5) : (s4 \o s5)[i] = IF i <= Len(s4) THEN s4[i] ELSE s5[i - Len(s4)]
    BY <1>0, ConcatProperties, Zenon
  <2>4. ASSUME NEW i \in 1 .. Len(s4 \o s5)
        PROVE  (s4 \o s5)[i] = Stream!Range1(0, s1.asked)[i]
    <3>1. PICK l4 \in Nat, l5 \in Nat : l4 = Len(s4) /\ l5 = Len(s5) /\ l4 + l5 <= s1.asked
      BY <1>0 DEF StreamInv, InOrder
    <3>2. i \in 1 .. l4 + l5 /\ Stream!Range1(0, s1.asked)[i] = i
      BY <1>0, <2>2, <2>3, <3>1
    <3>3. CASE i <= l4
      BY <2>3, <3>1, <3>2, <3>3 DEF StreamInv, InOrder
    <3>4. CASE ~(i <= l4)
      <4>1. i - l4 \in 1 .. l5 /\ l4 + (i - l4) = i
        BY <3>1, <3>2, <3>4
      <4>2. (s4 \o s5)[i] = s5[i - l4]
        BY <2>3, <3>1, <3>2, <3>4
      <4>3. s5[i - l4] = l4 + (i - l4)
        BY <3>1, <4>1 DEF StreamInv, InOrder
      <4> QED BY <3>2, <4>1, <4>2, <4>3
    <3> QED BY <3>3, <3>4
  <2>5. Len(s4 \o s5) <= Len(Stream!Range1(0, s1.asked))
    BY <2>2, <2>3 DEF StreamInv, InOrder
  <2>6. Stream!IsPrefix(s4 \o s5, Stream!Range1(0, s1.asked))
    BY <2>2, <2>3, <2>4, <2>5, Prefixes
  <2> QED BY <2>6 DEF Stream!StreamInOrder
<1>2. Stream!AllOrClosed
  <2>1. ASSUME s2.ret = "true"  PROVE Len(s3) = s2.size /\ Stream!IsSuffix(s3, s4)
    <3>1. /\ Len(s3) = s2.size /\ Len(s3) <= Len(s4)
          /\ \A i \in 1 .. Len(s3) : s3[i] = (Len(s4) - Len(s3)) + i
      BY <2>1, Zenon DEF StreamInv, Receiving
    <3>2. \A i \in 1 .. Len(s4) : s4[i] = i
      BY DEF StreamInv, InOrder
    <3>3. ASSUME NEW i \in 1 .. Len(s3)  PROVE s3[i] = s4[(Len(s4) - Len(s3)) + i]
      <4>1. PICK l3 \in Nat, l4 \in Nat : l3 = Len(s3) /\ l4 = Len(s4) /\ l3 <= l4
        BY <1>0, <3>1
      <4>2. (l4 - l3) + i \in 1 .. l4
        BY <4>1
      <4> QED BY <3>1, <3>2, <4>1, <4>2
    <3>4. Stream!IsSuffix(s3, s4)
      BY <1>0, <3>1, <3>3, Suffixes
    <3> QED BY <3>1, <3>4
  <2>2. s2.ret = "false" => ~s2.open \/ s2.size = 0
    BY Zenon DEF StreamInv, Receiving
  <2>3. /\ s1.ret = "true" => s1.sentBytes = s1.size
        /\ s1.ret = "false" => ~s1.open
        /\ s1.pc = "idle" /\ s1.open /\ ~s6 => Len(s4) + Len(s5) = s1.asked
    BY Zenon DEF StreamInv, Sending
  <2> QED BY <2>1, <2>2, <2>3, Zenon DEF Stream!AllOrClosed
<1> QED BY <1>1, <1>2
-----------------------------------------------------------------------------
(* SocketCalls: s1 is sock, s2 kernel, s3 call, s4 ret                       *)

KernelType == [conn : {"none", "trying", "up", "failed"}, peer : Calls!Addresses, nonblock : BOOLEAN,
               bound : BOOLEAN, listening : BOOLEAN, backlog : 0 .. Backlog, ttl : BOOLEAN,
               broadcast : BOOLEAN, groups : SUBSET Calls!Addresses]

SockType == [sock : BOOLEAN, family : Calls!Families, type : Calls!Types,
             local_addr : Calls!Addresses
               \cup {Calls!A!HostAddress(f, AnyHost, 1) : f \in {"IPv4", "IPv6"}},
             to_addr : Calls!Addresses, from_addr : Calls!Addresses]

CallType == [pc : {"idle", "nonblock", "connect", "select", "restore", "getpeername"},
             to : Calls!Addresses]

CallsTypes == /\ s1 \in SockType /\ s2 \in KernelType /\ s3 \in CallType
              /\ s4 \in {"none", "true", "false"}

\* connect() has an open socket all the way, and knows whether it is non-blocking.
Connecting ==
  /\ s3.pc # "idle" => s1.sock
  /\ s3.pc \in {"idle", "nonblock", "getpeername"} => ~s2.nonblock

CallsInv == CallsTypes /\ Connecting /\ Calls!ConnectTells /\ Calls!AddressesAreCurrent

\* isBound() asks whether there is a local address.
LEMMA BoundIs == Calls!IsBound <=> s1.local_addr # Calls!A!Unset
BY DEF Calls!IsBound, Calls!A!Same, Calls!A!Unset

LEMMA CallsInit == Calls!Init => CallsInv
<1> SUFFICES ASSUME Calls!Init  PROVE CallsInv
  OBVIOUS
<1>1. /\ s1 = Calls!Closed /\ s2 = Calls!NoKernel /\ s4 = "none"
      /\ s3 = [pc |-> "idle", to |-> Calls!A!Unset]
  BY DEF Calls!Init
<1>2. Calls!A!Unset \in Calls!Addresses /\ 0 \in 0 .. Backlog
  BY Bounds DEF Calls!Addresses
<1>3. CallsTypes
  <2>1. s2 \in KernelType
    BY <1>1, <1>2 DEF KernelType, Calls!NoKernel
  <2>2. s1 \in SockType
    BY <1>1, <1>2 DEF SockType, Calls!Closed, Calls!Families, Calls!Types
  <2>3. s3 \in CallType
    BY <1>1, <1>2 DEF CallType
  <2> QED BY <1>1, <2>1, <2>2, <2>3 DEF CallsTypes
<1>4. Connecting /\ Calls!ConnectTells
  BY <1>1 DEF Connecting, Calls!ConnectTells, Calls!Closed, Calls!NoKernel
<1>5. Calls!AddressesAreCurrent
  BY <1>1, BoundIs DEF Calls!AddressesAreCurrent, Calls!Closed, Calls!NoKernel
<1> QED BY <1>3, <1>4, <1>5 DEF CallsInv

LEMMA CallsAreTyped == CallsInv => Calls!TypeOK
<1> SUFFICES ASSUME CallsInv  PROVE Calls!TypeOK
  OBVIOUS
<1>1. s2.conn \in {"none", "trying", "up", "failed"} /\ s2.backlog \in 0 .. Backlog
  BY DEF CallsInv, CallsTypes, KernelType
<1>2. s3.pc \in {"idle", "nonblock", "connect", "select", "restore", "getpeername"}
  BY DEF CallsInv, CallsTypes, CallType
<1> QED BY <1>1, <1>2 DEF CallsInv, CallsTypes, SockType, Calls!TypeOK

\* What there is to show when neither connect() has succeeded nor the socket is closed.
LEMMA OpenKeeps ==
  ASSUME CallsTypes', Connecting', Calls!ConnectTells', s1'.sock,
         s1'.local_addr # Calls!A!Unset <=> s2'.bound,
         s2'.groups # {} => s1'.type = "UDP" /\ s1'.family # "Local"
  PROVE  CallsInv'
<1>1. Calls!IsBound' <=> s1'.local_addr # Calls!A!Unset
  BY DEF Calls!IsBound, Calls!A!Same, Calls!A!Unset
<1>2. Calls!AddressesAreCurrent'
  BY <1>1, Zenon DEF Calls!AddressesAreCurrent
<1> QED BY <1>2 DEF CallsInv

\* A step that only touches the connection, the queue or the options of the kernel.
LEMMA KernelKeeps ==
  ASSUME CallsInv, s1.sock, s1' = s1, s2' \in KernelType, s3' \in CallType,
         s4' \in {"none", "true", "false"}, s2'.bound = s2.bound, s2'.groups = s2.groups,
         Connecting', Calls!ConnectTells'
  PROVE  CallsInv'
<1>1. CallsTypes'
  BY DEF CallsInv, CallsTypes
<1>2. s1.local_addr # Calls!A!Unset <=> s2.bound
  BY BoundIs, Zenon DEF CallsInv, Calls!AddressesAreCurrent
<1>3. s2.groups # {} => s1.type = "UDP" /\ s1.family # "Local"
  BY Zenon DEF CallsInv, Calls!AddressesAreCurrent
<1> QED BY <1>1, <1>2, <1>3, OpenKeeps, Zenon

\* close(), from anywhere, ends everything.
LEMMA CloseKeeps ==
  ASSUME CallsInv, Calls!Close, s3' \in CallType, s3'.pc = "idle", s4' \in {"none", "false"}
  PROVE  CallsInv'
<1>1. s1' = [s1 EXCEPT !.sock = FALSE, !.local_addr = Calls!A!Unset,
                       !.to_addr = Calls!A!Unset, !.from_addr = Calls!A!Unset]
      /\ s2' = Calls!NoKernel
  BY DEF Calls!Close
<1>2. Calls!A!Unset \in Calls!Addresses /\ 0 \in 0 .. Backlog
  BY Bounds DEF Calls!Addresses
<1>3. s2' \in KernelType /\ ~s2'.nonblock /\ ~s2'.bound /\ s2'.groups = {}
  <2>1. s2' \in KernelType
    BY <1>1, <1>2 DEF KernelType, Calls!NoKernel
  <2>2. ~s2'.nonblock /\ ~s2'.bound /\ s2'.groups = {}
    BY <1>1, Zenon DEF Calls!NoKernel
  <2> QED BY <2>1, <2>2
<1>4. s1' \in SockType
  BY <1>1, <1>2 DEF CallsInv, CallsTypes, SockType
<1>5. /\ ~s1'.sock /\ s1'.local_addr = Calls!A!Unset /\ s1'.to_addr = Calls!A!Unset
      /\ s1'.from_addr = Calls!A!Unset
  BY <1>1, Zenon DEF CallsInv, CallsTypes, SockType
<1>6. Connecting' /\ Calls!ConnectTells'
  BY <1>3 DEF Connecting, Calls!ConnectTells
<1>7. ~Calls!IsBound'
  BY <1>5 DEF Calls!IsBound, Calls!A!Same, Calls!A!Unset
<1>8. Calls!AddressesAreCurrent'
  BY <1>1, <1>3, <1>5, <1>7, Zenon DEF Calls!AddressesAreCurrent
<1> QED BY <1>3, <1>4, <1>6, <1>8 DEF CallsInv, CallsTypes

\* The steps of connect().
LEMMA ConnectStep == ASSUME CallsInv, Calls!Connect  PROVE CallsInv'
<1>0. /\ s1 \in SockType /\ s2 \in KernelType /\ s3 \in CallType
      /\ s4 \in {"none", "true", "false"} /\ Calls!A!Unset \in Calls!Addresses
  BY DEF CallsInv, CallsTypes, Calls!Addresses
\* Where connect() goes and what it returns.
<1>a. ASSUME NEW pc \in {"idle", "nonblock", "connect", "select", "restore", "getpeername"},
             Calls!Goto(pc)
      PROVE  s3' \in CallType /\ s3'.pc = pc /\ s4' = s4
  BY <1>0, <1>a DEF Calls!Goto, CallType
<1>b. ASSUME NEW v \in {"true", "false"}, Calls!Return(v)
      PROVE  s3' \in CallType /\ s3'.pc = "idle" /\ s4' = v
  BY <1>0, <1>b DEF Calls!Return, CallType
<1>c. ASSUME Calls!Close, Calls!Return("false")  PROVE CallsInv'
  BY <1>b, <1>c, CloseKeeps
<1>d. ASSUME NEW on \in BOOLEAN, s2' = [s2 EXCEPT !.nonblock = on]
      PROVE  /\ s2' \in KernelType /\ s2'.bound = s2.bound /\ s2'.groups = s2.groups
             /\ s2'.conn = s2.conn /\ s2'.peer = s2.peer /\ s2'.nonblock = on
  BY <1>0, <1>d, Zenon DEF KernelType
<1>1. ASSUME NEW to \in Calls!Addresses, NEW timeout \in BOOLEAN, Calls!ConnectChecks(to, timeout)
      PROVE  CallsInv'
  <2>0. s3.pc = "idle" /\ ~s2.nonblock
    BY <1>1 DEF Calls!ConnectChecks, CallsInv, Connecting
  <2>1. CASE Calls!Return("false") /\ Calls!Keep
    <3>1. s1' = s1 /\ s2' = s2 /\ s3'.pc = "idle" /\ s3' \in CallType /\ s4' = "false"
      BY <2>1, <1>b DEF Calls!Keep
    <3>2. CallsTypes' /\ Connecting' /\ Calls!ConnectTells'
      BY <1>0, <2>0, <3>1 DEF CallsTypes, Connecting, Calls!ConnectTells
    <3>3. Calls!AddressesAreCurrent'
      BY <3>1 DEF CallsInv, Calls!AddressesAreCurrent, Calls!IsBound
    <3> QED BY <3>2, <3>3 DEF CallsInv
  <2>2. CASE /\ s1.sock /\ s1.type # "TCP" /\ Calls!Return("true")
             /\ s1' = [s1 EXCEPT !.to_addr = to] /\ UNCHANGED s2
    <3>1. s2' = s2 /\ s3'.pc = "idle" /\ s3' \in CallType /\ s4' = "true"
      BY <2>2, <1>b
    <3>2. /\ s1' \in SockType /\ s1'.sock = s1.sock /\ s1'.type = s1.type
          /\ s1'.family = s1.family /\ s1'.local_addr = s1.local_addr
      BY <1>0, <2>2, Zenon DEF SockType
    <3>3. CallsTypes' /\ Connecting' /\ Calls!ConnectTells'
      BY <1>0, <2>0, <2>2, <3>1, <3>2 DEF CallsTypes, Connecting, Calls!ConnectTells
    <3>4. s1.local_addr # Calls!A!Unset <=> s2.bound
      BY BoundIs, Zenon DEF CallsInv, Calls!AddressesAreCurrent
    <3>5. s2.groups # {} => s1.type = "UDP" /\ s1.family # "Local"
      BY Zenon DEF CallsInv, Calls!AddressesAreCurrent
    <3> QED BY <2>2, <3>1, <3>2, <3>3, <3>4, <3>5, OpenKeeps
  <2>3. CASE /\ s1.sock /\ s3' = [pc |-> IF timeout THEN "nonblock" ELSE "connect", to |-> to]
             /\ UNCHANGED <<s4, s1, s2>>
    <3>1. s3' \in CallType /\ s3'.pc \in {"nonblock", "connect"}
      BY <2>3 DEF CallType
    <3>2. Connecting' /\ Calls!ConnectTells'
      BY <2>0, <2>3, <3>1 DEF Connecting, CallsInv, Calls!ConnectTells
    <3> QED BY <1>0, <2>3, <3>1, <3>2, KernelKeeps
  <2> QED BY <1>1, <2>1, <2>2, <2>3, Zenon DEF Calls!ConnectChecks
<1>2. CASE Calls!ConnectNonblocks
  <2>1. CASE s2' = [s2 EXCEPT !.nonblock = TRUE] /\ Calls!Goto("connect") /\ UNCHANGED s1
    <3>1. s1.sock
      BY <1>2 DEF Calls!ConnectNonblocks, CallsInv, Connecting
    <3>2. s3' \in CallType /\ s3'.pc = "connect" /\ s4' = s4
      BY <2>1, <1>a
    <3>3. /\ s2' \in KernelType /\ s2'.bound = s2.bound /\ s2'.groups = s2.groups
          /\ s2'.conn = s2.conn /\ s2'.peer = s2.peer
      BY <2>1, <1>d
    <3>4. Connecting' /\ Calls!ConnectTells'
      BY <2>1, <3>1, <3>2, <3>3 DEF Connecting, CallsInv, Calls!ConnectTells
    <3> QED BY <1>0, <2>1, <3>1, <3>2, <3>3, <3>4, KernelKeeps
  <2> QED BY <1>2, <1>c, <2>1 DEF Calls!ConnectNonblocks
<1>3. CASE Calls!ConnectAsks
  <2>1. PICK answer \in Calls!ConnectAnswers :
          IF answer[1] = "error" THEN Calls!Close /\ Calls!Return("false")
          ELSE /\ s2' = [s2 EXCEPT !.conn = answer[2],
                                   !.peer = IF s2.conn = "none" THEN s3.to ELSE s2.peer]
               /\ UNCHANGED s1
               /\ Calls!Goto(IF answer[1] = "inprogress" THEN "select"
                             ELSE IF s2.nonblock THEN "restore" ELSE "getpeername")
    BY <1>3 DEF Calls!ConnectAsks
  <2>2. CASE answer[1] # "error"
    <3>1. s1.sock /\ s3.to \in Calls!Addresses
      BY <1>0, <1>3 DEF Calls!ConnectAsks, CallsInv, Connecting, CallType
    <3>2. PICK conn \in {"trying", "up"} : answer[2] = conn /\ (s2.conn = "up" => conn = "up")
                                          /\ s2.conn # "failed"
      BY <1>0, <2>2 DEF Calls!ConnectAnswers, KernelType
    <3>3. PICK pc \in {"select", "restore", "getpeername"} :
            /\ Calls!Goto(pc) /\ (pc = "getpeername" => ~s2.nonblock)
      BY <2>1, <2>2, Zenon
    <3>4. s3' \in CallType /\ s3'.pc = pc /\ s4' = s4
      BY <3>3, <1>a
    <3>5. PICK peer \in Calls!Addresses :
            /\ s2' = [s2 EXCEPT !.conn = conn, !.peer = peer]
            /\ s2.conn # "none" => peer = s2.peer
      <4>1. s2.peer \in Calls!Addresses
        BY <1>0 DEF KernelType
      <4>2. CASE s2.conn = "none"
        BY <2>1, <2>2, <3>1, <3>2, <4>2
      <4>3. CASE s2.conn # "none"
        BY <2>1, <2>2, <3>2, <4>1, <4>3
      <4> QED BY <4>2, <4>3
    <3>6. /\ s2' \in KernelType /\ s2'.bound = s2.bound /\ s2'.groups = s2.groups
          /\ s2'.conn = conn /\ s2'.peer = peer /\ s2'.nonblock = s2.nonblock
      <4>1. conn \in {"none", "trying", "up", "failed"}
        BY <3>2
      <4> QED BY <1>0, <3>5, <4>1, Zenon DEF KernelType
    <3>7. s1' = s1
      BY <2>1, <2>2
    <3>8. Connecting'
      BY <3>1, <3>3, <3>4, <3>6, <3>7 DEF Connecting
    <3>9. Calls!ConnectTells'
      BY <1>0, <3>2, <3>4, <3>5, <3>6, <3>7 DEF CallsInv, Calls!ConnectTells, KernelType
    <3> QED BY <1>0, <3>1, <3>4, <3>6, <3>7, <3>8, <3>9, KernelKeeps
  <2> QED BY <1>c, <2>1, <2>2
<1>4. CASE Calls!ConnectWaits
  <2>0. s1.sock
    BY <1>4 DEF Calls!ConnectWaits, CallsInv, Connecting
  <2>1. CASE Calls!Goto("restore") /\ Calls!Keep
    <3>1. s1' = s1 /\ s2' = s2 /\ s3'.pc = "restore" /\ s3' \in CallType /\ s4' = s4
      BY <2>1, <1>a DEF Calls!Keep
    <3>2. Connecting' /\ Calls!ConnectTells'
      BY <2>0, <3>1 DEF Connecting, CallsInv, Calls!ConnectTells
    <3> QED BY <1>0, <2>0, <3>1, <3>2, KernelKeeps
  <2>2. CASE s2' = [s2 EXCEPT !.nonblock = FALSE] /\ Calls!Return("false") /\ UNCHANGED s1
    <3>1. s3' \in CallType /\ s3'.pc = "idle" /\ s4' = "false"
      BY <2>2, <1>b
    <3>2. /\ s2' \in KernelType /\ s2'.bound = s2.bound /\ s2'.groups = s2.groups
          /\ ~s2'.nonblock
      BY <2>2, <1>d, Zenon
    <3>3. Connecting' /\ Calls!ConnectTells'
      BY <3>1, <3>2 DEF Connecting, Calls!ConnectTells
    <3> QED BY <2>0, <2>2, <3>1, <3>2, <3>3, KernelKeeps
  <2> QED BY <1>4, <1>c, <2>1, <2>2 DEF Calls!ConnectWaits
<1>5. CASE Calls!ConnectRestores
  <2>1. CASE s2' = [s2 EXCEPT !.nonblock = FALSE] /\ Calls!Goto("getpeername") /\ UNCHANGED s1
    <3>1. s1.sock
      BY <1>5 DEF Calls!ConnectRestores, CallsInv, Connecting
    <3>2. s3' \in CallType /\ s3'.pc = "getpeername" /\ s4' = s4
      BY <2>1, <1>a
    <3>3. /\ s2' \in KernelType /\ s2'.bound = s2.bound /\ s2'.groups = s2.groups
          /\ s2'.conn = s2.conn /\ s2'.peer = s2.peer /\ ~s2'.nonblock
      BY <2>1, <1>d, Zenon
    <3>4. Connecting' /\ Calls!ConnectTells'
      BY <2>1, <3>1, <3>2, <3>3 DEF Connecting, CallsInv, Calls!ConnectTells
    <3> QED BY <1>0, <2>1, <3>1, <3>2, <3>3, <3>4, KernelKeeps
  <2> QED BY <1>5, <1>c, <2>1 DEF Calls!ConnectRestores
<1>6. CASE Calls!ConnectVerifies
  <2>0. s1.sock /\ ~s2.nonblock
    BY <1>6 DEF Calls!ConnectVerifies, CallsInv, Connecting
  <2>1. CASE /\ s2.conn = "up" /\ s1' = [s1 EXCEPT !.to_addr = s2.peer]
             /\ Calls!Return("true") /\ UNCHANGED s2
    <3>1. s2' = s2 /\ s3'.pc = "idle" /\ s3' \in CallType /\ s4' = "true"
      BY <2>1, <1>b
    <3>2. s2.peer \in Calls!Addresses
      BY <1>0 DEF KernelType
    <3>3. /\ s1' \in SockType /\ s1'.sock = s1.sock /\ s1'.type = s1.type
          /\ s1'.family = s1.family /\ s1'.local_addr = s1.local_addr /\ s1'.to_addr = s2.peer
      BY <1>0, <2>1, <3>2, Zenon DEF SockType
    <3>4. CallsTypes' /\ Connecting' /\ Calls!ConnectTells'
      BY <1>0, <2>0, <2>1, <3>1, <3>3 DEF CallsTypes, Connecting, Calls!ConnectTells
    <3>5. s1.local_addr # Calls!A!Unset <=> s2.bound
      BY BoundIs, Zenon DEF CallsInv, Calls!AddressesAreCurrent
    <3>6. s2.groups # {} => s1.type = "UDP" /\ s1.family # "Local"
      BY Zenon DEF CallsInv, Calls!AddressesAreCurrent
    <3> QED BY <2>0, <3>1, <3>3, <3>4, <3>5, <3>6, OpenKeeps
  <2> QED BY <1>6, <1>c, <2>1 DEF Calls!ConnectVerifies
<1> QED BY <1>1, <1>2, <1>3, <1>4, <1>5, <1>6 DEF Calls!Connect

\* The other calls, which connect() has to be out of the way for.
LEMMA OtherCallStep ==
  ASSUME CallsInv, s3.pc = "idle", Calls!Calls, UNCHANGED s3, s4' = "none"
  PROVE  CallsInv'
<1>0. /\ s1 \in SockType /\ s2 \in KernelType /\ s3' \in CallType /\ ~s2.nonblock
      /\ s4' \in {"none", "true", "false"} /\ Calls!A!Unset \in Calls!Addresses
  BY DEF CallsInv, CallsTypes, Connecting, Calls!Addresses
<1>a. s1.local_addr # Calls!A!Unset <=> s2.bound
  BY BoundIs, Zenon DEF CallsInv, Calls!AddressesAreCurrent
<1>b. s2.groups # {} => s1.type = "UDP" /\ s1.family # "Local"
  BY Zenon DEF CallsInv, Calls!AddressesAreCurrent
<1>c. ~s1.sock => /\ s1.to_addr = Calls!A!Unset /\ s1.from_addr = Calls!A!Unset
                  /\ s2 = Calls!NoKernel
  BY Zenon DEF CallsInv, Calls!AddressesAreCurrent
<1>d. ASSUME Calls!Close  PROVE CallsInv'
  BY <1>0, <1>d, CloseKeeps
\* Nothing is left to show of a step that leaves the socket open and blocking.
<1>e. ASSUME s1' \in SockType, s2' \in KernelType, s1'.sock, ~s2'.nonblock,
             s1'.local_addr # Calls!A!Unset <=> s2'.bound,
             s2'.groups # {} => s1'.type = "UDP" /\ s1'.family # "Local"
      PROVE  CallsInv'
  <2>1. CallsTypes' /\ Connecting' /\ Calls!ConnectTells'
    BY <1>0, <1>e DEF CallsTypes, Connecting, Calls!ConnectTells
  <2> QED BY <1>e, <2>1, OpenKeeps, Zenon
<1>1. CASE Calls!Open
  <2>1. PICK f \in Calls!Families, t \in Calls!Types, opened \in BOOLEAN :
          s1' = [s1 EXCEPT !.sock = opened, !.family = f, !.type = t]
    BY <1>1 DEF Calls!Open
  <2>2. /\ s1' \in SockType /\ s1'.sock = opened /\ s1'.local_addr = s1.local_addr
        /\ s1'.to_addr = s1.to_addr /\ s1'.from_addr = s1.from_addr
    BY <1>0, <2>1, Zenon DEF SockType
  <2>3. s2' = s2 /\ s2 = Calls!NoKernel
    BY <1>1, <1>c DEF Calls!Open
  <2>4. s2.groups = {} /\ s2.bound = FALSE
    BY <2>3 DEF Calls!NoKernel
  <2>5. CASE opened
    BY <1>0, <1>a, <1>e, <2>2, <2>3, <2>4, <2>5
  <2>6. CASE ~opened
    <3>1. CallsTypes' /\ Connecting' /\ Calls!ConnectTells'
      BY <1>0, <2>2, <2>3 DEF CallsTypes, Connecting, Calls!ConnectTells
    <3>2. Calls!IsBound' <=> s1'.local_addr # Calls!A!Unset
      BY DEF Calls!IsBound, Calls!A!Same, Calls!A!Unset
    <3>3. /\ s1'.to_addr = Calls!A!Unset /\ s1'.from_addr = Calls!A!Unset
      BY <1>1, <1>c, <2>2 DEF Calls!Open
    <3>4. s2'.groups = {} /\ (s1'.local_addr # Calls!A!Unset <=> s2'.bound)
      BY <1>a, <2>2, <2>3, <2>4, Zenon
    <3>5. Calls!AddressesAreCurrent'
      BY <2>3, <3>2, <3>3, <3>4, Zenon DEF Calls!AddressesAreCurrent
    <3> QED BY <3>1, <3>5 DEF CallsInv
  <2> QED BY <2>5, <2>6
<1>2. CASE Calls!ExplicitClose
  BY <1>2, <1>d DEF Calls!ExplicitClose
<1>3. CASE Calls!Bind
  <2>1. ASSUME NEW listening \in BOOLEAN,
               s2' = [s2 EXCEPT !.bound = TRUE, !.listening = listening],
               s1' = [s1 EXCEPT !.local_addr = IF s1.family = "Local" THEN Calls!A!PathAddress(<<Peer>>)
                                               ELSE Calls!A!HostAddress(s1.family, AnyHost, 1)]
        PROVE  CallsInv'
    <3>1. PICK addr : /\ s1' = [s1 EXCEPT !.local_addr = addr] /\ addr # Calls!A!Unset
                      /\ addr \in Calls!Addresses \cup {Calls!A!HostAddress(f, AnyHost, 1) : f \in {"IPv4", "IPv6"}}
      <4>1. Calls!A!PathAddress(<<Peer>>) \in Calls!Addresses
        BY DEF Calls!Addresses
      <4>2. Calls!A!PathAddress(<<Peer>>) # Calls!A!Unset
        <5>1. Calls!A!PathAddress(<<Peer>>).family = "Local"
          BY DEF Calls!A!PathAddress
        <5>2. Calls!A!Unset.family = "IPv4"
          BY DEF Calls!A!Unset
        <5> QED BY <5>1, <5>2
      <4>3. \A f : Calls!A!HostAddress(f, AnyHost, 1) # Calls!A!Unset
        <5>1. \A f : Calls!A!HostAddress(f, AnyHost, 1).port = 1
          BY DEF Calls!A!HostAddress
        <5>2. Calls!A!Unset.port = 0
          BY DEF Calls!A!Unset
        <5> QED BY <5>1, <5>2
      <4>4. s1.family \in {"IPv4", "IPv6", "Local"}
        BY <1>0 DEF SockType, Calls!Families
      <4>5. CASE s1.family = "Local"
        BY <2>1, <4>1, <4>2, <4>5
      <4>6. CASE s1.family # "Local"
        <5>1. s1.family \in {"IPv4", "IPv6"}
          BY <4>4, <4>6
        <5>2. s1' = [s1 EXCEPT !.local_addr = Calls!A!HostAddress(s1.family, AnyHost, 1)]
          BY <2>1, <4>6
        <5> QED BY <4>3, <5>1, <5>2, Zenon
      <4> QED BY <4>5, <4>6
    <3>2. /\ s1' \in SockType /\ s1'.sock = s1.sock /\ s1'.local_addr = addr
          /\ s1'.type = s1.type /\ s1'.family = s1.family
      BY <1>0, <3>1, Zenon DEF SockType
    <3>3. /\ s2' \in KernelType /\ s2'.bound /\ s2'.groups = s2.groups
          /\ s2'.nonblock = s2.nonblock
      <4>1. TRUE \in BOOLEAN
        OBVIOUS
      <4> QED BY <1>0, <2>1, <4>1, Zenon DEF KernelType
    <3>4. s1.sock
      BY <1>3 DEF Calls!Bind
    <3> QED BY <1>0, <1>b, <1>e, <3>1, <3>2, <3>3, <3>4
  <2> QED BY <1>3, <1>d, <2>1 DEF Calls!Bind
<1>4. CASE Calls!Accept
  <2>1. s1' = s1 /\ s2.backlog > 0 /\ s2' = [s2 EXCEPT !.backlog = s2.backlog - 1]
    BY <1>4 DEF Calls!Accept
  <2>2. s1.sock
    BY <1>c, <2>1 DEF Calls!NoKernel
  <2>3. s2.backlog - 1 \in 0 .. Backlog
    BY <1>0, <2>1, Bounds DEF KernelType
  <2>4. /\ s2' \in KernelType /\ s2'.bound = s2.bound /\ s2'.groups = s2.groups
        /\ s2'.nonblock = s2.nonblock
    BY <1>0, <2>1, <2>3, Zenon DEF KernelType
  <2> QED BY <1>0, <1>a, <1>b, <1>e, <2>1, <2>2, <2>4
<1>5. CASE Calls!SetBroadcast
  <2>1. PICK enable \in BOOLEAN : s1.sock /\ s1' = s1 /\ s2' = [s2 EXCEPT !.broadcast = enable]
    BY <1>5 DEF Calls!SetBroadcast
  <2>2. /\ s2' \in KernelType /\ s2'.bound = s2.bound /\ s2'.groups = s2.groups
        /\ s2'.nonblock = s2.nonblock
    BY <1>0, <2>1, Zenon DEF KernelType
  <2> QED BY <1>0, <1>a, <1>b, <1>e, <2>1, <2>2
<1>6. CASE Calls!JoinMulticastGroup
  <2>1. PICK g \in Calls!Addresses, ttl \in BOOLEAN, joined \in BOOLEAN :
          /\ s1.sock /\ Calls!A!IsMulticast(g) /\ s1.family = g.family /\ s1.type = "UDP"
          /\ s2' = [s2 EXCEPT !.ttl = s2.ttl \/ ttl,
                              !.groups = IF ttl /\ joined THEN s2.groups \cup {g} ELSE s2.groups]
          /\ UNCHANGED s1
    BY <1>6 DEF Calls!JoinMulticastGroup
  <2>2. PICK on \in BOOLEAN, groups \in SUBSET Calls!Addresses :
          s2' = [s2 EXCEPT !.ttl = on, !.groups = groups]
    <3>1. s2.groups \in SUBSET Calls!Addresses /\ s2.groups \cup {g} \in SUBSET Calls!Addresses
      BY <1>0 DEF KernelType
    <3>2. (s2.ttl \/ ttl) \in BOOLEAN
      OBVIOUS
    <3>3. (IF ttl /\ joined THEN s2.groups \cup {g} ELSE s2.groups) \in SUBSET Calls!Addresses
      BY <3>1, Zenon
    <3> QED BY <2>1, <3>2, <3>3, Zenon
  <2>3. /\ s2' \in KernelType /\ s2'.bound = s2.bound /\ s2'.nonblock = s2.nonblock
    BY <1>0, <2>2, Zenon DEF KernelType
  <2>4. s1.family # "Local"
    BY <2>1 DEF Calls!A!IsMulticast
  <2> QED BY <1>0, <1>a, <1>e, <2>1, <2>3, <2>4
<1>7. CASE Calls!LeaveMulticastGroup
  <2>1. PICK g \in s2.groups :
          /\ s1.sock /\ s1.type = "UDP" /\ s1.family = g.family /\ Calls!A!IsMulticast(g)
          /\ s2' = [s2 EXCEPT !.groups = s2.groups \ {g}] /\ UNCHANGED s1
    BY <1>7 DEF Calls!LeaveMulticastGroup
  <2>2. s2.groups \ {g} \in SUBSET Calls!Addresses
    BY <1>0 DEF KernelType
  <2>3. /\ s2' \in KernelType /\ s2'.bound = s2.bound /\ s2'.nonblock = s2.nonblock
    BY <1>0, <2>1, <2>2, Zenon DEF KernelType
  <2>4. s1.family # "Local"
    BY <2>1 DEF Calls!A!IsMulticast
  <2> QED BY <1>0, <1>a, <1>e, <2>1, <2>3, <2>4
<1>8. CASE Calls!Send
  <2>1. PICK to \in Calls!Addresses :
          /\ s1.sock
          /\ \/ Calls!Close
             \/ /\ s1' = [s1 EXCEPT !.to_addr = IF Calls!A!Same(to, Calls!A!Unset) THEN s1.to_addr ELSE to]
                /\ UNCHANGED s2
    BY <1>8 DEF Calls!Send
  <2>2. ASSUME s1' = [s1 EXCEPT !.to_addr = IF Calls!A!Same(to, Calls!A!Unset) THEN s1.to_addr ELSE to],
               UNCHANGED s2
        PROVE  CallsInv'
    <3>1. (IF Calls!A!Same(to, Calls!A!Unset) THEN s1.to_addr ELSE to) \in Calls!Addresses
      BY <1>0 DEF SockType
    <3>2. /\ s1' \in SockType /\ s1'.sock = s1.sock /\ s1'.local_addr = s1.local_addr
          /\ s1'.type = s1.type /\ s1'.family = s1.family
      BY <1>0, <2>2, <3>1, Zenon DEF SockType
    <3> QED BY <1>0, <1>a, <1>b, <1>e, <2>1, <2>2, <3>2
  <2> QED BY <1>d, <2>1, <2>2
<1>9. CASE Calls!Recv
  <2>1. ASSUME s1' = [s1 EXCEPT !.from_addr = Calls!A!HostAddress("IPv4", Peer, 1)], UNCHANGED s2
        PROVE  CallsInv'
    <3>1. Calls!A!HostAddress("IPv4", Peer, 1) \in Calls!Addresses
      BY DEF Calls!Addresses
    <3>2. /\ s1' \in SockType /\ s1'.sock = s1.sock /\ s1'.local_addr = s1.local_addr
          /\ s1'.type = s1.type /\ s1'.family = s1.family
      BY <1>0, <2>1, <3>1, Zenon DEF SockType
    <3>3. s1.sock
      BY <1>9 DEF Calls!Recv
    <3> QED BY <1>0, <1>a, <1>b, <1>e, <2>1, <3>2, <3>3
  <2> QED BY <1>9, <1>d, <2>1 DEF Calls!Recv
<1>10. CASE \/ Calls!IsAcceptableFails \/ Calls!IsSendableFails
            \/ Calls!IsReceivableFails \/ Calls!ByteInQueueFails
  BY <1>10, <1>d DEF Calls!IsAcceptableFails, Calls!IsSendableFails, Calls!IsReceivableFails,
                     Calls!ByteInQueueFails
<1> QED BY <1>1, <1>2, <1>3, <1>4, <1>5, <1>6, <1>7, <1>8, <1>9, <1>10 DEF Calls!Calls

\* The peer and the kernel.
LEMMA NetworkStep == ASSUME CallsInv, Calls!Network  PROVE CallsInv'
<1>0. s1 \in SockType /\ s2 \in KernelType /\ s3 \in CallType /\ s4 \in {"none", "true", "false"}
  BY DEF CallsInv, CallsTypes
<1>1. s1' = s1 /\ s3' = s3 /\ s4' = s4
  BY DEF Calls!Network
<1>2. s1.sock
  <2>1. s2 # Calls!NoKernel
    BY DEF Calls!Network, Calls!NoKernel
  <2> QED BY <2>1, Zenon DEF CallsInv, Calls!AddressesAreCurrent
<1>3. PICK conn \in {"none", "trying", "up", "failed"}, backlog \in 0 .. Backlog :
        /\ s2' = [s2 EXCEPT !.conn = conn, !.backlog = backlog]
        /\ s2.conn \in {"up", "failed"} => conn \in {"up", "failed"}
  <2>0. s2.conn \in {"none", "trying", "up", "failed"} /\ s2.backlog \in 0 .. Backlog
    BY <1>0 DEF KernelType
  <2>1. ASSUME NEW conn \in {"up", "failed"}, s2' = [s2 EXCEPT !.conn = conn]
        PROVE  s2' = [s2 EXCEPT !.conn = conn, !.backlog = s2.backlog]
    BY <1>0, <2>1 DEF KernelType
  <2>2. ASSUME s2.backlog < Backlog, s2' = [s2 EXCEPT !.backlog = s2.backlog + 1]
        PROVE  /\ s2' = [s2 EXCEPT !.conn = s2.conn, !.backlog = s2.backlog + 1]
               /\ s2.backlog + 1 \in 0 .. Backlog
    <3>1. s2.backlog + 1 \in 0 .. Backlog
      BY <2>0, <2>2, Bounds
    <3>2. s2' = [s2 EXCEPT !.conn = s2.conn, !.backlog = s2.backlog + 1]
      BY <1>0, <2>2 DEF KernelType
    <3> QED BY <3>1, <3>2
  <2> QED BY <2>0, <2>1, <2>2 DEF Calls!Network
<1>4. /\ s2' \in KernelType /\ s2'.bound = s2.bound /\ s2'.groups = s2.groups
      /\ s2'.conn = conn /\ s2'.peer = s2.peer /\ s2'.nonblock = s2.nonblock
  BY <1>0, <1>3, Zenon DEF KernelType
<1>5. Connecting' /\ Calls!ConnectTells'
  BY <1>1, <1>3, <1>4 DEF CallsInv, Connecting, Calls!ConnectTells
<1> QED BY <1>0, <1>1, <1>2, <1>4, <1>5, KernelKeeps

LEMMA CallsStep == CallsInv /\ [Calls!Next]_(Calls!vars) => CallsInv'
<1>1. CallsInv /\ UNCHANGED Calls!vars => CallsInv'
  BY DEF Calls!vars, CallsInv, CallsTypes, Connecting, Calls!ConnectTells,
         Calls!AddressesAreCurrent, Calls!IsBound
<1> QED BY <1>1, ConnectStep, OtherCallStep, NetworkStep DEF Calls!Next
-----------------------------------------------------------------------------
(* The parts together: each step of NetSpec is one of the part that runs     *)

LEMMA PartSteps ==
  [NetNext /\ UNCHANGED part]_<<part, vars, shared>> =>
    /\ part' = part
    /\ part = "calls" => [Calls!Next]_(Calls!vars)
    /\ part = "stream" => [Stream!Next]_(Stream!vars)
    /\ part = "serial" => [Serial!Next]_(Serial!vars)
    /\ part = "buffer" => [Buffer!Next]_(Buffer!vars)
    /\ part = "clients" => [Clients!Next]_(Clients!vars)
<1> SUFFICES ASSUME [NetNext /\ UNCHANGED part]_<<part, vars, shared>>
             PROVE  /\ part' = part
                    /\ part = "calls" => [Calls!Next]_(Calls!vars)
                    /\ part = "stream" => [Stream!Next]_(Stream!vars)
                    /\ part = "serial" => [Serial!Next]_(Serial!vars)
                    /\ part = "buffer" => [Buffer!Next]_(Buffer!vars)
                    /\ part = "clients" => [Clients!Next]_(Clients!vars)
  OBVIOUS
<1>1. CASE NetNext /\ UNCHANGED part
  BY <1>1 DEF NetNext
<1>2. CASE UNCHANGED <<part, vars, shared>>
  BY <1>2 DEF shared, Calls!vars, Stream!vars, Serial!vars, Buffer!vars, Clients!vars
<1> QED BY <1>1, <1>2

\* An open socket is blocking whatever way connect() ended, what returned true is
\* connected to toAddress(), and isBound() is what the kernel says: through every
\* timeout, failure, late answer and reopening (Socket.ipp:92-195, 345-420).
THEOREM ConnectKeepsItsWord == NetSpec => []ConnectSound
<1> DEFINE Inv == part = "calls" => CallsInv
<1>1. NetInit => Inv
  BY CallsInit DEF NetInit
<1>2. Inv /\ [NetNext /\ UNCHANGED part]_<<part, vars, shared>> => Inv'
  BY CallsStep, PartSteps
<1>3. Inv => ConnectSound
  BY CallsAreTyped DEF ConnectSound, Calls!ConnectSound, Calls!ConnectRestoresBlocking,
                       CallsInv, Connecting
<1> QED BY <1>1, <1>2, <1>3, PTL DEF NetSpec

\* sendAll() and recvAll() deliver every byte once and in order, and all that was
\* asked for or a closed socket, however the kernel cuts the data
\* (Socket.ipp:552-671).
THEOREM BytesArrive == NetSpec => []StreamSound
<1> DEFINE Inv == part = "stream" => StreamInv
<1>1. NetInit => Inv
  BY StreamInit DEF NetInit
<1>2. Inv /\ [NetNext /\ UNCHANGED part]_<<part, vars, shared>> => Inv'
  BY StreamStep, PartSteps
<1>3. Inv => StreamSound
  BY StreamIsSound DEF StreamSound
<1> QED BY <1>1, <1>2, <1>3, PTL DEF NetSpec

\* A closed serial port leaves its terminal as it found it, however often it was
\* opened over itself (SerialPort.ipp:15-77).
THEOREM TerminalIsRestored == NetSpec => []PortRestored
<1> DEFINE Inv == part = "serial" => SerialInv
<1>1. NetInit => Inv
  <2> SUFFICES ASSUME Serial!Init  PROVE SerialInv
    BY DEF NetInit
  <2>1. s1 = FALSE /\ s5 = FALSE /\ s6 = 0 /\ s7 = 0 /\ s3 \in Original /\ s2 = s3 /\ s4 = s3
    BY DEF Serial!Init
  <2>2. ~s1 /\ s1 \in BOOLEAN /\ s5 \in BOOLEAN
    BY <2>1, Zenon
  <2>3. s6 \in 0 .. 1 /\ s7 \in 0 .. MaxOpens /\ {s2, s3, s4} \subseteq Original \cup {Serial!Raw}
    BY <2>1, Bounds
  <2>4. {s1, s5} \subseteq BOOLEAN
    BY <2>2, Zenon
  <2>5. Serial!TypeOK
    BY <2>3, <2>4, Zenon DEF Serial!TypeOK
  <2>6. Serial!AttributesRestored
    BY <2>1, <2>2, Zenon DEF Serial!AttributesRestored
  <2> QED BY <2>5, <2>6 DEF SerialInv
<1>2. Inv /\ [NetNext /\ UNCHANGED part]_<<part, vars, shared>> => Inv'
  BY SerialStep, PartSteps
<1>3. Inv => PortRestored
  BY DEF PortRestored, SerialInv
<1> QED BY <1>1, <1>2, <1>3, PTL DEF NetSpec

\* Until blocks pass buffered characters or an unget follows a block, characters and
\* blocks come in order through refills and one character put back at a time, more than
\* one the buffer has no place for; and whatever is mixed, the user has each character
\* that was read once, or still finds it in the buffer (IOStream.ipp:32-77).
THEOREM CharactersInOrder ==
  ASSUME MaxUnget <= 1 PROVE NetSpec => []CharsInOrder
<1> DEFINE Inv == part = "buffer" => BufferInv /\ BufferHas
<1>1. NetInit => Inv
  <2> SUFFICES ASSUME Buffer!Init  PROVE BufferInv /\ BufferHas
    BY DEF NetInit
  <2>1. /\ s1 = 0 /\ s2 = TRUE /\ s3 = << >> /\ s4 = 1 /\ s5 = 0 /\ s6 = 0
        /\ s7 = [at |-> 0, char |-> 0] /\ s8 = {} /\ s9 = "chars"
    BY DEF Buffer!Init
  <2>2. s2 \in BOOLEAN /\ s7.char = s7.at
    BY <2>1, Zenon
  <2>3. s3 \in Seq(Nat) /\ Len(s3) = 0
    BY <2>1
  <2>4. BufferInv
    BY <2>1, <2>2, <2>3, Bounds DEF BufferInv
  <2>5. BufferHas
    BY <2>1, <2>3, Bounds DEF BufferHas
  <2> QED BY <2>4, <2>5
<1>2. Inv /\ [NetNext /\ UNCHANGED part]_<<part, vars, shared>> => Inv'
  BY BufferStep, BufferKeeps, PartSteps
<1>3. Inv => CharsInOrder
  <2> SUFFICES ASSUME BufferInv, BufferHas
               PROVE  Buffer!TypeOK /\ Buffer!CharsInOrder /\ Buffer!NothingLost
    BY DEF CharsInOrder
  <2>1. s5 \in 0 .. Length
    <3>1. PICK n \in Nat : n = Len(s3)
      BY DEF BufferInv
    <3> QED BY <3>1, Bounds DEF BufferInv
  <2>2. Buffer!NothingLost
    <3> DEFINE unread == {s3[i] : i \in s4 .. Len(s3)} \ {0}
    <3>1. s3 \in Seq(Nat) /\ Len(s3) # 1 /\ s4 \in 1 .. Len(s3) + 1 /\ s1 \in Nat
      BY Bounds DEF BufferInv
    <3>2. \A i \in s4 .. Len(s3) : s3[i] \in 0 .. s1
      BY <3>1 DEF BufferHas
    <3>3. \A c \in 1 .. s1 : c \in unread <=> c \notin s8
      BY DEF BufferHas
    <3>4. unread \subseteq 1 .. s1 /\ s8 \subseteq 1 .. s1
      BY <3>1, <3>2 DEF BufferHas
    <3>5. s8 \cup unread = 1 .. s1 /\ s8 \cap unread = {}
      <4> HIDE DEF unread
      <4> QED BY <3>3, <3>4
    <3> QED BY <3>5 DEF Buffer!NothingLost
  <2> QED BY <2>1, <2>2 DEF BufferInv, Buffer!TypeOK, Buffer!CharsInOrder
<1> QED BY <1>1, <1>2, <1>3, PTL DEF NetSpec

\* Over a network that loses and delays answers, in an iteration of getClock() the answer
\* is the one to its request, and its result is at worst, when the last recv() fails, the
\* answer to the request before; ping() takes no other answer than its own or a late one,
\* to a ping that was open when it was called (SNTPClient.ipp:42-84, PingClient.ipp:31-67).
THEOREM AnswersAreTheRequests == NetSpec => []AnswersMatch
<1> DEFINE Inv == part = "clients" => ClientsInv
<1>1. NetInit => Inv
  <2> SUFFICES ASSUME Clients!Init  PROVE ClientsInv
    BY DEF NetInit
  <2>1. /\ s1 = "idle" /\ s2 = "sntp" /\ s4 = 0 /\ s5 = {} /\ s6 = {} /\ s7 = 0
        /\ s8 = {} /\ s9 = Clients!Begun({}) /\ s10 = 0
    BY DEF Clients!Init
  <2>2. s9 \in Results /\ ~s9.ok /\ s9.stale = {}
    BY <2>1 DEF Clients!Begun, Results
  <2>3. 0 \in 0 .. MaxRequests
    BY Bounds
  <2> QED BY <2>1, <2>2, <2>3 DEF ClientsInv, Clients!TypeOK, Clients!AnswersMatch
<1>2. Inv /\ [NetNext /\ UNCHANGED part]_<<part, vars, shared>> => Inv'
  BY ClientsStep, PartSteps
<1>3. Inv => AnswersMatch
  BY DEF AnswersMatch, ClientsInv
<1> QED BY <1>1, <1>2, <1>3, PTL DEF NetSpec
=============================================================================
