----------------------------- MODULE SerialPort -----------------------------
(***************************************************************************)
(* A serial port (serialport/SerialPort.ipp) and the attributes of its      *)
(* terminal, which survive the descriptor.                                 *)
(***************************************************************************)
EXTENDS Naturals

CONSTANTS Original,  \* attributes other programs may give the terminal
          MaxOpens   \* bound on calls of open()

Raw == "raw"         \* what open() sets

VARIABLES
  fd,             \* is there a descriptor?
  pre_term_attr,  \* what close() restores
  term_attr,      \* the terminal's attributes
  before,         \* the attributes before the descriptor was opened
  failed,         \* did a call fail since then?
  descriptors,    \* open descriptors of this process
  opens

vars == <<fd, pre_term_attr, term_attr, before, failed, descriptors, opens>>

Init == /\ fd = FALSE /\ failed = FALSE /\ descriptors = 0 /\ opens = 0
        /\ term_attr \in Original /\ pre_term_attr = term_attr /\ before = term_attr

\* The terminal and the descriptors after close(), which does nothing when closed.
Restored == IF fd THEN pre_term_attr ELSE term_attr
Remaining == IF fd THEN descriptors - 1 ELSE descriptors

Close == /\ fd /\ fd' = FALSE
         /\ term_attr' = Restored /\ descriptors' = Remaining
         /\ UNCHANGED <<pre_term_attr, before, failed, opens>>

\* Mutant: an open port is not closed first.
MutOpen ==
  /\ opens < MaxOpens /\ opens' = opens + 1
  /\ fd' = TRUE /\ descriptors' = descriptors + 1 /\ term_attr' = Raw
  /\ pre_term_attr' = term_attr /\ before' = Restored /\ failed' = FALSE

\* open() closes an open port first.  It fails at ::open, at tcgetattr, or later;
\* but for ::open that ends in _close(), and pre_term_attr may be set by then.
Open ==
  /\ opens < MaxOpens /\ opens' = opens + 1
  /\ \/ /\ fd' = FALSE /\ descriptors' = Remaining /\ term_attr' = Restored
        /\ pre_term_attr' \in {pre_term_attr, Restored}
        /\ UNCHANGED <<before, failed>>
     \/ /\ fd' = TRUE /\ descriptors' = Remaining + 1 /\ term_attr' = Raw
        /\ pre_term_attr' = Restored /\ before' = Restored /\ failed' = FALSE

\* select, read or write fails, or read finds the end: _close() without tcsetattr.
IoFails == /\ fd /\ fd' = FALSE /\ failed' = TRUE /\ descriptors' = descriptors - 1
           /\ UNCHANGED <<pre_term_attr, term_attr, before, opens>>

OtherProgram == /\ ~fd /\ term_attr' \in Original /\ before' = term_attr'
                /\ UNCHANGED <<fd, pre_term_attr, failed, descriptors, opens>>

Next == Open \/ Close \/ IoFails \/ OtherProgram

Spec == Init /\ [][Next]_vars
-----------------------------------------------------------------------------
TypeOK == /\ {fd, failed} \subseteq BOOLEAN /\ descriptors \in 0 .. 1 /\ opens \in 0 .. MaxOpens
          /\ {pre_term_attr, term_attr, before} \subseteq Original \cup {Raw}

\* However often the port is opened over itself, close() gives the terminal back
\* as the first of these open() calls found it, and leaves no descriptor; only
\* after a failed read or write it stays raw (SerialPort.ipp:15-77).
AttributesRestored ==
  /\ ~fd /\ ~failed => term_attr = before
  /\ fd => pre_term_attr = before
  /\ descriptors = IF fd THEN 1 ELSE 0
=============================================================================
