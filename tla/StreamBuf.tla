----------------------------- MODULE StreamBuf -----------------------------
(***************************************************************************)
(* The stream buffer over a reader t (core/IOStream.ipp): characters are    *)
(* read through a buffer whose first place keeps the last character of the   *)
(* buffer before, so that it can be put back.  Blocks (xsgetn) and all       *)
(* output bypass the buffer.  The characters t has are 1, 2, 3, ...; 0 is     *)
(* the '\0' in a first place that nothing was read before.                  *)
(***************************************************************************)
EXTENDS Integers, Sequences

CONSTANTS Length,     \* characters t has before its end
          buf_size,
          MaxUnget    \* how many characters in a row the user puts back

VARIABLES
  taken,    \* characters t has given
  isOpen,   \* t->isOpen()
  buffer,   \* the get area: buffer[1] is eback()
  gptr,     \* index of the next character; beyond the area at egptr()
  pos,      \* characters the user has consumed
  ungot,    \* characters put back since the last one was read
  last,     \* [at, char]: the last character read, and its number
  given,    \* history: the characters the user has
  order     \* history: what was read last, "chars" or a "block"; "mixed" for ever
            \* after a block has passed characters that are buffered, or a block's
            \* last character was put back

vars == <<taken, isOpen, buffer, gptr, pos, ungot, last, given, order>>

Init == /\ taken = 0 /\ isOpen = TRUE /\ buffer = << >> /\ gptr = 1
        /\ pos = 0 /\ ungot = 0 /\ last = [at |-> 0, char |-> 0]
        /\ given = {} /\ order = "chars"

\* What t->read may give to a request for n characters.
Reads(n) == IF isOpen THEN {k \in 0 .. n : k <= Length - taken /\ (k = 0 => taken = Length)} ELSE {0}
Next1(k) == [i \in 1 .. k |-> taken + i]

\* Mutant: the first place stays as it was.
MutKept == IF gptr > 1 THEN buffer[1] ELSE 0

\* underflow(): the place in front of the new characters gets the last old one,
\* also when there are no new ones.
Kept == IF gptr > 1 THEN buffer[gptr - 1] ELSE 0
Refilled(k) == IF k > 0 THEN <<Kept>> \o Next1(k)
               ELSE [i \in DOMAIN buffer |-> IF i = 1 THEN Kept ELSE buffer[i]]

Underflow ==
  /\ isOpen /\ gptr > Len(buffer)
  /\ \E k \in Reads(buf_size - 1) :
       /\ taken' = taken + k /\ buffer' = Refilled(k)
       /\ gptr' = IF k > 0 THEN 2 ELSE gptr
  /\ UNCHANGED <<isOpen, pos, ungot, last, given, order>>

\* sbumpc(), once underflow() has been called where it is needed.
Get == /\ gptr <= Len(buffer) /\ gptr' = gptr + 1 /\ pos' = pos + 1
       /\ last' = [at |-> pos', char |-> buffer[gptr]]
       /\ ungot' = IF ungot = 0 THEN 0 ELSE ungot - 1
       /\ given' = given \cup ({buffer[gptr]} \ {0})
       /\ order' = IF order = "block" THEN "chars" ELSE order
       /\ UNCHANGED <<taken, isOpen, buffer>>

\* sungetc() goes back in the get area, which a block has not touched.
Unget == /\ gptr > 1 /\ pos > 0 /\ ungot < MaxUnget
         /\ gptr' = gptr - 1 /\ pos' = pos - 1 /\ ungot' = ungot + 1
         /\ given' = given \ {buffer[gptr - 1]}
         /\ order' = IF order = "block" THEN "mixed" ELSE order
         /\ UNCHANGED <<taken, isOpen, buffer, last>>

\* xsgetn() asks t, whatever is buffered, and leaves gptr alone.
ReadBlock == \E n \in 1 .. 2 : \E k \in Reads(n) :
  /\ k > 0 /\ taken' = taken + k /\ pos' = pos + k /\ ungot' = 0
  /\ last' = [at |-> pos', char |-> taken']
  /\ given' = given \cup (taken + 1 .. taken + k)
  /\ order' = IF gptr <= Len(buffer) \/ order = "mixed" THEN "mixed" ELSE "block"
  /\ UNCHANGED <<isOpen, buffer, gptr>>

Closed == /\ isOpen /\ isOpen' = FALSE
          /\ UNCHANGED <<taken, buffer, gptr, pos, ungot, last, given, order>>

Next == Underflow \/ Get \/ Unget \/ ReadBlock \/ Closed

Spec == Init /\ [][Next]_vars
-----------------------------------------------------------------------------
TypeOK == /\ taken \in 0 .. Length /\ Len(buffer) <= buf_size /\ gptr \in 1 .. Len(buffer) + 1
          /\ pos \in 0 .. Length /\ ungot \in 0 .. MaxUnget
          /\ order \in {"chars", "block", "mixed"}

\* Characters and blocks come in order through any sequence of reads and one unget,
\* also across a refill of the buffer, until a block passes characters that are
\* buffered or an unget follows a block (IOStream.ipp:32-77).
CharsInOrder == order # "mixed" => last.char = last.at

\* However characters, blocks and ungets follow each other, the user has each
\* character that t gave once, or still finds it in the buffer (IOStream.ipp:32-77).
NothingLost ==
  LET unread == {buffer[i] : i \in gptr .. Len(buffer)} \ {0}
  IN given \cup unread = 1 .. taken /\ given \cap unread = {}
=============================================================================
