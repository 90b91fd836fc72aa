------------------------------- MODULE SHA256 -------------------------------
(***************************************************************************)
(* How SHA256 cuts a message into blocks and pads it (misc/SHA256.ipp).  A   *)
(* byte of the message is its number; the compression of a block, calc(), is  *)
(* the sequence of blocks so far.  A block has BLOCK bytes, 64 in the code,   *)
(* 8 of which hold the length at the end.                                   *)
(***************************************************************************)
EXTENDS Naturals, Sequences

CONSTANTS BLOCK, MaxBytes

VARIABLES
  blocks,    \* what calc() was given
  data,      \* the block that is filled
  count, dnum,
  pushed     \* bytes of the message so far

vars == <<blocks, data, count, dnum, pushed>>

Zeros == [i \in 1 .. BLOCK |-> "0"]
One == "80"

reset == /\ blocks' = << >> /\ data' = Zeros /\ count' = 0 /\ dnum' = 0 /\ pushed' = 0
Init == blocks = << >> /\ data = Zeros /\ count = 0 /\ dnum = 0 /\ pushed = 0

\* push() of one byte.
push ==
  /\ pushed < MaxBytes /\ pushed' = pushed + 1
  /\ LET d == [data EXCEPT ![dnum + 1] = pushed'] IN
     IF dnum + 1 = BLOCK
     THEN blocks' = Append(blocks, d) /\ count' = count + 1 /\ dnum' = 0 /\ data' = Zeros
     ELSE data' = d /\ dnum' = dnum + 1 /\ UNCHANGED <<blocks, count>>

\* The length in bits, in the last 8 bytes.
Bits(n) == [i \in 1 .. 8 |-> <<i, ((8 * n) \div 256 ^ (IF i < 6 THEN 3 ELSE 8 - i)) % 256>>]
WithLength(d) == SubSeq(d, 1, BLOCK - 8) \o Bits(count * BLOCK + dnum)

\* end(), on a copy: a second block if there is no room for the length, and also
\* if there is just enough.
Padded == [i \in 1 .. BLOCK |-> IF i <= dnum THEN data[i] ELSE IF i = dnum + 1 THEN One ELSE "0"]
hash == IF dnum < BLOCK - 9 THEN Append(blocks, WithLength(Padded))
        ELSE blocks \o <<Padded, WithLength(Zeros)>>

Reset == pushed > 0 /\ reset

Next == push \/ Reset

Spec == Init /\ [][Next]_vars
-----------------------------------------------------------------------------
\* The blocks are the message, a one bit, as few zeros as fill the last block,
\* and the length, unless there is just enough room for that without zeros: such a
\* message, of BLOCK - 9 bytes modulo BLOCK, gets a block too many (SHA256.ipp:98-189).
PaddingIsStandard ==
  LET zeros == CHOOSE z \in 0 .. BLOCK - 1 : (pushed + 1 + z + 8) % BLOCK = 0
      message == [i \in 1 .. pushed |-> i] \o <<One>> \o [i \in 1 .. zeros |-> "0"] \o Bits(pushed)
      standard == [k \in 1 .. Len(message) \div BLOCK |-> SubSeq(message, BLOCK * (k - 1) + 1, BLOCK * k)]
  IN zeros # 0 => hash = standard
=============================================================================
