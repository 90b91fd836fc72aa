-------------------------------- MODULE CRC --------------------------------
(***************************************************************************)
(* The checksums: misc/CRC.ipp with its four polynomials, and that of        *)
(* socket/PingClient.ipp.  A message is a sequence of bytes.                *)
(***************************************************************************)
EXTENDS Bits, Sequences

LOCAL INSTANCE SequencesExt

\* In the reflected ones the lowest bit comes first.
Types == {"CRC_8_ATM", "CRC_16_CCITT", "CRC_32", "CRC_32C"}
Width(t) == CASE t = "CRC_8_ATM" -> 8 [] t = "CRC_16_CCITT" -> 16 [] OTHER -> 32
Reflected(t) == t \in {"CRC_32", "CRC_32C"}
Poly(t) == CASE t = "CRC_8_ATM" -> {0, 1, 2}
             [] t = "CRC_16_CCITT" -> {0, 5, 12}
             [] t = "CRC_32" -> {5, 8, 9, 15, 19, 20, 21, 23, 24, 26, 27, 29, 30, 31}
             [] t = "CRC_32C" -> {3, 4, 5, 6, 8, 9, 11, 12, 13, 17, 18, 20, 21, 22, 23, 25, 31}
Initial(t) == IF t = "CRC_8_ATM" THEN {} ELSE Word(Width(t))

\* An entry of a table is its index divided by the polynomial, bit by bit.
Divided(t, r) ==
  IF Reflected(t) THEN IF 0 \in r THEN Xor(Shr(r, 1), Poly(t)) ELSE Shr(r, 1)
  ELSE LET s == Shl(r, 1, Width(t)) IN IF Width(t) - 1 \in r THEN Xor(s, Poly(t)) ELSE s
\* Mutant: a division too few.
MutTable(t, index) ==
  LET r[i \in 0 .. 7] == IF i > 0 THEN Divided(t, r[i - 1])
                         ELSE IF Reflected(t) THEN index ELSE Shl(index, Width(t) - 8, Width(t))
  IN r[7]

Table(t, index) ==
  LET r[i \in 0 .. 8] == IF i > 0 THEN Divided(t, r[i - 1])
                         ELSE IF Reflected(t) THEN index ELSE Shl(index, Width(t) - 8, Width(t))
  IN r[8]

\* push(): a byte goes in where the register leaves.
PushByte(t, reg, byte) ==
  IF Reflected(t) THEN Xor(Table(t, Xor(reg \cap Word(8), byte)), Shr(reg, 8))
  ELSE Xor(Table(t, Xor(Shr(reg, Width(t) - 8), byte)), Shl(reg, 8, Width(t)))
push(t, reg, msg) == FoldLeft(LAMBDA r, byte : PushByte(t, r, byte), reg, msg)

\* crc(): the register, complemented in the 32 bit ones, highest byte first.
crcOf(t, reg) ==
  LET v == IF Width(t) = 32 THEN Word(32) \ reg ELSE reg
      n == Width(t) \div 8
  IN [i \in 1 .. n |-> Shr(v, 8 * (n - i)) \cap Word(8)]
crc(t, msg) == crcOf(t, push(t, Initial(t), msg))

\* check(): CRC_32 turns the value round and knows the residue 21 44 DF 1C; the
\* others, CRC_32C too, expect 0.
Residue == <<{0, 5}, {2, 6}, {0, 1, 2, 3, 4, 6, 7}, {2, 3, 4}>>
check(t, value, msg) ==
  LET v == IF t = "CRC_32" THEN Reverse(value) ELSE value
      result == crcOf(t, push(t, push(t, Initial(t), msg), v))
  IN result = IF t = "CRC_32" THEN Residue ELSE [i \in 1 .. Width(t) \div 8 |-> {}]

\* The sum of 16 bit words, with the carries added again, complemented.
checksum(words) ==
  LET sum == FoldLeft(LAMBDA s, w : s + w, 0, words)
      Fold(s) == (s % 65536) + (s \div 65536)
  IN 65535 - (Fold(Fold(sum)) % 65536)
-----------------------------------------------------------------------------
\* A message of which up to Width(t) bits in a row have changed has another value.
\* check() accepts a message with its own value, and refuses it when such bits of the
\* message or of the value have changed; nothing is said of CRC_32C's check() (CRC.ipp:
\* 60-87, 147-176, 251-288, 371-404).
ChecksDetect(t, msg, burst, at) ==
  LET value == crc(t, msg)
      all == msg \o value
      Flips(i) == {b \in Word(8) : 8 * (i - 1) + (7 - b) - at \in burst}
      hit == [i \in DOMAIN all |-> Xor(all[i], IF Reflected(t) /\ i <= Len(msg)
                                              THEN {7 - b : b \in Flips(i)} ELSE Flips(i))]
      hitMsg == SubSeq(hit, 1, Len(msg))
  IN /\ hitMsg # msg => crc(t, hitMsg) # value
     /\ t # "CRC_32C" =>
          /\ check(t, value, msg)
          /\ hit # all => ~check(t, SubSeq(hit, Len(msg) + 1, Len(all)), hitMsg)

\* A ping that arrives sums up to 0 with its checksum, and not if a word has
\* changed (PingClient.ipp:12-29).
ChecksumDetects(words, i, w) ==
  LET all == Append(words, checksum(words))
  IN /\ checksum(all) = 0
     /\ w # all[i] /\ {w, all[i]} # {0, 65535} => checksum([all EXCEPT ![i] = w]) # 0
=============================================================================
