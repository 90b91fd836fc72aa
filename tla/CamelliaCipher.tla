--------------------------- MODULE CamelliaCipher ---------------------------
(***************************************************************************)
(* The block cipher Camellia (misc/CamelliaCipher.ipp).  A block is a word of *)
(* 128 bits, its L() the upper 64, and the first byte of an array is the      *)
(* highest.  The tables of constants are parameters.                        *)
(***************************************************************************)
EXTENDS Bits, Sequences, FiniteSets

LOCAL INSTANCE SequencesExt
LOCAL INSTANCE FiniteSetsExt

CONSTANTS stable(_, _),  \* a byte, substituted by one of the boxes 0 .. 3
          SIGMA(_),      \* the key of round 1 .. 6 of the key schedule
          Messages,
          Keys           \* <<128, 192 or 256, a key of so many bits>>

VARIABLES
  M, K,      \* the message and the key
  C,         \* the message, encrypted
  phase,     \* "encrypt", "decrypt" or "done"
  r, e       \* the round and the block so far

vars == <<M, K, C, phase, r, e>>

L(b) == Shr(b, 64)
R(b) == b \cap Word(64)
Block(left, right) == Shl(left, 64, 128) \cup R(right)
RotatedBy(block, x) == {(b + x) % 128 : b \in block}

\* F: substitution of each byte, then the sums P of bytes.
ByteOf(x, i) == Shr(x, 56 - 8 * i) \cap Word(8)
Boxes == <<0, 1, 2, 3, 1, 2, 3, 0>>
S(x) == UNION {Shl(stable(Boxes[i + 1], ByteOf(x, i)), 56 - 8 * i, 64) : i \in 0 .. 7}
Terms == <<{0, 2, 3, 5, 6, 7}, {0, 1, 3, 4, 6, 7}, {0, 1, 2, 4, 5, 7}, {1, 2, 3, 4, 5, 6},
           {0, 1, 5, 6, 7}, {1, 2, 4, 6, 7}, {2, 3, 4, 5, 7}, {0, 3, 4, 5, 6}>>
P(x) == {b \in Word(64) :
           Cardinality({i \in Terms[8 - b \div 8] : 56 - 8 * i + (b % 8) \in x}) % 2 = 1}
F(x, k) == P(S(Xor(x, k)))

\* FL and its inverse: the two halves of 32 bits in turn.
Halves(high, low) == Shl(high, 32, 64) \cup low
High(x) == Shr(x, 32)
Low(x) == x \cap Word(32)
Turned(x) == {(b + 1) % 32 : b \in x}
Masked(l, kl) == Turned(l) \cap Turned(High(kl))
FL(x, kl) == LET low == Xor(Masked(High(x), kl), Low(x))
             IN Halves(Xor(low \cup Low(kl), High(x)), low)
\* Mutant: the left half before it has changed.
MutFLinv(y, kl) == Halves(Xor(Low(y) \cup Low(kl), High(y)), Xor(Masked(High(y), kl), Low(y)))

FLinv(y, kl) == LET l == Xor(Low(y) \cup Low(kl), High(y))
                IN Halves(l, Xor(Masked(l, kl), Low(y)))

\* One round of Feistel's network, forwards and backwards.
Round(b, k) == Block(Xor(R(b), F(L(b), k)), L(b))
Back(b, k) == Block(R(b), Xor(L(b), F(R(b), k)))
-----------------------------------------------------------------------------
\* setKey(): the four registers that the subkeys are taken from.
Registers(key, size) ==
  LET first == IF size = 256 THEN Shr(key, 128) ELSE IF size = 192 THEN Shr(key, 64) ELSE key
      KL == first \cap Word(128)
      KR == IF size = 256 THEN key \cap Word(128)
            ELSE IF size = 192 THEN Block(key \cap Word(64), Word(64) \ key) ELSE {}
      Two(b, i) == Round(Round(b, SIGMA(i)), SIGMA(i + 1))
      KA == Two(Xor(Two(Xor(KL, KR), 1), KL), 3)
  IN [KL |-> KL, KR |-> KR, KA |-> KA, KB |-> Two(Xor(KA, KR), 5)]

\* A step turns a register further and copies its halves, 0 for L() and 1 for
\* R(), to at and at + 1 of kw, k or kl.
Step(reg, by, to, at, halves) == [reg |-> reg, by |-> by, to |-> to, at |-> at, halves |-> halves]
Both(reg, by, to, at) == Step(reg, by, to, at, {0, 1})
Schedule(size) ==
  IF size = 128
  THEN << Both("KL", 0, "kw", 0), Both("KA", 0, "k", 0), Both("KL", 15, "k", 2),
          Both("KA", 15, "k", 4), Both("KA", 15, "kl", 0), Both("KL", 30, "k", 6),
          Step("KA", 15, "k", 8, {0}), Step("KL", 15, "k", 8, {1}), Both("KA", 15, "k", 10),
          Both("KL", 17, "kl", 2), Both("KL", 17, "k", 12), Both("KA", 34, "k", 14),
          Both("KL", 17, "k", 16), Both("KA", 17, "kw", 2) >>
  ELSE << Both("KL", 0, "kw", 0), Both("KB", 0, "k", 0), Both("KR", 15, "k", 2),
          Both("KA", 15, "k", 4), Both("KR", 15, "kl", 0), Both("KB", 30, "k", 6),
          Both("KL", 45, "k", 8), Both("KA", 30, "k", 10), Both("KL", 15, "kl", 2),
          Both("KR", 30, "k", 12), Both("KB", 30, "k", 14), Both("KL", 17, "k", 16),
          Both("KA", 32, "kl", 4), Both("KR", 34, "k", 18), Both("KA", 17, "k", 20),
          Both("KL", 34, "k", 22), Both("KB", 51, "kw", 2) >>

\* How far a register is turned after the first n steps.
Turns(size, reg, n) ==
  FoldLeft(LAMBDA sum, s : IF s.reg = reg THEN sum + s.by ELSE sum, 0, SubSeq(Schedule(size), 1, n))

\* The steps that fill a place <<array, index>>; the last one counts.
Fills(size, x) == LET s == Schedule(size)
                  IN {n \in DOMAIN s : s[n].to = x[1] /\ x[2] - s[n].at \in s[n].halves}
Places(size) == ({"kw"} \X (0 .. 3)) \cup ({"k"} \X (0 .. (IF size = 128 THEN 17 ELSE 23)))
                \cup ({"kl"} \X (0 .. (IF size = 128 THEN 3 ELSE 5)))
setKey(key, size) ==
  LET regs == Registers(key, size)
      Filled(x) == LET n == Max(Fills(size, x))
                       s == Schedule(size)[n]
                       turned == RotatedBy(regs[s.reg], Turns(size, s.reg, n))
                   IN IF x[2] = s.at THEN L(turned) ELSE R(turned)
  IN [size |-> size, at |-> [x \in Places(size) |-> Filled(x)]]

Rounds(key) == IF key.size = 128 THEN 18 ELSE 24
Sub(key, to, i) == key.at[<<to, i>>]
Whitening(key, i) == Block(Sub(key, "kw", i), Sub(key, "kw", i + 1))
Swapped(b) == Block(R(b), L(b))

\* A block is encrypted round by round, and what came out is decrypted.
Init ==
  /\ M \in Messages /\ \E sk \in Keys : K = setKey(sk[2], sk[1])
  /\ C = {} /\ phase = "encrypt" /\ r = 1 /\ e = Xor(M, Whitening(K, 0))

Forward(m, i) ==
  IF r \in {6, 12} \/ (K.size # 128 /\ r = 18)
  THEN Block(FL(L(m), Sub(K, "kl", i - 2)), FLinv(R(m), Sub(K, "kl", i - 1))) ELSE m
EncryptRound ==
  /\ phase = "encrypt" /\ r <= Rounds(K)
  /\ e' = Forward(Round(e, Sub(K, "k", r - 1)), (2 * r) \div 6)
  /\ r' = r + 1 /\ UNCHANGED <<M, K, C, phase>>
Encrypted ==
  /\ phase = "encrypt" /\ r > Rounds(K)
  /\ C' = Xor(Swapped(e), Whitening(K, 2))
  /\ phase' = "decrypt" /\ r' = Rounds(K) /\ e' = Swapped(Xor(C', Whitening(K, 2)))
  /\ UNCHANGED <<M, K>>

Backward(m, i) ==
  IF r \in {7, 13, 19}
  THEN Block(FLinv(L(m), Sub(K, "kl", i - 2)), FL(R(m), Sub(K, "kl", i - 1))) ELSE m
DecryptRound ==
  /\ phase = "decrypt" /\ r >= 1
  /\ e' = Backward(Back(e, Sub(K, "k", r - 1)), (2 * (r - 1)) \div 6)
  /\ r' = r - 1 /\ UNCHANGED <<M, K, C, phase>>
Decrypted ==
  /\ phase = "decrypt" /\ r = 0
  /\ phase' = "done" /\ e' = Xor(e, Whitening(K, 0)) /\ UNCHANGED <<M, K, C, r>>

Next == EncryptRound \/ Encrypted \/ DecryptRound \/ Decrypted

Spec == Init /\ [][Next]_vars
-----------------------------------------------------------------------------
\* Every subkey a round or a whitening reads is filled by one step, and the
\* registers are copied at the turns the comments name
\* (CamelliaCipher.ipp:232-320).
ScheduleIsFull(size) ==
  LET s == Schedule(size)
      At(reg) == {Turns(size, reg, n) : n \in {m \in DOMAIN s : s[m].reg = reg}}
  IN /\ \A x \in Places(size) : Cardinality(Fills(size, x)) = 1
     /\ IF size = 128
        THEN At("KL") = {0, 15, 45, 60, 77, 94, 111} /\ At("KA") = {0, 15, 30, 45, 60, 94, 111}
        ELSE /\ At("KL") = {0, 45, 60, 77, 111} /\ At("KA") = {15, 45, 77, 94}
             /\ At("KR") = {15, 30, 60, 94} /\ At("KB") = {0, 30, 60, 111}

\* decrypt() undoes encrypt() with the same key, of any size
\* (CamelliaCipher.ipp:323-445).
DecryptInverts == phase = "done" => e = M
=============================================================================
