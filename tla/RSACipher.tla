----------------------------- MODULE RSACipher -----------------------------
(***************************************************************************)
(* RSA (misc/RSACipher.ipp): the generation of a key pair, and a message that *)
(* is encrypted and decrypted with it.  Numbers are those intX_t computes      *)
(* exactly; rand() may give any bits.                                       *)
(***************************************************************************)
EXTENDS Integers

CONSTANT Bits     \* bits of a prime: security_bits / 2

VARIABLES p, q, n, e, d,
          M, C, result      \* the message, encrypted and decrypted; -1 before

vars == <<p, q, n, e, d, M, C, result>>

\* While j > 1: multiply l by i where j is odd, halve j, square i.  j has fewer
\* than 16 bits.
POWMOD(a, b, m) ==
  LET step[k \in 0 .. 16] ==
        IF k = 0 THEN [l |-> 1, i |-> a, j |-> b]
        ELSE LET s == step[k - 1] IN
             IF s.j <= 1 THEN s
             ELSE [l |-> (IF s.j % 2 = 1 THEN s.l * s.i ELSE s.l) % m,
                   i |-> (s.i * s.i) % m, j |-> s.j \div 2]
  IN (step[16].i * step[16].l) % m

FERMATCHECK(x) == /\ \A f \in {3, 5, 7, 11, 13, 17} : x % f # 0
                  /\ POWMOD(2, x - 1, x) = 1

\* The extended algorithm of Euclid: [y, z] with z the greatest common divisor,
\* and b * y equal to z up to a multiple of a.
Euclid(a, b) ==
  LET step[k \in 0 .. 16] ==
        IF k = 0 THEN [y1 |-> 0, z1 |-> a, y2 |-> 1, z2 |-> b]
        ELSE LET s == step[k - 1] IN
             IF s.z2 = 0 THEN s
             ELSE LET t == s.z1 \div s.z2 IN
                  [y1 |-> s.y2, z1 |-> s.z2, y2 |-> s.y1 - t * s.y2, z2 |-> s.z1 - t * s.z2]
  IN [y |-> step[16].y1, z |-> step[16].z1]
LCM(a, b) == (a * b) \div Euclid(a, b).z

Candidates == {x \in 2 ^ (Bits - 1) .. 2 ^ Bits - 1 : x % 2 = 1 /\ FERMATCHECK(x)}

Init == /\ p = 0 /\ q = 0 /\ n = 0 /\ e = 0 /\ d = 0
        /\ M = -1 /\ C = -1 /\ result = -1
-----------------------------------------------------------------------------
\* d is a pointer where it is compared with 0: a negative exponent stays so.
Generate ==
  /\ n = 0 /\ p' \in Candidates /\ q' \in Candidates
  /\ n' = p' * q'
  /\ LET L == LCM(p' - 1, q' - 1) IN
     /\ e' = IF L % 11 = 0 THEN 13 ELSE 11
     /\ d' = Euclid(L, e').y
  /\ UNCHANGED <<M, C, result>>

cipher(X, ed) == POWMOD(X, ed, n)
Encrypt == /\ n # 0 /\ M = -1 /\ M' \in 0 .. n - 1 /\ C' = cipher(M', e)
           /\ UNCHANGED <<p, q, n, e, d, result>>
Decrypt == /\ C # -1 /\ result = -1 /\ result' = cipher(C, d)
           /\ UNCHANGED <<p, q, n, e, d, M, C>>

Next == Generate \/ Encrypt \/ Decrypt

Spec == Init /\ [][Next]_vars
-----------------------------------------------------------------------------
\* Two different primes and an exponent that came out positive: the private key
\* undoes what the public key did, for every message (RSACipher.ipp:18-145).
DecryptInverts == result # -1 /\ p # q /\ d > 0 /\ Euclid(LCM(p - 1, q - 1), e).z = 1 => result = M

\* What the header calls the private key decrypts (RSACipher.h:30).
PrivateKeyWorks == result # -1 /\ p # q => result = M
=============================================================================
