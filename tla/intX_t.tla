------------------------------- MODULE intX_t -------------------------------
(***************************************************************************)
(* Integers of any size (misc/intX_t.ipp): a sign and digits in base BASE,   *)
(* the lowest first, none of them for zero.  BASE is even, BASE1 to the       *)
(* power BASE_CNUM.  Each operator gives what its function leaves in *result. *)
(***************************************************************************)
EXTENDS Integers, Sequences

LOCAL INSTANCE SequencesExt
LOCAL INSTANCE FiniteSetsExt

CONSTANTS BASE1, BASE_CNUM,
          BYTE       \* 256 in the code: the base of toBinArray()

BASE == BASE1 ^ BASE_CNUM
Number(s, b) == [sign |-> s, body |-> b]
zero == Number(1, << >>)

\* What a number stands for.
Abs(x) == FoldRight(LAMBDA d, v : d + BASE * v, x.body, 0)
Value(x) == x.sign * Abs(x)

eraseTopZero(x) ==
  LET n == CHOOSE n \in 0 .. Len(x.body) : /\ (n = 0 \/ x.body[n] # 0)
                                           /\ \A i \in n + 1 .. Len(x.body) : x.body[i] = 0
  IN Number(IF n = 0 THEN 1 ELSE x.sign, SubSeq(x.body, 1, n))

\* From a machine integer, which has two digits at most.
intX(n) == LET a == IF n < 0 THEN 0 - n ELSE n
           IN Number(IF n < 0 THEN 0 - 1 ELSE 1,
                     IF a = 0 THEN << >> ELSE IF a < BASE THEN <<a>> ELSE <<a % BASE, a \div BASE>>)

Digit(x, i) == IF i <= Len(x.body) THEN x.body[i] ELSE 0
absNoless(l, s) ==
  \/ Len(l.body) > Len(s.body)
  \/ /\ Len(l.body) = Len(s.body)
     /\ \A i \in DOMAIN l.body : l.body[i] < s.body[i] => \E j \in i + 1 .. Len(l.body) : l.body[j] > s.body[j]

\* Mutant: the last overflow is dropped.
MutOverflowing(b, c) == b

Overflowing(b, c) == IF c > 0 THEN Append(b, c) ELSE b
absAdd(sign, l, s) ==
  LET n == Len(l.body)
      overflow[i \in 0 .. n] == IF i = 0 THEN 0 ELSE (l.body[i] + Digit(s, i) + overflow[i - 1]) \div BASE
      sum == [i \in 1 .. n |-> (l.body[i] + Digit(s, i) + overflow[i - 1]) % BASE]
  IN Number(sign, Overflowing(sum, overflow[n]))

\* The borrow is 2 where the difference is exactly -BASE (see BorrowsTwice).
absSub(sign, l, s) ==
  LET n == Len(l.body)
      Under(d) == IF d < 0 THEN 1 + ((0 - d) \div BASE) ELSE 0
      underflow[i \in 0 .. n] == IF i = 0 THEN 0 ELSE Under(l.body[i] - Digit(s, i) - underflow[i - 1])
      diff(i) == l.body[i] - Digit(s, i) - underflow[i - 1]
  IN eraseTopZero(Number(sign, [i \in 1 .. n |-> IF diff(i) < 0 THEN diff(i) + BASE ELSE diff(i)]))

Larger(a, b) == IF absNoless(a, b) THEN a ELSE b
Smaller(a, b) == IF absNoless(a, b) THEN b ELSE a
Plus(a, b) == IF a.sign = b.sign THEN absAdd(a.sign, Larger(a, b), Smaller(a, b))
              ELSE absSub(Larger(a, b).sign, Larger(a, b), Smaller(a, b))
Minus(a, b) ==
  IF a.sign = 0 - b.sign THEN absAdd(a.sign, Larger(a, b), Smaller(a, b))
  ELSE absSub(IF absNoless(a, b) THEN a.sign ELSE 0 - b.sign, Larger(a, b), Smaller(a, b))
Increment(a) == Plus(a, intX(1))
Decrement(a) == Minus(a, intX(1))

\* Comparisons look at the sign first, and not again at the digits of negatives.
Le(a, b) == a.sign < b.sign \/ (a.sign = b.sign /\ absNoless(b, a))
Ge(a, b) == a.sign > b.sign \/ (a.sign = b.sign /\ absNoless(a, b))
Lt(a, b) == ~Ge(a, b)
Gt(a, b) == ~Le(a, b)

\* One place to the right or left.
Halved(x) ==
  LET n == Len(x.body)
      From(i) == x.body[i] + IF i < n /\ x.body[i + 1] % 2 = 1 THEN BASE ELSE 0
  IN eraseTopZero(Number(x.sign, [i \in 1 .. n |-> From(i) \div 2]))
Doubled(x) ==
  LET n == Len(x.body)
      overflow[i \in 0 .. n] == IF i = 0 THEN 0 ELSE (2 * x.body[i] + overflow[i - 1]) \div BASE
  IN Number(x.sign, Overflowing([i \in 1 .. n |-> (2 * x.body[i] + overflow[i - 1]) % BASE], overflow[n]))
shiftRight(x, n) == LET f[i \in 0 .. n] == IF i = 0 THEN x ELSE Halved(f[i - 1]) IN f[n]
shiftLeft(x, n) == LET f[i \in 0 .. n] == IF i = 0 THEN x ELSE Doubled(f[i - 1]) IN f[n]

\* While b is not zero: add a where b is odd, halve b, double a.  MaxBits bounds
\* the loops.
MaxBits == 24
absMul(a, b) ==
  LET step[i \in 0 .. MaxBits] ==
        IF i = 0 THEN [a |-> Number(1, a.body), b |-> Number(1, b.body), r |-> zero]
        ELSE LET s == step[i - 1] IN
             IF s.b = zero THEN s
             ELSE [a |-> Doubled(s.a), b |-> Halved(s.b),
                   r |-> IF s.b.body[1] % 2 = 1 THEN Plus(s.r, s.a) ELSE s.r]
  IN IF a = zero \/ b = zero THEN zero ELSE step[MaxBits].r
Times(a, b) == [absMul(a, b) EXCEPT !.sign = IF a.sign = b.sign THEN 1 ELSE 0 - 1]

\* Long division in base 2: the divisor is doubled past the number, then halved
\* once per digit of the result.
absDiv(num, den) ==
  LET up[i \in 0 .. MaxBits] ==
        IF i = 0 THEN [d |-> den, shift |-> 0]
        ELSE LET u == up[i - 1] IN
             IF Lt(u.d, num) THEN [d |-> Doubled(u.d), shift |-> u.shift + 1] ELSE u
      top == up[MaxBits]
      start == IF Gt(top.d, num) THEN [d |-> Halved(top.d), shift |-> top.shift - 1] ELSE top
      step[i \in 0 .. start.shift + 1] ==
        IF i = 0 THEN [n |-> num, d |-> start.d, q |-> zero]
        ELSE LET s == step[i - 1] IN
             IF Le(s.d, s.n) THEN [n |-> Minus(s.n, s.d), d |-> Halved(s.d), q |-> Increment(Doubled(s.q))]
             ELSE [n |-> s.n, d |-> Halved(s.d), q |-> Doubled(s.q)]
      last == step[start.shift + 1]
  IN IF num = zero THEN [q |-> zero, r |-> zero]
     ELSE [q |-> last.q, r |-> [last.n EXCEPT !.sign = 1]]

toBinArray(x) ==
  LET step[i \in 0 .. MaxBits] ==
        IF i = 0 THEN [x |-> x, bytes |-> << >>]
        ELSE LET s == step[i - 1]
                 qr == absDiv(s.x, intX(BYTE)) IN
             IF s.x = zero THEN s ELSE [x |-> qr.q, bytes |-> Append(s.bytes, Abs(qr.r))]
  IN step[MaxBits].bytes

\* &, | and ^ byte by byte; func tells whether a bit of the result is set.
Bit(n, k) == (n \div 2 ^ k) % 2 = 1
ByteOp(func, a, b) == MapThenSumSet(LAMBDA k : IF func[Bit(a, k), Bit(b, k)] THEN 2 ^ k ELSE 0,
                                    {k \in 0 .. 7 : 2 ^ k < BYTE})
FromBytes(bytes) == FoldRight(LAMBDA d, r : Plus(absMul(r, intX(BYTE)), intX(d)), bytes, zero)
bitOperation(func, a, b) ==
  LET l == toBinArray(Larger(a, b))
      s == toBinArray(Smaller(a, b))
  IN FromBytes([i \in DOMAIN l |-> ByteOp(func, l[i], IF i <= Len(s) THEN s[i] ELSE 0)])
AND == [p, q \in BOOLEAN |-> p /\ q]
OR == [p, q \in BOOLEAN |-> p \/ q]
XOR == [p, q \in BOOLEAN |-> p # q]
Complement(a) == LET l == toBinArray(a) IN FromBytes([i \in DOMAIN l |-> BYTE - 1 - l[i]])

\* The digits in base BASE1, the highest first; all digits of the body but the
\* highest are padded to BASE_CNUM places.
Places(d) == [i \in 1 .. BASE_CNUM |-> (d \div BASE1 ^ (BASE_CNUM - i)) % BASE1]
toString(x) ==
  IF x.body = << >> THEN <<0>>
  ELSE LET all == FlattenSeq([i \in DOMAIN x.body |-> Places(x.body[Len(x.body) + 1 - i])])
           first == CHOOSE i \in DOMAIN all : all[i] # 0 /\ \A j \in 1 .. i - 1 : all[j] = 0
       IN SubSeq(all, first, Len(all))
initByString(s) == FoldLeft(LAMBDA x, d : Plus(Times(x, intX(BASE1)), intX(d)), zero, s)
-----------------------------------------------------------------------------
Canonical(x) == eraseTopZero(x) = x /\ \A i \in DOMAIN x.body : x.body[i] \in 0 .. BASE - 1
Is(x, n) == Value(x) = n /\ Canonical(x)

\* The number n, with as many digits as it takes.
Magnitude(n) == IF n < 0 THEN 0 - n ELSE n
Numeral(n) ==
  LET a == Magnitude(n)
      size == CHOOSE k \in 0 .. a : a < BASE ^ k /\ (k = 0 \/ a >= BASE ^ (k - 1))
  IN Number(IF n < 0 THEN 0 - 1 ELSE 1, [i \in 1 .. size |-> (a \div BASE ^ (i - 1)) % BASE])

\* Where larger has a digit 0, smaller BASE - 1, and the places below borrow: there
\* absSub() goes wrong.  It takes three digits.
BorrowsTwice(m, n) ==
  LET larger == IF Magnitude(m) < Magnitude(n) THEN Magnitude(n) ELSE Magnitude(m)
      smaller == IF Magnitude(m) < Magnitude(n) THEN Magnitude(m) ELSE Magnitude(n)
  IN \E i \in 1 .. Len(Numeral(larger).body) :
       /\ (larger \div BASE ^ i) % BASE = 0 /\ (smaller \div BASE ^ i) % BASE = BASE - 1
       /\ larger % BASE ^ i < smaller % BASE ^ i
\* Long division in base 2 subtracts n * 2 ^ k wherever there is one in what is left.
DivisionBorrowsTwice(m, n) ==
  \E k \in 0 .. MaxBits : LET left == m % (n * 2 ^ (k + 1)) IN
    n * 2 ^ k <= m /\ n * 2 ^ k <= left /\ BorrowsTwice(left, n * 2 ^ k)

\* A difference and what was subtracted give the number again
\* (misc/test/intx_test.cpp:72).
DifferenceAddsUp(m, n) == Is(Plus(Minus(Numeral(m), Numeral(n)), Numeral(n)), m)

\* Sums, differences, products and comparisons are those of the integers, and
\* every result is in the form that operator== compares
\* (intX_t.ipp:83-307, 387-462, 529-543, 612-658).  Differences where a place borrows
\* twice, comparisons of two negative numbers, and a negative number times zero, are
\* not.
ArithmeticIsExact(m, n) ==
  LET a == Numeral(m)
      b == Numeral(n) IN
  /\ Magnitude(m) < BASE * BASE => intX(m) = a
  /\ m * n >= 0 \/ ~BorrowsTwice(m, n) => Is(Plus(a, b), m + n)
  /\ m * n <= 0 \/ ~BorrowsTwice(m, n) => Is(Minus(a, b), m - n)
  /\ Is(Increment(a), m + 1) /\ Is(Decrement(a), m - 1)
  /\ IF m * n = 0 THEN Value(Times(a, b)) = 0 ELSE Is(Times(a, b), m * n)
  /\ m >= 0 \/ n >= 0 => /\ Le(a, b) = (m <= n) /\ Ge(a, b) = (m >= n)
                         /\ Lt(a, b) = (m < n) /\ Gt(a, b) = (m > n)

\* Quotients, remainders, shifts, bits and strings of non-negative numbers
\* (intX_t.ipp:54-81, 222-382, 464-474, 551-610, 660-676), unless a difference that
\* they take borrows twice.
DivisionIsExact(m, n) ==
  LET a == Numeral(m)
      b == Numeral(n)
      HasBytes(k) == \A i \in 0 .. Len(Numeral(k).body) :
                       ~DivisionBorrowsTwice(k \div BYTE ^ i, BYTE)
      Bits(func) == MapThenSumSet(LAMBDA k : IF func[Bit(m, k), Bit(n, k)] THEN 2 ^ k ELSE 0, 0 .. 9) IN
  /\ n # 0 /\ ~DivisionBorrowsTwice(m, n) => Is(absDiv(a, b).q, m \div n) /\ Is(absDiv(a, b).r, m % n)
  /\ n <= 3 => Is(shiftLeft(a, n), m * 2 ^ n) /\ Is(shiftRight(a, n), m \div 2 ^ n)
  /\ HasBytes(m) /\ HasBytes(n) =>
       /\ Is(bitOperation(AND, a, b), Bits(AND)) /\ Is(bitOperation(OR, a, b), Bits(OR))
       /\ Is(bitOperation(XOR, a, b), Bits(XOR))
       /\ Value(Complement(a)) = BYTE ^ Len(toBinArray(a)) - 1 - m
  /\ Is(initByString(toString(a)), m)
=============================================================================
