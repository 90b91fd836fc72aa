------------------------------- MODULE Bits -------------------------------
\* A machine word is the set of the positions of its one bits, 0 the lowest.
EXTENDS Integers

Word(w) == 0 .. w - 1
Xor(a, b) == (a \ b) \cup (b \ a)
Shl(a, n, w) == {i + n : i \in a} \cap Word(w)
Shr(a, n) == {i - n : i \in {j \in a : j >= n}}
=============================================================================
