------------------------------- MODULE Octree -------------------------------
(***************************************************************************)
(* An octree by Morton numbers (misc/Octree.ipp).  A number is a word: bit b  *)
(* of x, y and z is its bit 3b, 3b + 1 and 3b + 2.                          *)
(***************************************************************************)
EXTENDS Bits, Sequences, FiniteSets, FiniteSetsExt

CONSTANTS MAX_LEVEL,     \* at most 8
          Numbers        \* the Morton numbers that are used

VARIABLES
  indices,      \* level -> a function from numbers to places in instances
  instances     \* level -> the number each instance was made for

vars == <<indices, instances>>

Levels == 0 .. MAX_LEVEL - 1

\* A byte with two zeros after each bit, and back, by masks.
Mask12 == {0, 1, 2, 3, 12, 13, 14, 15}               \* 0x0000f00f
Mask6 == {0, 1, 6, 7, 12, 13, 18, 19}                \* 0x000c30c3
Mask3 == {0, 3, 6, 9, 12, 15, 18, 21}                \* 0x00249249
getBitSeparatedNumber(n) ==
  LET a == (n \cup Shl(n, 8, 32)) \cap Mask12
      b == (a \cup Shl(a, 4, 32)) \cap Mask6
  IN (b \cup Shl(b, 2, 32)) \cap Mask3
getBitCombinedNumber(s) ==
  LET Joined(x, mask, n) == (x \cap mask) \cup Shr(x \cap mask, n)
  IN Joined(Joined(Joined(s, Mask3, 2), Mask6, 4), Mask12, 8) \cap Word(8)

level(m) == LET groups == {b \div 3 : b \in m \cap Word(3 * MAX_LEVEL)}
            IN IF groups = {} THEN -1 ELSE Max(groups)
mortonNumber(x, y, z) == getBitSeparatedNumber(x) \cup Shl(getBitSeparatedNumber(y), 1, 32)
                         \cup Shl(getBitSeparatedNumber(z), 2, 32)
position(m) == <<getBitCombinedNumber(m), getBitCombinedNumber(Shr(m, 1)),
                 getBitCombinedNumber(Shr(m, 2))>>
up(m) == Shr(m, 3)
down(m) == Shl(m, 3, 32)
enclose(a, b) == Shr(a, 3 * (level(Xor(a, b)) + 1))

Empty == /\ indices = [l \in Levels |-> << >>] /\ instances = [l \in Levels |-> << >>]
Init == Empty
clear == /\ indices' = [l \in Levels |-> << >>] /\ instances' = [l \in Levels |-> << >>]

\* The instance of a number, made when it is asked for first.  A number 0 has no
\* level, and must not be asked for.
assignInstance(m) ==
  LET lv == level(m) IN
  /\ lv # -1
  /\ IF m \in DOMAIN indices[lv] THEN UNCHANGED vars
     ELSE /\ indices' = [indices EXCEPT ![lv] = [x \in DOMAIN @ \cup {m} |->
                           IF x \in DOMAIN @ THEN @[x] ELSE Len(instances[lv]) + 1]]
          /\ instances' = [instances EXCEPT ![lv] = Append(@, m)]

\* The cell of a position at a level.
Cell(lv, x, y, z) == Shr(mortonNumber(x, y, z), (MAX_LEVEL - 1 - lv) * 3)
Total(f) == FoldFunction(+, 0, f)
size(lv) == IF lv = -1 THEN Total([l \in Levels |-> Len(instances[l])]) ELSE Len(instances[lv])

Next == (\E m \in Numbers : assignInstance(m)) \/ clear

Spec == Init /\ [][Next]_vars
-----------------------------------------------------------------------------
\* A number that has been asked for has one instance, its own, for as long as the
\* tree is not cleared, and size() counts them all (Octree.ipp:76-135).
InstancesAreDistinct ==
  /\ \A l \in Levels : \A m \in DOMAIN indices[l] :
       level(m) = l /\ instances[l][indices[l][m]] = m
  /\ size(-1) = Total([l \in Levels |-> Cardinality(DOMAIN indices[l])])

\* position() undoes mortonNumber(), the cell of a position is above it at each
\* level, and enclose() gives the lowest cell above two others
\* (Octree.ipp:11-73, 100-106).
PositionsAreExact(x, y, z, m) ==
  LET n == mortonNumber(x, y, z)
      Above(l) == Shr(n, 3 * (MAX_LEVEL - 1 - l))
      common == {k \in 0 .. MAX_LEVEL : Shr(n, 3 * k) = Shr(m, 3 * k)}
  IN /\ position(n) = <<x, y, z>>
     /\ up(down(n)) = n /\ \A l \in Levels : Cell(l, x, y, z) = Above(l)
     /\ enclose(n, m) = Shr(n, 3 * Min(common)) /\ enclose(m, n) = enclose(n, m)
=============================================================================
