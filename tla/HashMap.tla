------------------------------ MODULE HashMap ------------------------------
(***************************************************************************)
(* A hash map of ordered buckets, and an iterator over it                   *)
(* (misc/HashMap.ipp).  Keys are numbers, in the order of a bucket; hash is   *)
(* any function from keys to numbers, BUCKET_SIZE at least 1.               *)
(***************************************************************************)
EXTENDS Integers, Sequences

CONSTANTS Keys, Values, Empty,   \* Empty is the value operator[] gives a new key
          hash,                  \* a function from Keys to Nat
          BUCKET_SIZE,
          IteratesEmpty          \* does the user iterate over an empty map?

VARIABLES
  bucket,    \* from 0 .. BUCKET_SIZE - 1 to functions from keys to values
  it,        \* an iterator: [bnum, of, key]; at the end of bucket `of` if key is End
  seen,      \* keys it has shown since begin(), in their order
  present    \* keys that have been there since begin()

vars == <<bucket, it, seen, present>>

Buckets == 0 .. BUCKET_SIZE - 1
End == -1
Of(k) == hash[k] % BUCKET_SIZE
end == [bnum |-> BUCKET_SIZE, of |-> BUCKET_SIZE - 1, key |-> End]

Init == /\ bucket = [b \in Buckets |-> << >>] /\ it = end
        /\ seen = << >> /\ present = {}
-----------------------------------------------------------------------------
Has(k) == k \in DOMAIN bucket[Of(k)]
Insert(k, v) ==
  /\ bucket' = [bucket EXCEPT ![Of(k)] =
                  [x \in DOMAIN @ \cup {k} |-> IF x \in DOMAIN @ THEN @[x] ELSE v]]
  /\ UNCHANGED <<it, seen, present>>

\* add() keeps the value a key has; operator[] gives a new key the empty value,
\* and a reference to write through.
Add(k, v) == Insert(k, v)
Index(k) == Insert(k, Empty)
Assign(k, v) == /\ Has(k) /\ bucket' = [bucket EXCEPT ![Of(k)][k] = v]
                /\ UNCHANGED <<it, seen, present>>

\* The key must be there, and an iterator at it would be lost.
Remove(k) ==
  /\ Has(k) /\ it.key # k
  /\ bucket' = [bucket EXCEPT ![Of(k)] = [x \in DOMAIN @ \ {k} |-> @[x]]]
  /\ present' = present \ {k}
  /\ UNCHANGED <<it, seen>>

Clear == /\ it.key = End
         /\ bucket' = [b \in Buckets |-> << >>] /\ present' = {}
         /\ UNCHANGED <<it, seen>>

Least(S) == CHOOSE k \in S : \A x \in S : k <= x
\* Mutant: the bucket the search starts at is left out.
MutFirstFrom(b) ==
  LET full == {c \in Buckets : c > b /\ DOMAIN bucket[c] # {}}
  IN IF full = {} THEN end
     ELSE [bnum |-> Least(full), of |-> Least(full), key |-> Least(DOMAIN bucket[Least(full)])]

\* The first key of the first bucket at or after b that has one.
FirstFrom(b) ==
  LET full == {c \in Buckets : c >= b /\ DOMAIN bucket[c] # {}}
  IN IF full = {} THEN end
     ELSE [bnum |-> Least(full), of |-> Least(full), key |-> Least(DOMAIN bucket[Least(full)])]

AllKeys == UNION {DOMAIN bucket[b] : b \in Buckets}
Starts(i) == /\ it' = i /\ seen' = (IF i.key = End THEN << >> ELSE <<i.key>>)
             /\ present' = {k \in AllKeys : i.key # End /\ (Of(k) > i.bnum \/ (Of(k) = i.bnum /\ k >= i.key))}
             /\ UNCHANGED bucket

\* begin() of an empty map is not end().
begin == IF AllKeys = {} THEN [end EXCEPT !.bnum = BUCKET_SIZE - 1] ELSE FirstFrom(0)
Begin == (IteratesEmpty \/ AllKeys # {}) /\ Starts(begin)

\* operator++: on in the bucket, else to the next one that has a key.
Increment ==
  /\ it.key # End
  /\ LET rest == {k \in DOMAIN bucket[it.bnum] : k > it.key}
     IN it' = IF rest # {} THEN [it EXCEPT !.key = Least(rest)] ELSE FirstFrom(it.bnum + 1)
  /\ seen' = (IF it'.key = End THEN seen ELSE Append(seen, it'.key))
  /\ UNCHANGED <<bucket, present>>

\* at(): end() if the key is not there.
at(k) == IF Has(k) THEN [bnum |-> Of(k), of |-> Of(k), key |-> k] ELSE end
Find(k) == it = end /\ Starts(at(k))

Next == \/ \E k \in Keys : \/ \E v \in Values : Add(k, v) \/ Assign(k, v)
                           \/ Index(k) \/ Remove(k) \/ Find(k)
        \/ Clear \/ Begin \/ Increment

Spec == Init /\ [][Next]_vars
-----------------------------------------------------------------------------
TypeOK == /\ \A b \in Buckets : \A k \in DOMAIN bucket[b] : k \in Keys /\ bucket[b][k] \in Values
          /\ (it.key = End \/ it.key \in DOMAIN bucket[it.bnum])

\* A key is in its own bucket only: at() and operator[] find what add() stored
\* (HashMap.ipp:145-236).
InItsBucket == \A b \in Buckets : \A k \in DOMAIN bucket[b] : Of(k) = b

\* An iteration shows every key that is there all the time, and none twice,
\* whatever is added and removed meanwhile, and it ends at end()
\* (HashMap.ipp:33-48, 166-214).
IterationIsExact ==
  /\ it.key = End => it = end
  /\ it = end => \A k \in present : \E i \in DOMAIN seen : seen[i] = k
  /\ \A i, j \in DOMAIN seen : i # j => seen[i] # seen[j]
=============================================================================
