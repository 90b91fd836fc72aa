----------------------------- MODULE SharedPtr -----------------------------
(***************************************************************************)
(* Counted pointers (misc/SharedPtr.ipp): constructed, copied, assigned and  *)
(* destroyed.  0 stands for no counter and no object.                       *)
(***************************************************************************)
EXTENDS Naturals, FiniteSets

CONSTANTS Pointers, Cells

VARIABLES
  ptr,          \* pointer -> its counter, 0 if the pointer is not alive
  ref_counter,  \* counter -> its value
  t             \* counter -> "none", "null", "object" or "deleted"

vars == <<ptr, ref_counter, t>>

Init == /\ ptr = [p \in Pointers |-> 0] /\ ref_counter = [c \in Cells |-> 0]
        /\ t = [c \in Cells |-> "none"]
-----------------------------------------------------------------------------
Alive(p) == ptr[p] # 0

Construct(p, object) == \E c \in Cells :
  /\ ~Alive(p) /\ ref_counter[c] = 0
  /\ ptr' = [ptr EXCEPT ![p] = c] /\ ref_counter' = [ref_counter EXCEPT ![c] = 1]
  /\ t' = [t EXCEPT ![c] = object]

Copy(p, s) == /\ ~Alive(p) /\ Alive(s)
              /\ ptr' = [ptr EXCEPT ![p] = ptr[s]]
              /\ ref_counter' = [ref_counter EXCEPT ![ptr[s]] = @ + 1]
              /\ UNCHANGED t

\* The object goes with the last pointer.
Dropped(c) == [ref_counter EXCEPT ![c] = @ - 1]
Deleted(c) == IF ref_counter[c] = 1 /\ t[c] # "null" THEN [t EXCEPT ![c] = "deleted"] ELSE t

Destroy(p) == /\ Alive(p) /\ ptr' = [ptr EXCEPT ![p] = 0]
              /\ ref_counter' = Dropped(ptr[p]) /\ t' = Deleted(ptr[p])

\* operator= drops first: the only pointer to an object must not be assigned to
\* itself.
Assign(p, s) ==
  /\ Alive(p) /\ Alive(s) /\ ~(p = s /\ ref_counter[ptr[p]] = 1)
  /\ ptr' = [ptr EXCEPT ![p] = ptr[s]]
  /\ t' = Deleted(ptr[p])
  /\ ref_counter' = [Dropped(ptr[p]) EXCEPT ![ptr[s]] = @ + 1]

Next == \E p \in Pointers : \/ \E o \in {"null", "object"} : Construct(p, o)
                            \/ Destroy(p)
                            \/ \E s \in Pointers : Copy(p, s) \/ Assign(p, s)

Spec == Init /\ [][Next]_vars
-----------------------------------------------------------------------------
Holders(c) == {p \in Pointers : ptr[p] = c}

\* A counter is the number of pointers that use it, and an object is there as
\* long as one does, and no longer (SharedPtr.ipp:10-45).
ObjectsAreCounted == \A c \in Cells :
  /\ ref_counter[c] = Cardinality(Holders(c))
  /\ IF Holders(c) # {} THEN t[c] \in {"null", "object"} ELSE t[c] # "object"
=============================================================================
