---------------------------- MODULE MessageSeqs ----------------------------
(***************************************************************************)
(* Sequences of messages, where a message is the number of its acceptance. *)
(***************************************************************************)
EXTENDS Naturals, Sequences

Items(s) == {s[i] : i \in DOMAIN s}

Prefix(s, t) == /\ Len(s) <= Len(t)
                /\ \A i \in 1 .. Len(s) : s[i] = t[i]

Increasing(s) == \A i, j \in DOMAIN s : i < j => s[i] < s[j]
=============================================================================
