-------------------------------- MODULE Parts --------------------------------
(***************************************************************************)
(* What the modules that check several classes, one at a time, share: `part` *)
(* says which class it is, and s1, s2, ... are its module's variables, in the *)
(* order of its `vars`.                                                      *)
(***************************************************************************)
VARIABLES part, s1, s2, s3, s4, s5, s6, s7, s8, s9, s10

shared == <<s1, s2, s3, s4, s5, s6, s7, s8, s9, s10>>

\* The variables from s9, s8, ... or s1 on that a part has no use for.
No9 == s9 = 0 /\ s10 = 0
No8 == s8 = 0 /\ No9
No7 == s7 = 0 /\ No8
No6 == s6 = 0 /\ No7
No5 == s5 = 0 /\ No6
No4 == s4 = 0 /\ No5
No3 == s3 = 0 /\ No4
No2 == s2 = 0 /\ No3
No1 == s1 = 0 /\ No2
=============================================================================
