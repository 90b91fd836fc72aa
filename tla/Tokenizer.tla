----------------------------- MODULE Tokenizer -----------------------------
(***************************************************************************)
(* The tokenizer (misc/Tokenizer.ipp) as a value: [orig, delim, keep_delim,  *)
(* escape, seek, token], and one that is iterated to the end.  Strings are   *)
(* sequences of characters, positions begin at 1, and npos is 0.             *)
(***************************************************************************)
EXTENDS Naturals, Sequences

LOCAL INSTANCE SequencesExt

npos == 0
NoEscape == "none"

\* The first position from i on whose character is not in chars.
find_first_not_of(s, chars, i) ==
  LET found == {k \in i .. Len(s) : s[k] \notin chars}
  IN IF i = npos \/ found = {} THEN npos ELSE CHOOSE k \in found : \A l \in found : k <= l

isEmpty(t) == t.seek = npos /\ t.token = << >>

\* Mutant: the token ends at an escaped delimiter, too.
MutEndOfToken(t) ==
  LET ends == {k \in t.seek .. Len(t.orig) : t.orig[k] \in t.delim}
  IN IF ends = {} THEN npos
     ELSE LET k == CHOOSE k \in ends : \A l \in ends : k <= l
          IN IF k = t.seek THEN k + 1 ELSE k

\* Where the token from seek on ends: at a delimiter that is not escaped, after
\* it if the token is the delimiter.
EndOfToken(t) ==
  LET Ends(k) == /\ t.orig[k] \in t.delim
                 /\ (k = t.seek \/ t.escape = NoEscape \/ t.orig[k - 1] # t.escape)
      ends == {k \in t.seek .. Len(t.orig) : Ends(k)}
  IN IF ends = {} THEN npos
     ELSE LET k == CHOOSE k \in ends : \A l \in ends : k <= l
          IN IF k = t.seek THEN k + 1 ELSE k

Next(t) ==
  IF isEmpty(t) THEN t
  ELSE LET from == IF t.keep_delim THEN t.seek ELSE find_first_not_of(t.orig, t.delim, t.seek)
           u == [t EXCEPT !.seek = from]
           ep == EndOfToken(u)
       IN IF from = npos THEN [u EXCEPT !.token = << >>]
          ELSE [u EXCEPT !.seek = ep,
                         !.token = SubSeq(t.orig, from, IF ep = npos THEN Len(t.orig) ELSE ep - 1)]

clear(t) == Next([t EXCEPT !.seek = 1, !.token = << >>])
set(orig, delim, keep_delim, escape) ==
  clear([orig |-> orig, delim |-> delim, keep_delim |-> keep_delim, escape |-> escape,
         seek |-> npos, token |-> << >>])

\* What a tokenizer gives until it is empty.
Tokens(t) ==
  LET step[i \in 1 .. Len(t.orig) + 2] == IF i = 1 THEN t ELSE Next(step[i - 1])
  IN SelectSeq([i \in 1 .. Len(t.orig) + 2 |-> step[i].token], LAMBDA s : s # << >>)
-----------------------------------------------------------------------------
\* A reference: cut before and after every delimiter that no escape precedes.
Cuts(t, k) == t.orig[k] \in t.delim /\ (t.escape = NoEscape \/ k = 1 \/ t.orig[k - 1] # t.escape)
Pieces(t) ==
  LET Starts(k) == k = 1 \/ Cuts(t, k) \/ Cuts(t, k - 1)
      starts == SetToSortSeq({k \in DOMAIN t.orig : Starts(k)}, <)
  IN [i \in DOMAIN starts |->
        SubSeq(t.orig, starts[i], IF i = Len(starts) THEN Len(t.orig) ELSE starts[i + 1] - 1)]
IsDelimiter(t, s) == Len(s) = 1 /\ s[1] \in t.delim

\* The tokens are the pieces between delimiters, with the delimiters if they are
\* kept; and a second pass gives the same (Tokenizer.ipp:35-96).
TokensArePieces(t) ==
  LET all == Pieces(t)
  IN /\ Tokens(t) = IF t.keep_delim THEN all ELSE SelectSeq(all, LAMBDA s : ~IsDelimiter(t, s))
     /\ Tokens(clear(Next(t))) = Tokens(t)
=============================================================================
