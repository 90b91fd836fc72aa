--------------------------- MODULE ProgramOptions ---------------------------
(***************************************************************************)
(* Options key=value of a command line (misc/ProgramOptions.ipp).  A value   *)
(* is a sequence of words: true and false are words, "1" is a number.        *)
(***************************************************************************)
EXTENDS Naturals, Sequences

CONSTANT optionDescriptions    \* the keys addOption() declared

LOCAL INSTANCE SequencesExt
Tok == INSTANCE Tokenizer

\* The key and the value of one argument: its first two tokens.
KeyOf(arg) == Tok!set(arg, {"="}, FALSE, Tok!NoEscape).token
ValueOf(arg) == Tok!Next(Tok!set(arg, {"="}, FALSE, Tok!NoEscape)).token

\* parse() keeps the first value a known key gets.
parse(argv) ==
  FoldLeft(LAMBDA options, arg :
             IF KeyOf(arg) \notin optionDescriptions \/ KeyOf(arg) \in DOMAIN options THEN options
             ELSE [k \in DOMAIN options \cup {KeyOf(arg)} |->
                     IF k \in DOMAIN options THEN options[k] ELSE ValueOf(arg)],
           << >>, argv)

\* get<std::string>, get<T> for a number and get<bool>, with *is_fail.
get(options, key) == IF key \in DOMAIN options THEN [value |-> options[key], is_fail |-> FALSE]
                     ELSE [value |-> << >>, is_fail |-> TRUE]
getNumber(options, key) ==
  LET s == get(options, key)
  IN IF s.is_fail THEN [value |-> 0, is_fail |-> TRUE]
     ELSE [value |-> IF s.value = <<"1">> THEN 1 ELSE 0, is_fail |-> s.value # <<"1">>]
getBool(options, key) ==
  LET s == get(options, key)
  IN [value |-> ~s.is_fail /\ s.value = <<"true">>,
      is_fail |-> s.is_fail \/ s.value \notin {<<"true">>, <<"false">>}]
-----------------------------------------------------------------------------
\* A declared option that is given as key=value has the value of its first
\* argument, an option that is not given fails, and the getters agree on which
\* values they accept (ProgramOptions.ipp:19-100).
OptionsAreFirst(argv) ==
  \A key \in optionDescriptions :
    LET options == parse(argv)
        given == {i \in DOMAIN argv : IsPrefix(key, argv[i]) /\
                    (Len(argv[i]) = Len(key) \/ argv[i][Len(key) + 1] = "=")}
        first == CHOOSE i \in given : \A j \in given : i <= j
        value == SubSeq(argv[first], Len(key) + 2, Len(argv[first]))
        strict == \A i \in DOMAIN argv :
          \A k, l \in DOMAIN argv[i] : argv[i][1] # "=" /\ (argv[i][k] = "=" /\ argv[i][l] = "=" => k = l)
    IN /\ get(options, key).is_fail => getNumber(options, key).is_fail /\ getBool(options, key).is_fail
       /\ ~(~getNumber(options, key).is_fail /\ ~getBool(options, key).is_fail)
       /\ strict => /\ get(options, key).is_fail <=> given = {}
                    /\ given # {} => get(options, key).value = value
=============================================================================
