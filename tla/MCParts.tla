------------------------------ MODULE MCParts ------------------------------
(***************************************************************************)
(* The classes of MCNet and MCObjects and the rest of the library, one at a  *)
(* time (see Parts).  A part that is a function, not a machine, is           *)
(* checked on the inputs its initial states choose.                         *)
(***************************************************************************)
EXTENDS MCNet, MCObjects, SequencesExt

\* A LoopThread with one user, over any library.
OneUser == INSTANCE LoopThread
  WITH Controllers <- {"user"}, Owner <- "user", MaxStarts <- 3, ProbeEnded <- BOOLEAN,
       ProbeStale <- BOOLEAN, CreateOutcomes <- BOOLEAN, tid <- s1, loop <- s2,
       stopFlag <- s3, suspendFlag <- s4, call <- s5, destroyed <- s6, starts <- s7, late <- s8

Tok == INSTANCE Tokenizer
Opt == INSTANCE ProgramOptions WITH optionDescriptions <- {<<"k">>, <<"k", "l">>}
Section(name) == [kind |-> "section", name |-> name]
Include(name) == [kind |-> "include", name |-> name]
Pairs(pairs) == [kind |-> "config", pairs |-> pairs]
MainLines == {Section("s"), Section("t"), Include("main"), Include("more"),
              Pairs(<< <<"k", 1>>, <<"l", 2>> >>)}
MoreLines == {Section("t"), Include("main"), Pairs(<< <<"k", 3>> >>)}
Conf == INSTANCE ConfigFileReader
  WITH Files <- {"main", "more"}, Opened <- "main", ShortNames <- {},
       Contents <- {[f \in {"main", "more"} |-> IF f = "main" THEN a ELSE b] :
                      a \in SeqOf(MainLines, 3), b \in SeqOf(MoreLines, 2)},
       contents <- s1, fstack <- s2, section <- s3, config <- s4, in_section <- s5,
       reading <- s6, eof_flag <- s7, got <- s8
Addr == INSTANCE Address WITH PathLength <- 1
Answers == [family : {"IPv4", "IPv6"}, host : {Peer, Multicast}]

Num == INSTANCE intX_t WITH BASE1 <- 2, BASE_CNUM <- 2, BYTE <- 4
\* Up to four digits in base 4, with zeros and threes at all places.
Operands == -9 .. 20 \cup {-64, -52, -49, 31, 32, 47, 48, 49, 52, 60, 63, 64, 70}
RSA == INSTANCE RSACipher
  WITH Bits <- 5, p <- s1, q <- s2, n <- s3, e <- s4, d <- s5, M <- s6, C <- s7, result <- s8

Crc == INSTANCE CRC
-----------------------------------------------------------------------------
InputsInit ==
  \/ part = "tokens" /\ No2
     /\ \E s \in SeqOf({"a", "delim", "escape"}, 5), keep \in BOOLEAN, esc \in {"none", "escape"} :
          s1 = Tok!set(s, {"delim"}, keep, esc)
  \/ part = "options" /\ s1 \in SeqOf({"k", "l", "=", "1", "true"}, 3)
     /\ s2 \in SeqOf({"k", "=", "1"}, 3) /\ No3
  \/ part = "answers" /\ s1 \in SeqOf(Answers, 4) /\ No2
  \/ part = "numbers" /\ s1 \in Operands /\ s2 \in Operands /\ No3
  \/ part = "crc" /\ s1 \in Crc!Types /\ s2 \in {<< >>, << {0, 5, 6}, {1, 7} >>, << {}, {3}, 0 .. 7 >>}
     /\ s3 \in {{0}, {0, 3}, {0, 1, 7}} /\ s4 \in 0 .. 40 /\ No5
  \/ part = "checksum" /\ s1 \in {0, 2, 255, 256, 32768, 65534, 65535} /\ s2 \in {0, 1, 256, 65535}
     /\ s3 \in 1 .. 3 /\ s4 \in {0, 1, 77, 65535} /\ No5

MCInit ==
  \/ NetInit
  \/ /\ Init
     /\ \/ ObjectsInit
        \/ part = "config" /\ Conf!Init /\ No9
        \/ part = "rsa" /\ RSA!Init /\ No9
        \/ part = "loop" /\ OneUser!Init /\ No9
        \/ CodecsInit
        \/ InputsInit

MCNext ==
  /\ UNCHANGED part
  /\ \/ NetNext
     \/ /\ UNCHANGED vars
        /\ \/ ObjectsNext
           \/ part = "config" /\ Conf!Next /\ UNCHANGED <<s9, s10>>
           \/ part = "rsa" /\ RSA!Next /\ UNCHANGED <<s9, s10>>
           \/ part = "loop" /\ OneUser!Next /\ UNCHANGED <<s9, s10>>
           \/ CodecsNext

MCSpec == MCInit /\ [][MCNext]_<<part, vars, shared>>
-----------------------------------------------------------------------------
\* Where one thread starts, stops, joins and destroys a LoopThread, tid names the running
\* loop and the object outlives it, whatever the library answers for a thread that has
\* ended and wherever isRunning() then clears tid (Thread.ipp:203-239, 426-487).
OneUserLoopSafe == part = "loop" => OneUser!LoopSafe

\* Tokenizer, ProgramOptions, ConfigFileReader and Address's resolve() give what
\* their references say.
ParsersSound ==
  /\ part = "tokens" => Tok!TokensArePieces(s1)
  /\ part = "options" => Opt!OptionsAreFirst(<<s1, s2>>)
  /\ part = "config" => Conf!SectionsAreComplete
  /\ part = "answers" => Addr!ResolvedIsExact(s1)

\* intX_t computes with the integers' results where no place borrows twice, and RSA's
\* keys undo each other.
NumbersSound ==
  /\ part = "numbers" => /\ Num!ArithmeticIsExact(s1, s2)
                         /\ s1 >= 0 /\ s2 >= 0 => Num!DivisionIsExact(s1, s2)
  /\ part = "rsa" => RSA!DecryptInverts

\* Adding to a difference of intX_t's what was subtracted gives the number again.
DifferencesAddUp == part = "numbers" => Num!DifferenceAddsUp(s1, s2)

\* The checksums notice what they are for, and Camellia changes the messages and
\* fills every subkey once, at its rotation.
ChecksumsSound ==
  /\ part = "crc" => Crc!ChecksDetect(s1, s2, s3, s4)
  /\ part = "checksum" => Crc!ChecksumDetects(<<s1, s2>>, s3, s4)
  /\ part = "camellia" => (s4 = "done" => s3 # s1 /\ Cam!ScheduleIsFull(s2.size))
-----------------------------------------------------------------------------
\* A small terminal, history and set of commands, and a map with a full bucket.
SomePrompt == <<">">>
SomeCommands == {<< <<"x", "x">>, <<"x", "y">> >>}
SomeLines == {<< >>, <<"x">>, <<"x", "x">>}
SomeFiles == {<< << >> >>}
SomeHash == 0 :> 1 @@ 1 :> 3 @@ 2 :> 1 @@ 3 :> 7

\* Some table and some constants, neither linear nor symmetric.
SomeBox(i, x) == Crc!Xor({(3 * b + i) % 8 : b \in x},
                         Crc!Xor({(b + 1) % 8 : b \in {c \in x : (c + i) % 8 \in x}}, {i, 2}))
SomeSigma(i) == {b \in 0 .. 63 : (b * b + 3 * i * b) % 7 < 3}
SomeBlocks == {{}, {127}, {b \in 0 .. 127 : b % 3 = 1 \/ b % 7 = 2}}
SomeKeys == {128, 192, 256} \X {{b \in 0 .. 127 : b % 5 \in {1, 2} \/ b % 11 = 3}}
=============================================================================
