------------------------------ MODULE MCObjects ------------------------------
(***************************************************************************)
(* One at a time (see Parts), the classes that keep objects or a line of     *)
(* text: Readline, HashMap, SharedPtr, Signal and Octree; and the codings:   *)
(* Camellia's encryption, the blocks that SHA256 cuts a message into, and    *)
(* the conversions of pictures.                                              *)
(***************************************************************************)
EXTENDS Parts, Integers, Sequences, FiniteSets

CONSTANTS
  Characters, Prompt, MaxLine, MaxHistory, Commands, Entered, Saved,   \* of Readline
  MapKeys, Values, NoValue, MapHash, BUCKET_SIZE,          \* of HashMap
  Pointers, Cells,                                         \* of SharedPtr
  MaxSlots, MaxDepth,                                      \* of Signal
  MAX_LEVEL, Numbers                                       \* of Octree

\* Keys and places are numbers, and 0 names no counter.
ASSUME ObjectsAssumption ==
  /\ {MaxLine, MaxHistory, MaxSlots, MaxDepth} \subseteq Nat
  /\ MapKeys \subseteq Nat /\ MapHash \in [MapKeys -> Nat] /\ NoValue \in Values
  /\ {BUCKET_SIZE, MAX_LEVEL} \subseteq Nat \ {0} /\ MAX_LEVEL <= 8
  /\ IsFiniteSet(Pointers) /\ 0 \notin Cells

Line == INSTANCE Readline
  WITH ed <- s1, key_state <- s2, getting <- s3, isOpen <- s4, history <- s5,
       command <- s6, outf <- s7, file <- s8, clean <- s9

\* Text is sequences of characters, and commands have some (see Candidates).
ASSUME LineAssumption ==
  /\ Line!Text \subseteq Characters /\ Prompt \in Seq(Characters)
  /\ Commands \subseteq Seq(Seq(Characters)) /\ Entered \subseteq Seq(Characters)
  /\ Saved \subseteq Seq(Seq(Characters))
  /\ \A c \in Commands : \A i \in DOMAIN c : c[i] # << >>

Map == INSTANCE HashMap
  WITH Keys <- MapKeys, Empty <- NoValue, hash <- MapHash, IteratesEmpty <- FALSE,
       bucket <- s1, it <- s2, seen <- s3, present <- s4
Ptr == INSTANCE SharedPtr
  WITH ptr <- s1, ref_counter <- s2, t <- s3
Sig == INSTANCE Signal
  WITH slots <- s1, results <- s2, frames <- s3
Tree == INSTANCE Octree
  WITH indices <- s1, instances <- s2
-----------------------------------------------------------------------------
\* Places and numbers of the octree: PositionsAreExact is about functions.
Words == {x \cap Tree!Word(MAX_LEVEL) : x \in {{}, {0}, {7}, {1, 3, 5}, 0 .. 7}}
MortonNumbers == {m \cap Tree!Word(3 * MAX_LEVEL) : m \in {{0}, {23}, {5, 10}, {0, 1, 2, 9}}}

ObjectsInit ==
  \/ part = "readline" /\ Line!Init /\ s10 = 0
  \/ part = "map" /\ Map!Init /\ No5
  \/ part = "pointer" /\ Ptr!Init /\ No4
  \/ part = "signal" /\ Sig!Init /\ No4
  \/ part = "octree" /\ Tree!Init /\ No3
  \/ part = "positions" /\ s1 \in Words /\ s2 \in Words /\ s3 \in Words
     /\ s4 \in MortonNumbers /\ No5

ObjectsNext ==
  \/ part = "readline" /\ Line!Next /\ UNCHANGED s10
  \/ part = "map" /\ Map!Next /\ UNCHANGED <<s5, s6, s7, s8, s9, s10>>
  \/ part = "pointer" /\ Ptr!Next /\ UNCHANGED <<s4, s5, s6, s7, s8, s9, s10>>
  \/ part = "signal" /\ Sig!Next /\ UNCHANGED <<s4, s5, s6, s7, s8, s9, s10>>
  \/ part = "octree" /\ Tree!Next /\ UNCHANGED <<s3, s4, s5, s6, s7, s8, s9, s10>>

ObjectsSpec == ObjectsInit /\ [][ObjectsNext /\ UNCHANGED part]_<<part, shared>>

\* Readline: the screen shows the line after any keys, the history is what the
\* file has, and completion goes as far as the commands agree.
EditingSound ==
  part = "readline" => Line!TypeOK /\ Line!ScreenShowsLine /\ Line!HistoryIsSaved /\ Line!CompletionIsLongest

\* HashMap, SharedPtr, Signal and Octree: iterations are exact under changes,
\* objects live as long as their pointers, results come in the order of the slots,
\* and a number has one instance, at its place.
ContainersSound ==
  /\ part = "map" => Map!TypeOK /\ Map!InItsBucket /\ Map!IterationIsExact
  /\ part = "pointer" => Ptr!ObjectsAreCounted
  /\ part = "signal" => Sig!ResultsInOrder
  /\ part = "octree" => Tree!InstancesAreDistinct
  /\ part = "positions" => Tree!PositionsAreExact(s1, s2, s3, s4)
-----------------------------------------------------------------------------
(* The codings. *)

CONSTANTS
  Box(_, _), Sigma(_), CipherMessages, CipherKeys,  \* of CamelliaCipher
  ShaBlock, ShaBytes,                              \* of SHA256
  MaxSide                                          \* of PixelFormats

Cam == INSTANCE CamelliaCipher
  WITH stable <- Box, SIGMA <- Sigma, Messages <- CipherMessages, Keys <- CipherKeys,
       M <- s1, K <- s2, C <- s3, phase <- s4, r <- s5, e <- s6
Sha == INSTANCE SHA256
  WITH BLOCK <- ShaBlock, MaxBytes <- ShaBytes,
       blocks <- s1, data <- s2, count <- s3, dnum <- s4, pushed <- s5
Pix == INSTANCE PixelFormats

\* Messages have 128 bits and keys one of three sizes; a block has room for the
\* one bit and the length.
ASSUME CodecsAssumption ==
  /\ CipherMessages \subseteq SUBSET Cam!Word(128)
  /\ \A sk \in CipherKeys : sk[1] \in {128, 192, 256}
  /\ {ShaBlock, ShaBytes, MaxSide} \subseteq Nat /\ ShaBlock > 8
-----------------------------------------------------------------------------
CodecsInit == \/ part = "camellia" /\ Cam!Init /\ No7
              \/ part = "sha" /\ Sha!Init /\ No6
              \/ part = "pixels" /\ s1 \in 1 .. MaxSide /\ s2 \in 1 .. MaxSide /\ No3

CodecsNext == \/ part = "camellia" /\ Cam!Next /\ UNCHANGED <<s7, s8, s9, s10>>
              \/ part = "sha" /\ Sha!Next /\ UNCHANGED <<s6, s7, s8, s9, s10>>

CodecsSpec == CodecsInit /\ [][CodecsNext /\ UNCHANGED part]_<<part, shared>>

\* Camellia decrypts what it encrypted, SHA256 pads as its standard says, and
\* pictures survive their conversions.
CodecsSound ==
  /\ part = "camellia" => Cam!DecryptInverts
  /\ part = "sha" => Sha!PaddingIsStandard
  /\ part = "pixels" => Pix!PicturesSurvive(s1, s2)
=============================================================================
