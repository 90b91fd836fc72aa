-------------------------- MODULE ConfigFileReader --------------------------
(***************************************************************************)
(* Sections of a configuration file that may include others                 *)
(* (misc/ConfigFileReader.ipp).  A line is a record: a section's header, an   *)
(* inclusion, or assignments key = value, none for a blank line.            *)
(***************************************************************************)
EXTENDS Naturals, Sequences

LOCAL INSTANCE SequencesExt

CONSTANTS
  Files, Opened,  \* the files, and the one that is opened
  Contents,       \* what the files may hold: functions from Files to sequences of lines
  ShortNames      \* files whose name is a single character

VARIABLES
  contents,   \* file -> its lines
  fstack,     \* [file, pos], pos the number of lines that have been read
  section, config, in_section,
  reading,    \* does operator++ run?
  eof_flag,
  got         \* what operator++ gave so far

vars == <<contents, fstack, section, config, in_section, reading, eof_flag, got>>

Init == /\ contents \in Contents
        /\ fstack = <<[file |-> Opened, pos |-> 0]>>
        /\ section = "" /\ config = << >> /\ in_section = FALSE
        /\ reading = TRUE /\ eof_flag = FALSE /\ got = << >>
-----------------------------------------------------------------------------
Top == fstack[Len(fstack)]
HasLine == fstack # << >> /\ Top.pos < Len(contents[Top.file])
Line == contents[Top.file][Top.pos + 1]
Advanced == [fstack EXCEPT ![Len(fstack)].pos = @ + 1]
InStack(f) == \E i \in DOMAIN fstack : fstack[i].file = f

\* operator++ begins.
Begin ==
  /\ ~reading /\ ~eof_flag
  /\ section' = "" /\ config' = << >> /\ in_section' = FALSE
  /\ reading' = (fstack # << >>) /\ eof_flag' = (fstack = << >>)
  /\ UNCHANGED <<contents, fstack, got>>

Gives == got' = Append(got, [section |-> section, config |-> config]) /\ reading' = FALSE

\* The first header gives the section its name; the next one is left for the
\* next call.
ReadHeader ==
  /\ reading /\ HasLine /\ Line.kind = "section"
  /\ IF in_section THEN Gives /\ UNCHANGED <<fstack, section, in_section>>
     ELSE /\ section' = Line.name /\ in_section' = TRUE /\ fstack' = Advanced
          /\ UNCHANGED <<got, reading>>
  /\ UNCHANGED <<contents, config, eof_flag>>

\* A file that is being read is not included again, nor one with a short name.
ReadInclude ==
  /\ reading /\ HasLine /\ Line.kind = "include"
  /\ fstack' = IF InStack(Line.name) \/ Line.name \in ShortNames THEN Advanced
               ELSE Append(Advanced, [file |-> Line.name, pos |-> 0])
  /\ UNCHANGED <<contents, section, config, in_section, reading, eof_flag, got>>

\* The first value of a key stays.
Inserted(c, kv) == IF \E i \in DOMAIN c : c[i][1] = kv[1] THEN c ELSE Append(c, kv)
ReadAssignments ==
  /\ reading /\ HasLine /\ Line.kind = "config"
  /\ config' = FoldLeft(Inserted, config, Line.pairs)
  /\ fstack' = Advanced
  /\ UNCHANGED <<contents, section, in_section, reading, eof_flag, got>>

EndOfFile ==
  /\ reading /\ ~HasLine
  /\ IF Len(fstack) > 0 THEN fstack' = Front(fstack) /\ UNCHANGED <<got, reading>>
     ELSE Gives /\ UNCHANGED fstack
  /\ UNCHANGED <<contents, section, config, in_section, eof_flag>>

Next == Begin \/ ReadHeader \/ ReadInclude \/ ReadAssignments \/ EndOfFile

Spec == Init /\ [][Next]_vars
-----------------------------------------------------------------------------
\* A reference: all lines in the order of inclusion, where a file does not
\* include itself again, and a section for each header but the first.
Flat ==
  LET flat[n \in 0 .. 3, f \in Files, open \in SUBSET Files] ==
        FoldLeft(LAMBDA all, l :
                   IF l.kind # "include" THEN Append(all, l)
                   ELSE IF n = 0 \/ l.name \in open \cup ShortNames THEN all
                   ELSE all \o flat[n - 1, l.name, open \cup {l.name}],
                 << >>, contents[f])
  IN flat[3, Opened, {Opened}]

Sections ==
  FoldLeft(LAMBDA all, l :
             LET s == Last(all)
                 With(t) == Append(Front(all), t)
             IN CASE l.kind = "config" -> With([s EXCEPT !.config = FoldLeft(Inserted, @, l.pairs)])
                  [] l.kind = "section" /\ s.named -> Append(all, [section |-> l.name, config |-> << >>, named |-> TRUE])
                  [] OTHER -> With([s EXCEPT !.section = l.name, !.named = TRUE]),
           <<[section |-> "", config |-> << >>, named |-> FALSE]>>, Flat)

\* Iterating over a reader gives the sections of the file with its inclusions,
\* one each, and then it is empty; a section may span files
\* (ConfigFileReader.ipp:20-155).
SectionsAreComplete ==
  LET all == [i \in DOMAIN Sections |-> [section |-> Sections[i].section, config |-> Sections[i].config]]
  IN IsPrefix(got, all) /\ (eof_flag => got = all)
=============================================================================
