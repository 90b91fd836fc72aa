------------------------------ MODULE Readline ------------------------------
(***************************************************************************)
(* The line editor (readline/Readline.ipp) and the row of the terminal it    *)
(* draws on, by Cursor::move and the characters it prints.  The prompt is on  *)
(* the last row of the terminal, which is wide enough for the line.          *)
(***************************************************************************)
EXTENDS Naturals, Sequences, SequencesExt

CONSTANTS Prompt,       \* the prompt, a sequence of characters
          MaxLine, MaxHistory,
          Commands,     \* what the user may register: a set of sequences of commands
          Entered,      \* lines the user may enter
          Saved         \* what the history file may hold at first

VARIABLES
  ed,        \* _get()'s locals buf, cursor_pos, history_i, and the terminal's row
  key_state,
  getting,   \* is _get() running?
  isOpen, history, command,
  outf,      \* is history_outf open?
  file,      \* the history file
  clean      \* did the prompt start a row, and was no control character echoed?

vars == <<ed, key_state, getting, isOpen, history, command, outf, file, clean>>

Esc == "esc"
Space == "space"
Text == {"x", Space, Esc}
Width == Len(Prompt) + MaxLine + 1
Blank(n) == [i \in 1 .. n |-> Space]
From(s, i) == SubSeq(s, i + 1, Len(s))
NewRow == [row |-> Blank(Width), col |-> 1]

Fresh(i, t) == [buf |-> << >>, cursor |-> 0, history_i |-> i, term |-> t]

Init == /\ ed = Fresh(0, NewRow)
        /\ key_state = "none" /\ getting = FALSE /\ isOpen \in BOOLEAN
        /\ history = << >> /\ command = << >> /\ outf = FALSE /\ file \in Saved
        /\ clean = TRUE
-----------------------------------------------------------------------------
\* The terminal prints from its cursor on; Cursor::move moves the cursor.
Put(t, s) == [row |-> [i \in 1 .. Width |-> IF i \in t.col .. t.col + Len(s) - 1
                                            THEN s[i - t.col + 1] ELSE t.row[i]],
              col |-> t.col + Len(s)]
Move(t, c) == [t EXCEPT !.col = Len(Prompt) + c + 1]

\* The edits of a line, with what they draw.
MoveTo(e, c) == [e EXCEPT !.cursor = c, !.term = Move(@, c)]
MoveBackward(e) == IF e.cursor # 0 THEN MoveTo(e, e.cursor - 1) ELSE e
MoveForward(e) == IF e.cursor < Len(e.buf) THEN MoveTo(e, e.cursor + 1) ELSE e

\* Mutant: without the blanks.
MutRedrawn(e, rest) == Move(Put(Move(e.term, e.cursor), rest), e.cursor)

\* Blanks over what follows the cursor, then the new rest of the line.
Redrawn(e, rest) ==
  Move(Put(Move(Put(e.term, Blank(Len(e.buf) - e.cursor)), e.cursor), rest), e.cursor)
RemoveLine(e) == [e EXCEPT !.buf = SubSeq(@, 1, e.cursor), !.term = Redrawn(e, << >>)]
RemoveChar(e) ==
  LET rest == From(e.buf, e.cursor + 1)
  IN [e EXCEPT !.buf = SubSeq(@, 1, e.cursor) \o rest, !.term = Redrawn(e, rest)]
Inserted(e, c) ==
  LET rest == <<c>> \o From(e.buf, e.cursor)
  IN [e EXCEPT !.buf = SubSeq(@, 1, e.cursor) \o rest, !.cursor = @ + 1,
               !.term = Move(Redrawn(e, rest), e.cursor + 1)]

\* A line of the history in place of the line, or an empty one beyond the end.
Recalled(e, i) ==
  LET b == IF i < Len(history) THEN history[i + 1] ELSE << >>
  IN [buf |-> b, cursor |-> Len(b), history_i |-> i,
      term |-> Put(Move(Put(Move(e.term, 0), Blank(Len(e.buf))), 0), b)]
HistoryNext(e) == Recalled(e, IF e.history_i # Len(history) THEN e.history_i + 1 ELSE e.history_i)
HistoryPrevious(e) == IF e.history_i # 0 THEN Recalled(e, e.history_i - 1) ELSE e

CommonPrefix(a, b) ==
  SubSeq(a, 1, CHOOSE n \in 0 .. Len(a) : /\ IsPrefix(SubSeq(a, 1, n), b)
                                         /\ (n = Len(a) \/ ~IsPrefix(SubSeq(a, 1, n + 1), b)))
\* Those elements of s that are good, in order.
Those(s, good) ==
  LET those[i \in 0 .. Len(s)] == IF i = 0 THEN << >>
                                  ELSE IF s[i] \in good THEN Append(those[i - 1], s[i])
                                  ELSE those[i - 1]
  IN those[Len(s)]
\* std::search also finds every key at the start of an empty command: Commands has
\* none.
Candidates(key) == Those(command, {c \in Range(command) : IsPrefix(key, c)})

\* completion(): a single candidate is followed by a blank; several are listed,
\* which scrolls the row away.
Completed(key) ==
  LET c == Candidates(key)
      ret[i \in 1 .. Len(c)] == IF i = 1 THEN c[1] ELSE CommonPrefix(ret[i - 1], c[i])
  IN IF Len(c) = 1 THEN Append(c[1], Space) ELSE ret[Len(c)]
Completion(e) ==
  LET n == Len(Candidates(e.buf))
      b == Completed(e.buf)
  IN IF n = 0 THEN e
     ELSE [e EXCEPT !.buf = b, !.cursor = Len(b),
                    !.term = Put(IF n > 1 THEN NewRow ELSE [@ EXCEPT !.col = 1], Prompt \o b)]
-----------------------------------------------------------------------------
Drawn(e) == IF clean THEN e ELSE [e EXCEPT !.term = NewRow]
Edit(e) == /\ Len(e.buf) <= MaxLine /\ ed' = Drawn(e)
           /\ UNCHANGED <<getting, isOpen, history, command, outf, file, clean>>

\* Editing keys act in any key_state and leave it.  BS moves and removes: at the
\* start of the line it removes the character under the cursor.
EditingKey ==
  /\ getting /\ UNCHANGED key_state
  /\ \E e \in {Completion(ed), MoveTo(ed, 0), MoveTo(ed, Len(ed.buf)), MoveBackward(ed),
               MoveForward(ed), RemoveChar(ed), RemoveLine(ed), HistoryNext(ed),
               HistoryPrevious(ed), RemoveChar(MoveBackward(ed))} : Edit(e)

\* esc [ A, B, C or D, and esc [ 3 ~.  Any other key ends esc [ without effect,
\* a newline too.
EscapeSequence ==
  /\ getting
  /\ \/ key_state = "none" /\ key_state' = "esc" /\ Edit(ed)
     \/ key_state = "esc" /\ key_state' = "esc[" /\ Edit(ed)
     \/ key_state = "esc[" /\ key_state' = "esc[3" /\ Edit(ed)
     \/ /\ key_state = "esc[" /\ key_state' = "none"
        /\ \E e \in {HistoryPrevious(ed), HistoryNext(ed), MoveBackward(ed), MoveForward(ed), ed} : Edit(e)
     \/ key_state = "esc[3" /\ key_state' = "none" /\ Edit(RemoveChar(ed))

\* Text that is no part of an escape sequence; an esc that is not the first of
\* one is text, which the terminal does not show.
TypeText ==
  /\ getting /\ Len(ed.buf) < MaxLine
  /\ \E c \in Text :
       /\ \/ key_state = "none" /\ c # Esc
          \/ key_state = "esc"
          \/ key_state = "esc[3"
       /\ clean' = (clean /\ c # Esc)
       /\ ed' = IF clean' THEN Inserted(ed, c) ELSE [Inserted(ed, c) EXCEPT !.term = NewRow]
  /\ key_state' = "none"
  /\ UNCHANGED <<getting, isOpen, history, command, outf, file>>

\* The lines of a file that are not empty.
Lines(f) == Those(f, Range(f) \ {<< >>})

Stripped(s) == SubSeq(s, 1, CHOOSE n \in 0 .. Len(s) : /\ \A i \in n + 1 .. Len(s) : s[i] = Space
                                                      /\ (n = 0 \/ s[n] # Space))
Enter ==
  /\ getting /\ key_state # "esc["
  /\ LET b == Stripped(ed.buf)
         new == b # << >> /\ (history = << >> \/ b # Last(history)) IN
     /\ b \in Entered
     /\ new => Len(history) < MaxHistory /\ Len(file) < MaxHistory
     /\ history' = IF new THEN Append(history, b) ELSE history
     /\ file' = IF new /\ outf THEN Append(file, b) ELSE file
  /\ getting' = FALSE /\ ed' = Fresh(0, NewRow) /\ key_state' = "none" /\ clean' = TRUE
  /\ UNCHANGED <<isOpen, command, outf>>

\* _read() fails: nothing came in time, or the terminal is gone and _close()
\* gives up for good.  The line is lost and stays on the screen.
ReadFails(open) ==
  /\ getting /\ getting' = FALSE /\ isOpen' = open
  /\ outf' = (outf /\ open)
  /\ clean' = FALSE /\ ed' = Fresh(0, NewRow) /\ key_state' = "none"
  /\ UNCHANGED <<history, command, file>>

Get ==
  /\ ~getting /\ isOpen /\ getting' = TRUE
  /\ ed' = Drawn(Fresh(Len(history), Put(NewRow, Prompt)))
  /\ UNCHANGED <<key_state, isOpen, history, command, outf, file, clean>>

\* Between two calls of get().  The order of the commands makes no difference.
SetCommands == /\ ~getting /\ command' \in Commands
               /\ UNCHANGED <<ed, key_state, getting, isOpen, history, outf, file, clean>>
ClearHistory == /\ ~getting /\ history' = << >>
                /\ UNCHANGED <<ed, key_state, getting, isOpen, command, outf, file, clean>>
SetHistoryFile ==
  /\ ~getting /\ history' = Lines(file)
  /\ Len(history') <= MaxHistory /\ outf' \in BOOLEAN
  /\ UNCHANGED <<ed, key_state, getting, isOpen, command, file, clean>>

Next == \/ EditingKey \/ EscapeSequence \/ TypeText \/ Enter
        \/ ReadFails(TRUE) \/ ReadFails(FALSE)
        \/ Get \/ SetCommands \/ ClearHistory \/ SetHistoryFile

Spec == Init /\ [][Next]_vars
-----------------------------------------------------------------------------
TypeOK == /\ ed.cursor \in 0 .. Len(ed.buf) /\ Len(ed.buf) <= MaxLine
          /\ (ed.history_i <= Len(history) \/ ~getting)
          /\ Len(history) <= MaxHistory /\ key_state \in {"none", "esc", "esc[", "esc[3"}

\* What the terminal shows is the prompt and the line, and its cursor is where the
\* next character goes, after any sequence of edits, recalls and completions; but
\* not in a row a timed-out get() left, and not once an esc was echoed
\* (Readline.ipp:132-385).
ScreenShowsLine ==
  getting /\ clean =>
    LET shown == Prompt \o ed.buf
    IN /\ ed.term.row = shown \o Blank(Width - Len(shown))
       /\ ed.term.col = Len(Prompt) + ed.cursor + 1

\* The history never has an empty line, and what the user enters is in the file
\* as in the history, up to what clearHistory() took (Readline.ipp:360-376, 416-439).
HistoryIsSaved ==
  /\ \A i \in DOMAIN history : history[i] # << >>
  /\ outf => IsSuffix(history, Lines(file))

\* Completion extends the line to what all commands with that prefix share
\* (Readline.ipp:23-56).
CompletionIsLongest ==
  getting /\ Candidates(ed.buf) # << >> =>
    LET c == Candidates(ed.buf)
        done == Completed(ed.buf)
    IN IF Len(c) = 1 THEN done = Append(c[1], Space)
       ELSE /\ IsPrefix(ed.buf, done) /\ \A i \in DOMAIN c : IsPrefix(done, c[i])
            /\ \/ \E i \in DOMAIN c : Len(c[i]) = Len(done)
               \/ \E i, j \in DOMAIN c : c[i][Len(done) + 1] # c[j][Len(done) + 1]
=============================================================================
