------------------------------- MODULE Signal -------------------------------
(***************************************************************************)
(* Signals and slots (signal/Signal.h).  A slot may connect another slot,    *)
(* or emit the same signal again, while it runs.                            *)
(***************************************************************************)
EXTENDS Naturals, Sequences

CONSTANTS MaxSlots, MaxDepth

VARIABLES
  slots,     \* what each slot does: "returns", "connects" or "emits"
  results,   \* [slot, depth] of each result
  frames     \* emissions that run, the innermost last: [it, pc]

vars == <<slots, results, frames>>

Init == slots = << >> /\ results = << >> /\ frames = << >>

Top == Len(frames)
Frame == frames[Top]
-----------------------------------------------------------------------------
connect(s) == /\ Len(slots) < MaxSlots /\ slots' = Append(slots, s)

Connect == /\ \E s \in {"returns", "connects", "emits"} : connect(s)
           /\ Top = 0 /\ UNCHANGED <<results, frames>>

\* operator(): clears the results and starts at the first slot.
Emission(fs) == Append(fs, [it |-> 1, pc |-> "loop"])
Emit == /\ Top = 0 /\ results' = << >> /\ frames' = Emission(frames) /\ UNCHANGED slots

\* A slot runs: the list may grow under the iterator, and the results be
\* cleared by another emission.
SlotRuns ==
  /\ Top > 0 /\ Frame.pc = "loop" /\ Frame.it <= Len(slots)
  /\ \/ slots[Frame.it] = "connects" /\ connect("returns")
        /\ frames' = [frames EXCEPT ![Top].pc = "returns"] /\ UNCHANGED results
     \/ slots[Frame.it] = "emits" /\ Top < MaxDepth
        /\ frames' = Emission([frames EXCEPT ![Top].pc = "returns"])
        /\ results' = << >> /\ UNCHANGED slots
     \/ frames' = [frames EXCEPT ![Top].pc = "returns"] /\ UNCHANGED <<slots, results>>

SlotReturns ==
  /\ Top > 0 /\ Frame.pc = "returns"
  /\ results' = Append(results, [slot |-> Frame.it, depth |-> Top])
  /\ frames' = [frames EXCEPT ![Top] = [it |-> @.it + 1, pc |-> "loop"]]
  /\ UNCHANGED slots

Return == /\ Top > 0 /\ Frame.pc = "loop" /\ Frame.it > Len(slots)
          /\ frames' = SubSeq(frames, 1, Top - 1)
          /\ UNCHANGED <<slots, results>>

Next == Connect \/ Emit \/ SlotRuns \/ SlotReturns \/ Return

Spec == Init /\ [][Next]_vars
-----------------------------------------------------------------------------
\* The results of the outermost emission.
Outer == {i \in DOMAIN results : results[i].depth = 1}

\* An emission calls every slot once and in order, those connected meanwhile too,
\* and keeps their results; those it had when a slot emitted again are lost, and
\* no others (Signal.h:62-74).
ResultsInOrder ==
  Top = 1 /\ Frame.pc = "loop" /\ Frame.it > 1 =>
    \E first \in 1 .. Frame.it - 1 :
      LET lost == Len(results) - (Frame.it - first)
      IN /\ Outer = lost + 1 .. Len(results)
         /\ \A i \in Outer : results[i].slot = first + (i - lost) - 1
         /\ first = 1 \/ slots[first] = "emits"
=============================================================================
