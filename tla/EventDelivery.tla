--------------------------- MODULE EventDelivery ---------------------------
(***************************************************************************)
(* What an event thread promises to the widgets it serves: a handler runs   *)
(* for a window that is registered, one at a time, and a window is not      *)
(* unregistered, and so its widget not torn down, while its handler runs.   *)
(***************************************************************************)
EXTENDS Naturals

CONSTANTS Windows, Widgets

VARIABLES
  registered,   \* the widget of each registered window
  handled       \* the window whose handler runs, or 0

Init == registered = << >> /\ handled = 0

\* A widget has one window at a time.
Register == \E win \in Windows, w \in Widgets :
  /\ win \notin DOMAIN registered
  /\ \A other \in DOMAIN registered : registered[other] # w
  /\ registered' = [x \in DOMAIN registered \cup {win} |->
                      IF x = win THEN w ELSE registered[x]]
  /\ UNCHANGED handled

Unregister == \E win \in DOMAIN registered \ {handled} :
  /\ registered' = [x \in DOMAIN registered \ {win} |-> registered[x]]
  /\ UNCHANGED handled

Begin == /\ handled = 0 /\ handled' \in DOMAIN registered
         /\ UNCHANGED registered

End == handled # 0 /\ handled' = 0 /\ UNCHANGED registered

Spec == Init /\ [][Register \/ Unregister \/ Begin \/ End]_<<registered, handled>>
=============================================================================
