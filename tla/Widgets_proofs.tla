--------------------------- MODULE Widgets_proofs ---------------------------
(***************************************************************************)
(* Theorems about the widgets of both toolkits, for every number of        *)
(* widgets, windows and events: win_map and event_mutex give them what     *)
(* EventDelivery promises, and an XWidget agrees with the X server.        *)
(***************************************************************************)
EXTENDS MCWidgets, SequenceTheorems, TLAPS

\* What the X server keeps of a window.
WindowRecords == [geom : Geometry, mapped : BOOLEAN, resizable : BOOLEAN]

\* The calls between which XEventThread::win_map has the widget.
Registered(w) == \/ user[w] \in {"map", "sync"}
                 \/ user[w] \in {"idle", "make", "copy"} /\ widget[w].open_flag

\* The event that the event thread has taken and not applied yet.
Unapplied(win) == /\ thread.pc \in {"read", "resize"}
                  /\ thread.event.win = win /\ thread.event.type = "configure"

\* The geometry changes of a window that are still in the queue.
Changes(win) == {i \in DOMAIN queue : queue[i].win = win /\ queue[i].type = "configure"}

\* The types, and those of the server and the event thread.
XTypes == /\ TypeOK
          /\ server \in Seq(WindowRecords) /\ Len(server) = created
          /\ thread \in [pc : {"poll", "read", "resize", "handler"},
                         event : Events \cup {NoEvent}]
          /\ thread.pc # "poll" => thread.event \in Events
          /\ thread.pc = "resize" => thread.event.type = "configure"

\* Who holds event_mutex, and for what.
XLocks == /\ mutex = "events" <=> thread.pc \in {"resize", "handler"}
          /\ thread.pc \in {"resize", "handler"} => thread.event.win \in DOMAIN win_map

\* win_map and a widget agree.
Placed(w) == /\ widget[w].win <= created
             /\ widget[w].open_flag \/ user[w] # "idle" => widget[w].win # 0
             /\ widget[w].open_flag => user[w] \in {"idle", "make", "copy", "destroy"}
             /\ user[w] \in {"make", "copy", "destroy"} => widget[w].open_flag
             /\ Registered(w) => /\ widget[w].win \in DOMAIN win_map
                                 /\ win_map[widget[w].win] = w
             /\ widget[w].win \in DOMAIN win_map => Registered(w)

\* They all do, and no two widgets share a window.
XWindows ==
  /\ \A w \in Widgets : Placed(w)
  /\ \A v, w \in Widgets : widget[v].win = widget[w].win /\ widget[w].win # 0 => v = w
  /\ \A win \in DOMAIN win_map : widget[win_map[win]].win = win

\* What the widget believes its window's geometry is.
Shown(w) == [size |-> widget[w].size, pos |-> widget[w].pos]

\* Nothing has happened to a window before it is in win_map.
Fresh(w) == user[w] = "add" =>
  /\ \A i \in DOMAIN queue : queue[i].win # widget[w].win
  /\ thread.event.win # widget[w].win
  /\ ~server[widget[w].win].mapped
  /\ server[widget[w].win].geom = Shown(w)

\* The last change on its way to the widget is what the server has.
Followed(win) ==
  /\ \A i \in Changes(win) : (\A j \in Changes(win) : j <= i)
                               => queue[i].geom = server[win].geom
  /\ Changes(win) = {} =>
       server[win].geom = IF Unapplied(win) THEN thread.event.geom ELSE Shown(win_map[win])
  /\ thread.pc = "resize" /\ thread.event.win = win =>
       widget[win_map[win]].size = thread.event.geom.size

XGeometry == /\ \A i \in DOMAIN queue : queue[i].win <= created
             /\ thread.event.win <= created
             /\ \A w \in Widgets : Fresh(w)
             /\ \A win \in DOMAIN win_map : Followed(win)

XInv == XTypes /\ XLocks /\ XWindows /\ XGeometry

\* The window whose handler runs, as EventDelivery sees it.
Handled == IF thread.pc \in {"resize", "handler"} THEN thread.event.win ELSE 0
Delivers == [Promise!Register \/ Promise!Unregister \/ Promise!Begin \/ Promise!End]_
              <<win_map, Handled>>
-----------------------------------------------------------------------------
(* XWidget: types *)

\* The bounds are numbers, and a widget's thread is neither "free" nor "events".
LEMMA XNumbers ==
  /\ MaxWindows \in Nat /\ MaxEvents \in Nat /\ Sizes \subseteq Nat \ {0}
  /\ 0 \in Positions
  /\ "free" \notin Widgets /\ "events" \notin Widgets
  /\ Windows \subseteq Nat \ {0}
BY XWidgetAssumption DEF XWidgetAssumption, Windows

\* Records of fields that are of the types named, whatever these are ...
LEMMA FieldsUpdated ==
  ASSUME NEW B, NEW W, NEW S, NEW P,
         NEW r \in [open_flag : B, resizable_flag : B, win : W, size : S, pos : P,
                    framebuf : S, made : S],
         NEW o \in B, NEW i \in W, NEW s \in S, NEW t \in S, NEW p \in P
  PROVE  {[r EXCEPT !.size = s, !.pos = p], [r EXCEPT !.framebuf = s, !.pos = p],
          [r EXCEPT !.framebuf = s, !.open_flag = o],
          [r EXCEPT !.size = s, !.pos = p, !.win = i],
          [r EXCEPT !.framebuf = s, !.made = t], [r EXCEPT !.made = s],
          [r EXCEPT !.open_flag = o]}
         \subseteq [open_flag : B, resizable_flag : B, win : W, size : S, pos : P,
                    framebuf : S, made : S]
OBVIOUS

\* ... and what that makes of an XWidget.
LEMMA WidgetUpdated ==
  ASSUME NEW r \in WidgetRecords, NEW o \in BOOLEAN, NEW i \in 0 .. MaxWindows,
         NEW s \in Sizes \cup {0}, NEW t \in Sizes \cup {0}, NEW p \in Positions
  PROVE  /\ [r EXCEPT !.size = s, !.pos = p] \in WidgetRecords
         /\ [r EXCEPT !.framebuf = s, !.pos = p] \in WidgetRecords
         /\ [r EXCEPT !.framebuf = s, !.open_flag = o] \in WidgetRecords
         /\ [r EXCEPT !.size = s, !.pos = p, !.win = i] \in WidgetRecords
         /\ [r EXCEPT !.framebuf = s, !.made = t] \in WidgetRecords
         /\ [r EXCEPT !.made = s] \in WidgetRecords
         /\ [r EXCEPT !.open_flag = o] \in WidgetRecords
BY FieldsUpdated DEF WidgetRecords

\* A window that exists.
LEMMA ServerHas ==
  ASSUME XTypes, NEW win \in 1 .. created
  PROVE  win \in DOMAIN server /\ server[win] \in WindowRecords /\ win \in Windows
<1>1. created \in 0 .. MaxWindows
  BY DEF XTypes, TypeOK
<1> QED BY <1>1, XNumbers, ElementOfSeq, LenProperties DEF XTypes, Windows

\* What Configure does to the server and the queue.
LEMMA Configured ==
  ASSUME XTypes, NEW win \in 1 .. created, NEW g \in Geometry, Configure(win, g)
  PROVE  /\ server' \in Seq(WindowRecords) /\ Len(server') = created
         /\ queue' \in Seq(Events)
         /\ sent' \in 0 .. MaxEvents
         /\ \A v \in 1 .. created :
              server'[v] = IF v = win THEN [server[v] EXCEPT !.geom = g] ELSE server[v]
         /\ queue' = Append(queue, [win |-> win, type |-> "configure", geom |-> g])
<1>1. win \in DOMAIN server /\ server[win] \in WindowRecords /\ win \in Windows
  BY ServerHas
<1>2. server' = [server EXCEPT ![win] = [server[win] EXCEPT !.geom = g]]
  BY DEF Configure
<1>3. [server[win] EXCEPT !.geom = g] \in WindowRecords
  BY <1>1 DEF WindowRecords
<1>4. server \in Seq(WindowRecords) /\ Len(server) = created
  BY DEF XTypes
<1>5. server' \in Seq(WindowRecords) /\ Len(server') = created
  BY <1>2, <1>3, <1>4, ExceptSeq
<1>6. \A v \in 1 .. created :
        server'[v] = IF v = win THEN [server[v] EXCEPT !.geom = g] ELSE server[v]
  BY <1>2, <1>4, LenProperties
<1>7. queue' = Append(queue, [win |-> win, type |-> "configure", geom |-> g])
  BY DEF Configure, Send
<1>8. [win |-> win, type |-> "configure", geom |-> g] \in Events
  BY <1>1 DEF Events
<1>9. queue' \in Seq(Events)
  BY <1>7, <1>8, AppendProperties DEF XTypes, TypeOK
<1>10. sent' \in 0 .. MaxEvents
  BY XNumbers DEF Configure, Send, XTypes, TypeOK
<1> QED BY <1>5, <1>6, <1>7, <1>9, <1>10

\* The widget whose handler runs, or whose buffer is exchanged.
LEMMA TargetIs ==
  ASSUME XTypes, XLocks, thread.pc \in {"resize", "handler"}
  PROVE  Target \in Widgets /\ thread.event.win \in DOMAIN win_map
BY DEF XLocks, XTypes, TypeOK, Target

\* An open widget has a window that exists.
LEMMA OpenHasWindow ==
  ASSUME XTypes, XWindows, NEW w \in Widgets, widget[w].open_flag \/ user[w] # "idle"
  PROVE  widget[w].win \in 1 .. created /\ widget[w].win \in Windows
<1>1. widget[w].win \in Nat /\ widget[w].win <= created /\ widget[w].win # 0
  BY XNumbers DEF XTypes, TypeOK, WidgetRecords, XWindows, Placed
<1>2. created \in Nat /\ created <= MaxWindows
  BY XNumbers DEF XTypes, TypeOK
<1> QED BY <1>1, <1>2, XNumbers DEF Windows

\* Every variable has its type in every step.
LEMMA XTypesStep == XTypes /\ XLocks /\ XWindows /\ [Next]_vars => XTypes'
<1> SUFFICES ASSUME XTypes, XLocks, XWindows, [Next]_vars  PROVE XTypes'
  OBVIOUS
<1> USE DEF XTypes, TypeOK, At, Goto
<1>0. /\ created \in Nat /\ DOMAIN server = 1 .. created
      /\ server \in Seq(WindowRecords)
  BY XNumbers, LenProperties
<1>1. CASE NextEvent
  <2>1. Head(queue) \in Events /\ Tail(queue) \in Seq(Events)
    BY <1>1, HeadTailProperties DEF NextEvent
  <2> QED BY <1>1, <2>1 DEF NextEvent
<1>2. CASE Dispatch
  <2>1. thread.event \in Events
    BY <1>2 DEF Dispatch
  <2>2. widget' \in [Widgets -> WidgetRecords]
    <3>1. CASE widget' = widget
      BY <3>1
    <3>2. CASE widget' # widget
      <4> DEFINE e == thread.event
                 resized == widget[Target].size # e.geom.size
                 p == IF resized THEN widget[Target].pos ELSE e.geom.pos
      <4>1. Target \in Widgets
        BY <1>2, <3>2 DEF Dispatch, Target
      <4>2. widget' = [widget EXCEPT ![Target] =
                         [widget[Target] EXCEPT !.size = e.geom.size, !.pos = p]]
        BY <1>2, <3>2, <4>1 DEF Dispatch
      <4>3. e.geom.size \in Sizes /\ e.geom.pos \in Positions
        BY <2>1 DEF Events, Geometry
      <4>4. widget[Target] \in WidgetRecords
        BY <4>1
      <4>5. p \in Positions
        BY <4>3, <4>4 DEF WidgetRecords
      <4>6. [widget[Target] EXCEPT !.size = e.geom.size, !.pos = p] \in WidgetRecords
        <5> HIDE DEF e, p
        <5> QED BY <4>3, <4>4, <4>5, WidgetUpdated
      <4> QED BY <4>1, <4>2, <4>6
    <3> QED BY <3>1, <3>2
  <2>3. /\ mutex' \in {"free", "events"}
        /\ thread' \in [pc : {"poll", "read", "resize", "handler"},
                        event : Events \cup {NoEvent}]
        /\ thread'.pc # "poll" => thread'.event \in Events
        /\ thread'.pc = "resize" => thread'.event.type = "configure"
    BY <1>2, <2>1 DEF Dispatch
  <2> QED BY <1>2, <2>2, <2>3 DEF Dispatch
<1>3. CASE ResizeBuffer
  <2>1. Target \in Widgets /\ thread.event \in Events
    BY <1>3, TargetIs DEF ResizeBuffer
  <2>2. widget' \in [Widgets -> WidgetRecords]
    <3> DEFINE f == IF widget[Target].framebuf = 0 THEN 0 ELSE widget[Target].size
    <3>1. widget' = [widget EXCEPT ![Target] =
                       [widget[Target] EXCEPT !.framebuf = f,
                                              !.pos = thread.event.geom.pos]]
      BY <1>3, <2>1 DEF ResizeBuffer
    <3>4. widget[Target] \in WidgetRecords
      BY <2>1
    <3>5. f \in Sizes \cup {0}
      BY <3>4 DEF WidgetRecords
    <3>2. thread.event.geom.pos \in Positions
      BY <2>1 DEF Events, Geometry
    <3>3. [widget[Target] EXCEPT !.framebuf = f, !.pos = thread.event.geom.pos]
            \in WidgetRecords
      <4> HIDE DEF f
      <4> QED BY <3>2, <3>4, <3>5, WidgetUpdated, ZenonT(90)
    <3> QED BY <3>1, <3>3
  <2> QED BY <1>3, <2>1, <2>2 DEF ResizeBuffer
<1>4. CASE Handler
  <2>1. CASE UNCHANGED <<server, queue, sent>>
    BY <1>4, <2>1 DEF Handler
  <2>2. ASSUME NEW s \in Sizes, widget[Target].open_flag,
               Configure(widget[Target].win,
                         [server[widget[Target].win].geom EXCEPT !.size = s])
        PROVE  XTypes'
    <3>1. Target \in Widgets
      BY <1>4, TargetIs DEF Handler
    <3>2. widget[Target].win \in 1 .. created
      BY <2>2, <3>1, OpenHasWindow
    <3>3. [server[widget[Target].win].geom EXCEPT !.size = s] \in Geometry
      BY <3>2, ServerHas, ZenonT(40) DEF WindowRecords, Geometry
    <3>4. /\ server' \in Seq(WindowRecords) /\ Len(server') = created
          /\ queue' \in Seq(Events) /\ sent' \in 0 .. MaxEvents
      BY <2>2, <3>2, <3>3, Configured
    <3> QED BY <1>4, <3>4 DEF Handler
  <2> QED BY <1>4, <2>1, <2>2 DEF Handler
<1>5. CASE WindowManager
  <2>1. PICK win \in DOMAIN server :
          \/ \E g \in Geometry : Configure(win, g)
          \/ Send(win, "other", server[win].geom) /\ UNCHANGED server
    BY <1>5 DEF WindowManager
  <2>2. server[win] \in WindowRecords /\ win \in Windows /\ win \in 1 .. created
    BY <1>0, <2>1, ServerHas
  <2>3. /\ server' \in Seq(WindowRecords) /\ Len(server') = created
        /\ queue' \in Seq(Events) /\ sent' \in 0 .. MaxEvents
    <3>1. CASE \E g \in Geometry : Configure(win, g)
      BY <2>2, <3>1, Configured
    <3>2. CASE Send(win, "other", server[win].geom) /\ UNCHANGED server
      <4>1. [win |-> win, type |-> "other", geom |-> server[win].geom] \in Events
        BY <2>2 DEF Events, WindowRecords
      <4> QED BY <3>2, <4>1, XNumbers, AppendProperties DEF Send
    <3> QED BY <2>1, <3>1, <3>2
  <2> QED BY <1>5, <2>3 DEF WindowManager
<1>6. ASSUME NEW w \in Widgets, OpenCreates(w)  PROVE XTypes'
  <2>1. created' = created + 1 /\ created' \in 0 .. MaxWindows
    BY <1>0, <1>6, XNumbers DEF OpenCreates
  <2>2. PICK s \in Sizes :
          /\ widget' = [widget EXCEPT ![w].size = s, ![w].pos = 0, ![w].win = created']
          /\ server' = Append(server, [geom |-> [size |-> s, pos |-> 0], mapped |-> FALSE,
                                       resizable |-> widget[w].resizable_flag])
    BY <1>6 DEF OpenCreates
  <2>3. [geom |-> [size |-> s, pos |-> 0], mapped |-> FALSE,
         resizable |-> widget[w].resizable_flag] \in WindowRecords
    <3>1. widget[w].resizable_flag \in BOOLEAN
      BY Zenon DEF WidgetRecords
    <3>2. [size |-> s, pos |-> 0] \in Geometry
      BY XNumbers DEF Geometry
    <3> QED BY <3>1, <3>2, Zenon DEF WindowRecords
  <2>4. server' \in Seq(WindowRecords) /\ Len(server') = created'
    BY <1>0, <2>1, <2>2, <2>3, AppendProperties
  <2>5. widget' \in [Widgets -> WidgetRecords]
    <3>1. widget' = [widget EXCEPT ![w] =
                       [widget[w] EXCEPT !.size = s, !.pos = 0, !.win = created']]
      BY <2>2
    <3>2. [widget[w] EXCEPT !.size = s, !.pos = 0, !.win = created'] \in WidgetRecords
      BY <2>1, XNumbers, WidgetUpdated
    <3> QED BY <3>1, <3>2
  <2> QED BY <1>6, <2>1, <2>4, <2>5 DEF OpenCreates
<1>7. ASSUME NEW w \in Widgets, OpenAdds(w)  PROVE XTypes'
  BY <1>7, OpenHasWindow DEF OpenAdds
<1>8. ASSUME NEW w \in Widgets, OpenMaps(w)  PROVE XTypes'
  <2>1. widget[w].win \in 1 .. created
    BY <1>8, OpenHasWindow DEF OpenMaps
  <2>2. [server[widget[w].win] EXCEPT !.mapped = TRUE] \in WindowRecords
    BY <2>1, ServerHas DEF WindowRecords
  <2>3. server' = [server EXCEPT ![widget[w].win] =
                     [server[widget[w].win] EXCEPT !.mapped = TRUE]]
    BY <1>8 DEF OpenMaps
  <2>4. server' \in Seq(WindowRecords) /\ Len(server') = created
    BY <1>0, <2>1, <2>2, <2>3, ExceptSeq
  <2> QED BY <1>8, <2>4 DEF OpenMaps
<1>9. ASSUME NEW w \in Widgets, OpenReturns(w)  PROVE XTypes'
  <2>1. [widget[w] EXCEPT !.open_flag = TRUE] \in WidgetRecords
    <3>1. widget[w] \in WidgetRecords /\ 0 \in 0 .. MaxWindows
      BY XNumbers
    <3> QED BY <3>1, XNumbers, WidgetUpdated
  <2> QED BY <1>9, <2>1 DEF OpenReturns
<1>10. ASSUME NEW w \in Widgets, CloseErases(w)  PROVE XTypes'
  BY <1>10 DEF CloseErases
<1>11. ASSUME NEW w \in Widgets, CloseDestroys(w)  PROVE XTypes'
  <2>1. widget[w].win \in 1 .. created
    BY <1>11, OpenHasWindow DEF CloseDestroys
  <2>2. [server[widget[w].win] EXCEPT !.mapped = FALSE] \in WindowRecords
    BY <2>1, ServerHas, ZenonT(40) DEF WindowRecords
  <2>3. server' = [server EXCEPT ![widget[w].win] =
                     [server[widget[w].win] EXCEPT !.mapped = FALSE]]
    BY <1>11 DEF CloseDestroys
  <2>4. server' \in Seq(WindowRecords) /\ Len(server') = created
    BY <1>0, <2>1, <2>2, <2>3, ExceptSeq
  <2>5. widget' \in [Widgets -> WidgetRecords]
    <3>1. widget' = [widget EXCEPT ![w] =
                       [widget[w] EXCEPT !.framebuf = 0, !.open_flag = FALSE]]
      BY <1>11 DEF CloseDestroys
    <3>2. [widget[w] EXCEPT !.framebuf = 0, !.open_flag = FALSE] \in WidgetRecords
      BY XNumbers, WidgetUpdated
    <3> QED BY <3>1, <3>2
  <2> QED BY <1>11, <2>4, <2>5 DEF CloseDestroys
<1>12. ASSUME NEW w \in Widgets, SetResizable(w)  PROVE XTypes'
  <2>1. widget' \in [Widgets -> WidgetRecords]
    <3>1. widget' = [widget EXCEPT ![w] = [widget[w] EXCEPT !.resizable_flag = ~@]]
      BY <1>12 DEF SetResizable
    <3>2. [widget[w] EXCEPT !.resizable_flag = ~@] \in WidgetRecords
      BY ZenonT(40) DEF WidgetRecords
    <3> QED BY <3>1, <3>2
  <2>2. server' \in Seq(WindowRecords) /\ Len(server') = created
    <3>1. CASE widget[w].open_flag
      <4>1. widget[w].win \in 1 .. created
        BY <3>1, OpenHasWindow
      <4>2. [server[widget[w].win] EXCEPT !.resizable = widget'[w].resizable_flag]
              \in WindowRecords
        <5>1. widget'[w].resizable_flag \in BOOLEAN
          BY <2>1, Zenon DEF WidgetRecords
        <5>2. server[widget[w].win] \in WindowRecords
          BY <4>1, ServerHas
        <5> QED BY <5>1, <5>2, Zenon DEF WindowRecords
      <4>3. server' = [server EXCEPT ![widget[w].win] =
                [server[widget[w].win] EXCEPT !.resizable = widget'[w].resizable_flag]]
        BY <1>12, <3>1 DEF SetResizable
      <4> QED BY <1>0, <4>1, <4>2, <4>3, ExceptSeq
    <3>2. CASE ~widget[w].open_flag
      BY <1>12, <3>2 DEF SetResizable
    <3> QED BY <3>1, <3>2
  <2> QED BY <1>12, <2>1, <2>2 DEF SetResizable
<1>13. ASSUME NEW w \in Widgets, ResizeOrMove(w)  PROVE XTypes'
  <2>1. widget[w].win \in 1 .. created
    BY <1>13, OpenHasWindow DEF ResizeOrMove
  <2>2. PICK g \in Geometry : Configure(widget[w].win, g)
    BY <1>13 DEF ResizeOrMove
  <2>3. /\ server' \in Seq(WindowRecords) /\ Len(server') = created
        /\ queue' \in Seq(Events) /\ sent' \in 0 .. MaxEvents
    BY <2>1, <2>2, Configured
  <2> QED BY <1>13, <2>3 DEF ResizeOrMove
<1>14. ASSUME NEW w \in Widgets, DisplayStarts(w)  PROVE XTypes'
  <2> DEFINE f == IF widget[w].framebuf = 0 THEN widget[w].size ELSE 0
  <2>1. f \in Sizes \cup {0}
    BY DEF WidgetRecords
  <2>2. [widget[w] EXCEPT !.made = f] \in WidgetRecords
    <3>1. widget[w] \in WidgetRecords /\ 0 \in 0 .. MaxWindows
      BY XNumbers
    <3> HIDE DEF f
    <3> QED BY <2>1, <3>1, XNumbers, WidgetUpdated
  <2>3. widget' \in [Widgets -> WidgetRecords]
    BY <1>14, <2>2 DEF DisplayStarts
  <2> QED BY <1>14, <2>3 DEF DisplayStarts
<1>15. ASSUME NEW w \in Widgets, DisplayMakes(w)  PROVE XTypes'
  <2>1. [widget[w] EXCEPT !.framebuf = widget[w].made, !.made = 0] \in WidgetRecords
    <3>1. /\ widget[w] \in WidgetRecords /\ widget[w].made \in Sizes \cup {0}
          /\ 0 \in 0 .. MaxWindows /\ 0 \in Positions
      BY XNumbers DEF WidgetRecords
    <3> QED BY <3>1, WidgetUpdated
  <2>2. widget' \in [Widgets -> WidgetRecords]
    BY <1>15, <2>1 DEF DisplayMakes
  <2> QED BY <1>15, <2>2 DEF DisplayMakes
<1>16. ASSUME NEW w \in Widgets, DisplayPuts(w)  PROVE XTypes'
  BY <1>16 DEF DisplayPuts
<1>17. CASE UNCHANGED vars
  BY <1>17 DEF vars
<1> QED
  BY <1>1, <1>2, <1>3, <1>4, <1>5, <1>6, <1>7, <1>8, <1>9, <1>10, <1>11, <1>12,
     <1>13, <1>14, <1>15, <1>16, <1>17 DEF Next, EventThread, Within, Call

\* event_mutex is taken and given back by the same thread.
LEMMA XLocksStep == XTypes /\ XLocks /\ [Next]_vars => XLocks'
<1> SUFFICES ASSUME XTypes, XLocks, [Next]_vars  PROVE XLocks'
  OBVIOUS
<1>0. /\ user \in [Widgets -> {"idle", "add", "map", "sync", "destroy", "make", "copy"}]
      /\ thread \in [pc : {"poll", "read", "resize", "handler"},
                     event : Events \cup {NoEvent}]
  BY XNumbers DEF XTypes, TypeOK
<1> USE <1>0 DEF XLocks, At, Goto
<1>1. CASE NextEvent
  BY <1>1 DEF NextEvent
<1>2. CASE Dispatch
  BY <1>2 DEF Dispatch
<1>3. CASE ResizeBuffer
  BY <1>3 DEF ResizeBuffer
<1>4. CASE Handler
  BY <1>4 DEF Handler
<1>5. CASE WindowManager
  BY <1>5 DEF WindowManager
<1>6. ASSUME NEW w \in Widgets, OpenCreates(w)  PROVE XLocks'
  BY <1>6 DEF OpenCreates
<1>7. ASSUME NEW w \in Widgets, OpenAdds(w)  PROVE XLocks'
  BY <1>7 DEF OpenAdds
<1>8. ASSUME NEW w \in Widgets, OpenMaps(w)  PROVE XLocks'
  BY <1>8 DEF OpenMaps
<1>9. ASSUME NEW w \in Widgets, OpenReturns(w)  PROVE XLocks'
  BY <1>9 DEF OpenReturns
<1>10. ASSUME NEW w \in Widgets, CloseErases(w)  PROVE XLocks'
  BY <1>10 DEF CloseErases
<1>11. ASSUME NEW w \in Widgets, CloseDestroys(w)  PROVE XLocks'
  BY <1>11 DEF CloseDestroys
<1>12. ASSUME NEW w \in Widgets, SetResizable(w)  PROVE XLocks'
  BY <1>12 DEF SetResizable
<1>13. ASSUME NEW w \in Widgets, ResizeOrMove(w)  PROVE XLocks'
  BY <1>13 DEF ResizeOrMove
<1>14. ASSUME NEW w \in Widgets, DisplayStarts(w)  PROVE XLocks'
  BY <1>14 DEF DisplayStarts
<1>15. ASSUME NEW w \in Widgets, DisplayMakes(w)  PROVE XLocks'
  BY <1>15 DEF DisplayMakes
<1>16. ASSUME NEW w \in Widgets, DisplayPuts(w)  PROVE XLocks'
  BY <1>16 DEF DisplayPuts
<1>17. CASE UNCHANGED vars
  BY <1>17 DEF vars
<1> QED
  BY <1>1, <1>2, <1>3, <1>4, <1>5, <1>6, <1>7, <1>8, <1>9, <1>10, <1>11, <1>12,
     <1>13, <1>14, <1>15, <1>16, <1>17 DEF Next, EventThread, Within, Call

\* What an open or opening widget is in win_map, and what that keeps apart.
LEMMA XWindowsStep == XTypes /\ XLocks /\ XWindows /\ [Next]_vars => XWindows'
<1> SUFFICES ASSUME XTypes, XLocks, XWindows, [Next]_vars  PROVE XWindows'
  OBVIOUS
<1>0. /\ user \in [Widgets -> {"idle", "add", "map", "sync", "destroy", "make", "copy"}]
      /\ widget \in [Widgets -> WidgetRecords]
      /\ created \in Nat
      /\ \A w \in Widgets : widget[w].win \in Nat
  BY XNumbers DEF XTypes, TypeOK, WidgetRecords
\* Steps that leave open_flag, win and the user's part in win_map as they are.
<1>a. ASSUME UNCHANGED <<win_map, created>>,
             DOMAIN widget' = Widgets,
             \A w \in Widgets : /\ widget'[w].win = widget[w].win
                                /\ widget'[w].open_flag = widget[w].open_flag,
             UNCHANGED user
      PROVE  XWindows'
  <2>1. \A v \in Widgets : Registered(v)' <=> Registered(v)
    BY <1>a DEF Registered
  <2>2. \A v \in Widgets : Placed(v)'
    BY <1>a, <2>1 DEF XWindows, Placed
  <2> QED BY <1>a, <2>2 DEF XWindows, Placed, XTypes, TypeOK
<1> USE DEF At
<1>1. CASE NextEvent
  BY <1>1, <1>a, <1>0 DEF NextEvent
<1>2. CASE Dispatch
  <2>1. \A w \in Widgets : /\ widget'[w].win = widget[w].win
                           /\ widget'[w].open_flag = widget[w].open_flag
    BY <1>2, <1>0 DEF Dispatch, WidgetRecords
  <2> QED BY <1>2, <1>a, <1>0, <2>1 DEF Dispatch
<1>3. CASE ResizeBuffer
  <2>1. \A w \in Widgets : /\ widget'[w].win = widget[w].win
                           /\ widget'[w].open_flag = widget[w].open_flag
    BY <1>3, <1>0 DEF ResizeBuffer, WidgetRecords
  <2> QED BY <1>3, <1>a, <1>0, <2>1 DEF ResizeBuffer
<1>4. CASE Handler
  BY <1>4, <1>a, <1>0 DEF Handler
<1>5. CASE WindowManager
  BY <1>5, <1>a, <1>0 DEF WindowManager
<1>6. ASSUME NEW w \in Widgets, OpenCreates(w)  PROVE XWindows'
  <2>1. /\ widget'[w].win = created + 1 /\ widget'[w].open_flag = widget[w].open_flag
        /\ \A v \in Widgets \ {w} : widget'[v] = widget[v]
        /\ user' = [user EXCEPT ![w] = "add"] /\ user[w] = "idle"
        /\ ~widget[w].open_flag /\ created' = created + 1 /\ UNCHANGED win_map
    BY <1>6, <1>0 DEF OpenCreates, WidgetRecords
  <2>2. created + 1 \notin DOMAIN win_map
    <3>1. \A win \in DOMAIN win_map : win_map[win] \in Widgets
      BY DEF XTypes, TypeOK
    <3> QED BY <1>0, <3>1 DEF XWindows, Placed
  <2>3. \A win \in DOMAIN win_map : win_map[win] # w
    <3>1. \A win \in DOMAIN win_map : win_map[win] \in Widgets
      BY DEF XTypes, TypeOK
    <3>2. ~Registered(w)
      BY <2>1 DEF Registered
    <3> QED BY <3>1, <3>2 DEF XWindows, Placed
  <2>4. \A v \in Widgets \ {w} : Registered(v)' <=> Registered(v)
    BY <1>0, <2>1 DEF Registered
  <2>5. ~Registered(w)'
    BY <1>0, <2>1 DEF Registered
  <2>6. \A v \in Widgets \ {w} : Placed(v)'
    BY <1>0, <2>1, <2>4 DEF XWindows, Placed
  <2>7. Placed(w)'
    BY <1>0, <2>1, <2>2, <2>5 DEF Placed
  <2>10. \A v \in Widgets : Placed(v)'
    BY <2>6, <2>7
  <2>8. \A v, x \in Widgets : widget'[v].win = widget'[x].win /\ widget'[x].win # 0 => v = x
    BY <1>0, <2>1 DEF XWindows, Placed
  <2>9. \A win \in DOMAIN win_map' : widget'[win_map'[win]].win = win
    BY <2>1, <2>3 DEF XWindows, Placed, XTypes, TypeOK
  <2> QED BY <2>8, <2>9, <2>10 DEF XWindows
<1>7. ASSUME NEW w \in Widgets, OpenAdds(w)  PROVE XWindows'
  <2>1. /\ user[w] = "add" /\ user' = [user EXCEPT ![w] = "map"]
        /\ UNCHANGED <<widget, created>>
        /\ DOMAIN win_map' = DOMAIN win_map \cup {widget[w].win}
        /\ \A win \in DOMAIN win_map' :
             win_map'[win] = IF win = widget[w].win THEN w ELSE win_map[win]
    BY <1>7 DEF OpenAdds
  <2>2. \A v \in Widgets \ {w} : Registered(v)' <=> Registered(v)
    BY <1>0, <2>1 DEF Registered
  <2>3. Registered(w)'
    BY <1>0, <2>1 DEF Registered
  <2>4. widget[w].win # 0 /\ ~widget[w].open_flag
    BY <1>0, <2>1 DEF XWindows, Placed
  <2>5. \A v \in Widgets \ {w} : widget[v].win # widget[w].win
    BY <1>0, <2>4 DEF XWindows, Placed
  <2>7. \A v \in Widgets : Placed(v)'
    <3>1. Placed(w)'
      BY <1>0, <2>1, <2>3, <2>4 DEF XWindows, Placed
    <3>2. \A v \in Widgets \ {w} : Placed(v)'
      BY <1>0, <2>1, <2>2, <2>5 DEF XWindows, Placed
    <3> QED BY <3>1, <3>2
  <2>8. \A v, x \in Widgets : widget'[v].win = widget'[x].win /\ widget'[x].win # 0 => v = x
    BY <2>1 DEF XWindows, Placed
  <2>9. \A win \in DOMAIN win_map' : widget'[win_map'[win]].win = win
    BY <2>1 DEF XWindows, Placed
  <2> QED BY <2>7, <2>8, <2>9 DEF XWindows
<1>8. ASSUME NEW w \in Widgets, OpenMaps(w)  PROVE XWindows'
  BY <1>8, <1>0 DEF OpenMaps, XWindows, Placed, Registered
<1>9. ASSUME NEW w \in Widgets, OpenReturns(w)  PROVE XWindows'
  <2>1. /\ user[w] = "sync" /\ user' = [user EXCEPT ![w] = "idle"]
        /\ UNCHANGED <<win_map, created>>
        /\ \A v \in Widgets : widget'[v].win = widget[v].win
        /\ \A v \in Widgets \ {w} : widget'[v] = widget[v]
        /\ widget'[w].open_flag
    BY <1>9, <1>0 DEF OpenReturns, WidgetRecords
  <2>2. \A v \in Widgets : Registered(v)' <=> Registered(v)
    BY <1>0, <2>1 DEF Registered
  <2>3. \A v \in Widgets : Placed(v)'
    BY <1>0, <2>1, <2>2 DEF XWindows, Placed
  <2>4. /\ \A v, x \in Widgets : widget'[v].win = widget'[x].win /\ widget'[x].win # 0 => v = x
        /\ \A win \in DOMAIN win_map' : widget'[win_map'[win]].win = win
    BY <1>0, <2>1 DEF XWindows, Placed, XTypes, TypeOK
  <2> QED BY <2>3, <2>4 DEF XWindows, Placed
<1>10. ASSUME NEW w \in Widgets, CloseErases(w)  PROVE XWindows'
  <2>1. /\ user[w] = "idle" /\ user' = [user EXCEPT ![w] = "destroy"] /\ widget[w].open_flag
        /\ UNCHANGED <<widget, created>>
        /\ DOMAIN win_map' = DOMAIN win_map \ {widget[w].win}
        /\ \A win \in DOMAIN win_map' : win_map'[win] = win_map[win]
    BY <1>10 DEF CloseErases
  <2>2. \A v \in Widgets \ {w} : Registered(v)' <=> Registered(v)
    BY <1>0, <2>1 DEF Registered
  <2>3. ~Registered(w)'
    BY <1>0, <2>1 DEF Registered
  <2>4. widget[w].win # 0
    BY <2>1 DEF XWindows, Placed
  <2>5. \A v \in Widgets \ {w} : widget[v].win # widget[w].win
    BY <1>0, <2>4 DEF XWindows, Placed
  <2>7. \A v \in Widgets : Placed(v)'
    <3>1. Placed(w)'
      BY <1>0, <2>1, <2>3, <2>4 DEF XWindows, Placed
    <3>2. \A v \in Widgets \ {w} : Placed(v)'
      BY <1>0, <2>1, <2>2, <2>5 DEF XWindows, Placed
    <3> QED BY <3>1, <3>2
  <2>8. /\ \A v, x \in Widgets : widget'[v].win = widget'[x].win /\ widget'[x].win # 0 => v = x
        /\ \A win \in DOMAIN win_map' : widget'[win_map'[win]].win = win
    BY <2>1 DEF XWindows, Placed
  <2> QED BY <2>7, <2>8 DEF XWindows
<1>11. ASSUME NEW w \in Widgets, CloseDestroys(w)  PROVE XWindows'
  <2>1. /\ user[w] = "destroy" /\ user' = [user EXCEPT ![w] = "idle"]
        /\ UNCHANGED <<win_map, created>>
        /\ \A v \in Widgets : widget'[v].win = widget[v].win
        /\ \A v \in Widgets \ {w} : widget'[v] = widget[v]
        /\ ~widget'[w].open_flag
    BY <1>11, <1>0 DEF CloseDestroys, WidgetRecords
  <2>2. \A v \in Widgets : Registered(v)' <=> Registered(v)
    BY <1>0, <2>1 DEF Registered
  <2>3. \A v \in Widgets : Placed(v)'
    BY <1>0, <2>1, <2>2 DEF XWindows, Placed
  <2>4. /\ \A v, x \in Widgets : widget'[v].win = widget'[x].win /\ widget'[x].win # 0 => v = x
        /\ \A win \in DOMAIN win_map' : widget'[win_map'[win]].win = win
    BY <1>0, <2>1 DEF XWindows, Placed, XTypes, TypeOK
  <2> QED BY <2>3, <2>4 DEF XWindows, Placed
<1>12. ASSUME NEW w \in Widgets, SetResizable(w)  PROVE XWindows'
  <2>1. \A v \in Widgets : /\ widget'[v].win = widget[v].win
                           /\ widget'[v].open_flag = widget[v].open_flag
    BY <1>12, <1>0 DEF SetResizable, WidgetRecords
  <2>2. user' = user
    BY <1>12, <1>0 DEF SetResizable
  <2> QED BY <1>12, <1>a, <1>0, <2>1, <2>2 DEF SetResizable
<1>13. ASSUME NEW w \in Widgets, ResizeOrMove(w)  PROVE XWindows'
  <2>1. user' = user
    BY <1>13, <1>0 DEF ResizeOrMove
  <2> QED BY <1>13, <1>a, <1>0, <2>1 DEF ResizeOrMove
<1>14. ASSUME NEW w \in Widgets, DisplayStarts(w)  PROVE XWindows'
  <2>1. \A v \in Widgets : /\ widget'[v].win = widget[v].win
                           /\ widget'[v].open_flag = widget[v].open_flag
    BY <1>14, <1>0 DEF DisplayStarts, WidgetRecords
  <2>2. \A v \in Widgets : Registered(v)' <=> Registered(v)
    BY <1>14, <1>0, <2>1 DEF Registered, DisplayStarts
  <2> QED BY <1>14, <1>0, <2>1, <2>2 DEF XWindows, Placed, DisplayStarts
<1>15. ASSUME NEW w \in Widgets, DisplayMakes(w)  PROVE XWindows'
  <2>1. \A v \in Widgets : /\ widget'[v].win = widget[v].win
                           /\ widget'[v].open_flag = widget[v].open_flag
    BY <1>15, <1>0 DEF DisplayMakes, WidgetRecords
  <2>2. \A v \in Widgets : Registered(v)' <=> Registered(v)
    BY <1>15, <1>0, <2>1 DEF Registered, DisplayMakes
  <2>3. /\ user[w] = "make" /\ user'[w] = "copy" /\ \A v \in Widgets \ {w} : user'[v] = user[v]
        /\ UNCHANGED <<win_map, created>>
    BY <1>15, <1>0 DEF DisplayMakes
  <2>4. \A v \in Widgets : Placed(v)'
    BY <2>1, <2>2, <2>3 DEF XWindows, Placed
  <2>5. \A win \in DOMAIN win_map : win_map[win] \in Widgets
    BY DEF XTypes, TypeOK
  <2> QED BY <2>1, <2>3, <2>4, <2>5 DEF XWindows
<1>16. ASSUME NEW w \in Widgets, DisplayPuts(w)  PROVE XWindows'
  <2>1. \A v \in Widgets : Registered(v)' <=> Registered(v)
    BY <1>16, <1>0 DEF Registered, DisplayPuts, XWindows, Placed
  <2> QED BY <1>16, <1>0, <2>1 DEF XWindows, Placed, DisplayPuts
<1>17. CASE UNCHANGED vars
  BY <1>17, <1>a, <1>0 DEF vars
<1> QED
  BY <1>1, <1>2, <1>3, <1>4, <1>5, <1>6, <1>7, <1>8, <1>9, <1>10, <1>11, <1>12,
     <1>13, <1>14, <1>15, <1>16, <1>17 DEF Next, EventThread, Within, Call

\* The indices of a sequence with one more item ...
LEMMA Appended ==
  ASSUME NEW S, NEW s \in Seq(S), NEW e \in S
  PROVE  /\ Append(s, e) \in Seq(S)
         /\ DOMAIN Append(s, e) = DOMAIN s \cup {Len(s) + 1}
         /\ \A i \in DOMAIN s : Append(s, e)[i] = s[i] /\ i \in Nat /\ i < Len(s) + 1
         /\ Append(s, e)[Len(s) + 1] = e
BY AppendProperties, LenProperties

\* ... and of one without its first.
LEMMA Tailed ==
  ASSUME NEW S, NEW s \in Seq(S), s # << >>
  PROVE  /\ Head(s) = s[1] /\ 1 \in DOMAIN s
         /\ \A i \in DOMAIN Tail(s) : i + 1 \in DOMAIN s /\ Tail(s)[i] = s[i + 1]
         /\ \A i \in DOMAIN s : i \in Nat /\ (i # 1 => i - 1 \in DOMAIN Tail(s))
         /\ \A i \in DOMAIN Tail(s) : i \in Nat /\ i # 0
BY HeadTailProperties, LenProperties, EmptySeq

\* Steps that change no geometry and send nothing.
LEMMA GeometryKept ==
  ASSUME XTypes, XWindows, XGeometry, UNCHANGED <<queue, created>>,
         \/ UNCHANGED thread
         \/ thread.pc = "handler" /\ thread' = [pc |-> "poll", event |-> NoEvent],
         DOMAIN win_map' \subseteq DOMAIN win_map,
         \A win \in DOMAIN win_map' : win_map'[win] = win_map[win],
         \A v \in 1 .. created : server'[v].geom = server[v].geom,
         \A v \in Widgets : /\ widget'[v].win = widget[v].win
                            /\ widget'[v].size = widget[v].size
                            /\ widget'[v].pos = widget[v].pos
                            /\ user'[v] = "add" =>
                                 user[v] = "add" /\ ( server'[widget[v].win].mapped
                                                       => server[widget[v].win].mapped )
  PROVE  XGeometry'
<1>1. /\ \A win \in DOMAIN win_map : win_map[win] \in Widgets /\ win \in 1 .. created
      /\ \A v \in Widgets : user[v] = "add" => widget[v].win \in 1 .. created
  BY OpenHasWindow, XNumbers DEF XTypes, TypeOK, XWindows, Placed, WidgetRecords
<1>2. \A win : Changes(win)' = Changes(win)
  BY DEF Changes
<1>3. \A win : Unapplied(win)' <=> Unapplied(win)
  BY DEF Unapplied
<1>4. ASSUME NEW w \in Widgets  PROVE Fresh(w)'
  <2>1. CASE user'[w] # "add"
    BY <2>1 DEF Fresh
  <2>2. CASE user'[w] = "add"
    <3>1. Fresh(w) /\ user[w] = "add" /\ widget[w].win # 0
      BY <2>2, <1>1 DEF XGeometry
    <3>2. thread'.event.win # widget[w].win
      BY <3>1 DEF NoEvent, Fresh
    <3> QED BY <3>1, <3>2, <1>1 DEF Fresh, Shown
  <2> QED BY <2>1, <2>2
<1>5. ASSUME NEW win \in DOMAIN win_map'  PROVE Followed(win)'
  <2>1. Followed(win) /\ win_map'[win] = win_map[win] /\ win_map[win] \in Widgets
        /\ win \in 1 .. created
    BY <1>1 DEF XGeometry
  <2>2. Shown(win_map[win])' = Shown(win_map[win])
    BY <2>1 DEF Shown
  <2>3. thread'.pc = "resize" => UNCHANGED thread
    OBVIOUS
  <2>4. server'[win].geom = server[win].geom
    BY <2>1
  <2>5. widget'[win_map'[win]].size = widget[win_map[win]].size
    BY <2>1
  <2>6. Unapplied(win) => UNCHANGED thread
    BY DEF Unapplied
  <2> QED BY <1>2, <1>3, <2>1, <2>2, <2>3, <2>4, <2>5, <2>6 DEF Followed
<1>6. thread'.event.win <= created
  BY DEF XGeometry, NoEvent, XTypes, TypeOK
<1> QED BY <1>4, <1>5, <1>6 DEF XGeometry

\* Steps that send one event, for what happened to the server's window.
LEMMA GeometrySent ==
  ASSUME XTypes, XWindows, XGeometry, UNCHANGED <<widget, user, win_map, created>>,
         \/ UNCHANGED thread
         \/ thread.pc = "handler" /\ thread' = [pc |-> "poll", event |-> NoEvent],
         NEW e \in Events, queue' = Append(queue, e), e.win <= created,
         \A v \in Widgets : user[v] = "add" => widget[v].win # e.win,
         \A v \in 1 .. created :
           /\ server'[v].mapped = server[v].mapped
           /\ server'[v].geom = IF v = e.win /\ e.type = "configure" THEN e.geom
                                ELSE server[v].geom
  PROVE  XGeometry'
<1>1. /\ \A win \in DOMAIN win_map : win_map[win] \in Widgets /\ win \in 1 .. created
      /\ \A v \in Widgets : user[v] = "add" => widget[v].win \in 1 .. created
  BY OpenHasWindow, XNumbers DEF XTypes, TypeOK, XWindows, Placed, WidgetRecords
<1>2. PICK n \in Nat :
        /\ DOMAIN queue' = DOMAIN queue \cup {n}
        /\ \A i \in DOMAIN queue : queue'[i] = queue[i] /\ i \in Nat /\ i < n
        /\ queue'[n] = e
  <2>1. queue \in Seq(Events) /\ Len(queue) + 1 \in Nat
    BY LenProperties DEF XTypes, TypeOK
  <2> QED BY <2>1, Appended
<1>3. \A win : Unapplied(win)' <=> Unapplied(win)
  BY DEF Unapplied
<1>4. ASSUME NEW w \in Widgets  PROVE Fresh(w)'
  <2>1. CASE user[w] # "add"
    BY <2>1 DEF Fresh
  <2>2. CASE user[w] = "add"
    <3>1. Fresh(w) /\ widget[w].win # 0
      BY <2>2, <1>1 DEF XGeometry
    <3>2. thread'.event.win # widget[w].win
      BY <2>2, <3>1 DEF NoEvent, Fresh
    <3>3. \A i \in DOMAIN queue' : queue'[i].win # widget[w].win
      BY <1>2, <2>2, <3>1 DEF Fresh
    <3> QED BY <2>2, <3>1, <3>2, <3>3, <1>1 DEF Fresh, Shown
  <2> QED BY <2>1, <2>2
<1>5. ASSUME NEW win \in DOMAIN win_map  PROVE Followed(win)'
  <2>1. Followed(win) /\ win_map[win] \in Widgets /\ win \in 1 .. created
    BY <1>1 DEF XGeometry
  <2>2. Shown(win_map[win])' = Shown(win_map[win])
    BY <2>1 DEF Shown
  <2>3. thread'.pc = "resize" => UNCHANGED thread
    OBVIOUS
  <2>4. CASE e.win = win /\ e.type = "configure"
    <3>1. Changes(win)' = Changes(win) \cup {n}
      BY <1>2, <2>4 DEF Changes
    <3>2. \A i \in Changes(win) : i < n /\ i \in Nat
      BY <1>2 DEF Changes
    <3>3. server'[win].geom = e.geom
      BY <2>1, <2>4
    <3>4. ASSUME NEW i \in Changes(win)', \A j \in Changes(win)' : j <= i
          PROVE  queue'[i].geom = server'[win].geom
      BY <1>2, <3>1, <3>2, <3>3, <3>4
    <3> QED BY <2>1, <2>3, <3>1, <3>4 DEF Followed
  <2>5. CASE ~(e.win = win /\ e.type = "configure")
    <3>1. Changes(win)' = Changes(win)
      BY <1>2, <2>5 DEF Changes
    <3>2. server'[win].geom = server[win].geom
      BY <2>1, <2>5
    <3>3. \A i \in Changes(win) : queue'[i] = queue[i]
      BY <1>2 DEF Changes
    <3>4. Unapplied(win) => UNCHANGED thread
      BY DEF Unapplied
    <3> QED BY <1>3, <2>1, <2>2, <2>3, <3>1, <3>2, <3>3, <3>4 DEF Followed
  <2> QED BY <2>4, <2>5
<1>6. thread'.event.win <= created
  BY DEF XGeometry, NoEvent, XTypes, TypeOK
<1>7. \A i \in DOMAIN queue' : queue'[i].win <= created
  BY <1>2 DEF XGeometry
<1> QED BY <1>4, <1>5, <1>6, <1>7 DEF XGeometry

\* An event taken from the queue is still the last change of its window, or older.
LEMMA GeometryRead == XTypes /\ XWindows /\ XGeometry /\ NextEvent => XGeometry'
<1> SUFFICES ASSUME XTypes, XWindows, XGeometry, NextEvent  PROVE XGeometry'
  OBVIOUS
<1>0. /\ queue # << >> /\ queue' = Tail(queue) /\ thread.pc = "poll"
      /\ thread' = [pc |-> "read", event |-> Head(queue)]
      /\ UNCHANGED <<widget, user, win_map, server, created>>
  BY DEF NextEvent
<1>1. /\ Head(queue) = queue[1] /\ 1 \in DOMAIN queue
      /\ \A i \in DOMAIN queue' : i + 1 \in DOMAIN queue /\ queue'[i] = queue[i + 1]
      /\ \A i \in DOMAIN queue : i \in Nat /\ (i # 1 => i - 1 \in DOMAIN queue')
      /\ \A i \in DOMAIN queue' : i \in Nat /\ i # 0
  BY <1>0, Tailed DEF XTypes, TypeOK
<1>2. ASSUME NEW w \in Widgets  PROVE Fresh(w)'
  <2>1. Fresh(w)
    BY DEF XGeometry
  <2>2. Fresh(w)' = (user[w] = "add" =>
          /\ \A i \in DOMAIN queue' : queue'[i].win # widget[w].win
          /\ queue[1].win # widget[w].win
          /\ ~server[widget[w].win].mapped
          /\ server[widget[w].win].geom = Shown(w))
    BY <1>0, <1>1 DEF Fresh, Shown
  <2> QED BY <1>1, <2>1, <2>2 DEF Fresh
<1>3. ASSUME NEW win \in DOMAIN win_map  PROVE Followed(win)'
  <2>1. Followed(win)
    BY DEF XGeometry
  <2>2. \A i \in Changes(win)' : i + 1 \in Changes(win) /\ queue'[i] = queue[i + 1]
    BY <1>1 DEF Changes
  <2>3. \A i \in Changes(win) : i # 1 => i - 1 \in Changes(win)'
    <3> SUFFICES ASSUME NEW i \in Changes(win), i # 1  PROVE i - 1 \in Changes(win)'
      OBVIOUS
    <3>1. i \in DOMAIN queue /\ i - 1 \in DOMAIN queue' /\ i \in Nat
      BY <1>1 DEF Changes
    <3>2. queue'[i - 1] = queue[i]
      BY <1>1, <3>1
    <3> QED BY <3>1, <3>2 DEF Changes
  <2>4. /\ \A i \in Changes(win) : i \in Nat
        /\ \A i \in Changes(win)' : i \in Nat /\ i # 0
    BY <1>1 DEF Changes
  <2>5. ASSUME NEW i \in Changes(win)', \A j \in Changes(win)' : j <= i
        PROVE  queue'[i].geom = server'[win].geom
    <3>1. \A j \in Changes(win) : j <= i + 1
      <4> SUFFICES ASSUME NEW j \in Changes(win)  PROVE j <= i + 1
        OBVIOUS
      <4>1. CASE j = 1
        BY <2>4, <4>1
      <4>2. CASE j # 1
        <5>1. j - 1 \in Changes(win)'
          BY <2>3, <4>2
        <5>2. j - 1 <= i
          BY <2>5, <5>1
        <5> QED BY <2>4, <5>2
      <4> QED BY <4>1, <4>2
    <3>2. queue[i + 1].geom = server[win].geom
      BY <2>1, <2>2, <3>1 DEF Followed
    <3> QED BY <1>0, <2>2, <3>2
  <2>6. ASSUME Changes(win)' = {}
        PROVE  server'[win].geom = IF Unapplied(win)' THEN thread'.event.geom
                                   ELSE Shown(win_map[win])'
    <3>1. \A i \in Changes(win) : i = 1
      BY <2>3, <2>6
    <3>2. CASE 1 \in Changes(win)
      <4>1. Unapplied(win)' /\ thread'.event.geom = queue[1].geom
        BY <1>0, <1>1, <3>2 DEF Unapplied, Changes
      <4>2. queue[1].geom = server[win].geom
        BY <2>1, <3>1, <3>2 DEF Followed
      <4> QED BY <1>0, <4>1, <4>2
    <3>3. CASE 1 \notin Changes(win)
      <4>1. ~Unapplied(win)' /\ ~Unapplied(win)
        BY <1>0, <1>1, <3>3 DEF Unapplied, Changes
      <4>2. Changes(win) = {}
        BY <3>1, <3>3
      <4>3. Shown(win_map[win])' = Shown(win_map[win])
        BY <1>0 DEF Shown
      <4> QED BY <1>0, <2>1, <4>1, <4>2, <4>3 DEF Followed
    <3> QED BY <3>2, <3>3
  <2>7. thread'.pc # "resize"
    BY <1>0
  <2> QED BY <1>0, <2>5, <2>6, <2>7 DEF Followed
<1>4. /\ \A i \in DOMAIN queue' : queue'[i].win <= created
      /\ thread'.event.win <= created
  BY <1>0, <1>1 DEF XGeometry
<1> QED BY <1>0, <1>2, <1>3, <1>4 DEF XGeometry

\* The size and then the position that the event thread applies are the event's.
LEMMA GeometryApplied ==
  XTypes /\ XLocks /\ XWindows /\ XGeometry /\ (Dispatch \/ ResizeBuffer) => XGeometry'
<1> SUFFICES ASSUME XTypes, XLocks, XWindows, XGeometry, Dispatch \/ ResizeBuffer
             PROVE  XGeometry'
  OBVIOUS
<1> DEFINE e == thread.event
<1>0. /\ UNCHANGED <<user, win_map, server, queue, created>>
      /\ thread' = [thread EXCEPT !.pc = thread'.pc]
      /\ thread.pc \in {"read", "resize"} /\ e \in Events
      /\ thread'.event = e /\ e.geom = [size |-> e.geom.size, pos |-> e.geom.pos]
      /\ widget \in [Widgets -> WidgetRecords]
      /\ \A win \in DOMAIN win_map : win_map[win] \in Widgets
  BY DEF Dispatch, ResizeBuffer, XTypes, TypeOK, Events, Geometry, Goto
<1>1. ASSUME NEW w \in Widgets, widget'[w] # widget[w]
      PROVE  e.win \in DOMAIN win_map /\ w = Target /\ e.type = "configure"
  <2>1. CASE Dispatch
    BY <1>0, <1>1, <2>1 DEF Dispatch, Target
  <2>2. CASE ResizeBuffer
    BY <1>0, <1>1, <2>2 DEF ResizeBuffer, Target, XLocks, XTypes
  <2> QED BY <2>1, <2>2
<1>3. ASSUME NEW w \in Widgets  PROVE Fresh(w)'
  <2>1. Fresh(w)
    BY DEF XGeometry
  <2>2. CASE user[w] # "add"
    BY <1>0, <2>2 DEF Fresh
  <2>3. CASE user[w] = "add"
    <3>1. widget'[w] = widget[w]
      <4>1. CASE e.win \in DOMAIN win_map
        <5>1. widget[Target].win = e.win
          BY <4>1 DEF XWindows, Target
        <5>2. e.win # widget[w].win
          BY <2>1, <2>3 DEF Fresh
        <5> QED BY <1>1, <5>1, <5>2
      <4>2. CASE e.win \notin DOMAIN win_map
        BY <1>1, <4>2
      <4> QED BY <4>1, <4>2
    <3> QED BY <1>0, <2>1, <2>3, <3>1 DEF Fresh, Shown
  <2> QED BY <2>2, <2>3
<1>4. ASSUME NEW win \in DOMAIN win_map  PROVE Followed(win)'
  <2>1. Followed(win) /\ win_map[win] \in Widgets
    BY <1>0 DEF XGeometry
  <2>2. Changes(win)' = Changes(win)
    BY <1>0 DEF Changes
  <2>3. CASE e.win # win \/ e.type # "configure"
    <3>1. widget'[win_map[win]] = widget[win_map[win]]
      <4>1. CASE e.win \in DOMAIN win_map /\ e.win # win
        <5>1. widget[Target].win = e.win /\ widget[win_map[win]].win = win
          BY <4>1 DEF XWindows, Target
        <5> QED BY <1>1, <2>1, <4>1, <5>1
      <4> QED BY <1>1, <2>1, <2>3, <4>1
    <3>2. Shown(win_map[win])' = Shown(win_map[win])
      BY <1>0, <3>1 DEF Shown
    <3>3. ~Unapplied(win)' /\ ~Unapplied(win)
      BY <1>0, <2>3 DEF Unapplied
    <3>4. ~(thread'.pc = "resize" /\ thread'.event.win = win)
      <4>1. CASE Dispatch
        BY <1>0, <2>3, <4>1 DEF Dispatch, Goto
      <4>2. CASE ResizeBuffer
        BY <1>0, <4>2 DEF ResizeBuffer, Goto
      <4> QED BY <4>1, <4>2
    <3> QED BY <1>0, <2>1, <2>2, <3>2, <3>3, <3>4 DEF Followed
  <2>4. CASE e.win = win /\ e.type = "configure"
    <3>1. Target = win_map[win] /\ Target \in Widgets /\ widget[Target] \in WidgetRecords
      BY <1>0, <2>1, <2>4 DEF Target
    <3>2. Unapplied(win)
      BY <1>0, <2>4 DEF Unapplied
    <3>3. \/ /\ thread'.pc = "resize" /\ widget'[Target].size = e.geom.size
          \/ /\ thread'.pc = "handler"
             /\ widget'[Target].size = e.geom.size /\ widget'[Target].pos = e.geom.pos
      <4>1. CASE Dispatch
        BY <1>0, <2>4, <3>1, <4>1 DEF Dispatch, Goto, WidgetRecords
      <4>2. CASE ResizeBuffer
        <5>1. widget[Target].size = e.geom.size
          BY <2>1, <2>4, <3>1, <4>2 DEF Followed, ResizeBuffer
        <5> QED BY <1>0, <2>4, <3>1, <4>2, <5>1 DEF ResizeBuffer, Goto, WidgetRecords
      <4> QED BY <4>1, <4>2
    <3>4. Unapplied(win)' <=> thread'.pc = "resize"
      BY <1>0, <2>4, <3>3 DEF Unapplied
    <3>5. thread'.pc = "handler" => Shown(win_map[win])' = e.geom
      BY <1>0, <3>1, <3>3 DEF Shown
    <3> QED BY <1>0, <2>1, <2>2, <3>1, <3>2, <3>3, <3>4, <3>5 DEF Followed
  <2> QED BY <2>3, <2>4
<1>5. \A i \in DOMAIN queue' : queue'[i].win <= created'
  BY <1>0 DEF XGeometry
<1>6. thread'.event.win <= created'
  BY <1>0 DEF XGeometry
<1> QED BY <1>0, <1>3, <1>4, <1>5, <1>6 DEF XGeometry

\* The widget and the server never part but by events on their way.
LEMMA XGeometryStep ==
  XTypes /\ XLocks /\ XWindows /\ XGeometry /\ [Next]_vars => XGeometry'
<1> SUFFICES ASSUME XTypes, XLocks, XWindows, XGeometry, [Next]_vars  PROVE XGeometry'
  OBVIOUS
<1>0. /\ user \in [Widgets -> {"idle", "add", "map", "sync", "destroy", "make", "copy"}]
      /\ widget \in [Widgets -> WidgetRecords]
      /\ \A win \in DOMAIN win_map : win_map[win] \in Widgets
      /\ created \in Nat /\ server \in Seq(WindowRecords) /\ DOMAIN server = 1 .. created
      /\ \A v \in 1 .. created : server[v] \in WindowRecords
      /\ queue \in Seq(Events)
  BY XNumbers, LenProperties, ServerHas DEF XTypes, TypeOK
\* A window that is resized or moved by a widget or the window manager.
<1>a. ASSUME NEW win \in 1 .. created, NEW g \in Geometry, Configure(win, g),
             UNCHANGED <<widget, user, win_map, created>>,
             \/ UNCHANGED thread
             \/ thread.pc = "handler" /\ thread' = [pc |-> "poll", event |-> NoEvent],
             \A v \in Widgets : user[v] = "add" => widget[v].win # win
      PROVE  XGeometry'
  <2> DEFINE e == [win |-> win, type |-> "configure", geom |-> g]
  <2>1. e \in Events /\ e.win = win /\ e.type = "configure" /\ e.geom = g
    BY <1>a, ServerHas DEF Events
  <2>2. /\ queue' = Append(queue, e)
        /\ \A v \in 1 .. created :
             server'[v] = IF v = win THEN [server[v] EXCEPT !.geom = g] ELSE server[v]
    BY <1>a, Configured
  <2>3. \A v \in 1 .. created :
          /\ server'[v].mapped = server[v].mapped
          /\ server'[v].geom = IF v = e.win /\ e.type = "configure" THEN e.geom
                               ELSE server[v].geom
    BY <1>0, <2>1, <2>2 DEF WindowRecords
  <2>4. e.win <= created
    BY <1>0, <2>1
  <2> HIDE DEF e
  <2> QED BY <1>a, <2>1, <2>2, <2>3, <2>4, GeometrySent
<1> USE DEF At
<1>1. CASE NextEvent
  BY <1>1, GeometryRead
<1>2. CASE Dispatch
  BY <1>2, GeometryApplied
<1>3. CASE ResizeBuffer
  BY <1>3, GeometryApplied
<1>4. CASE Handler
  <2>1. CASE UNCHANGED <<server, queue, sent>>
    BY <1>4, <2>1, GeometryKept DEF Handler
  <2>2. ASSUME NEW s \in Sizes, widget[Target].open_flag,
               Configure(widget[Target].win,
                         [server[widget[Target].win].geom EXCEPT !.size = s])
        PROVE  XGeometry'
    <3>1. Target \in Widgets
      BY <1>4, TargetIs DEF Handler
    <3>2. widget[Target].win \in 1 .. created
      BY <2>2, <3>1, OpenHasWindow
    <3>3. [server[widget[Target].win].geom EXCEPT !.size = s] \in Geometry
      BY <1>0, <3>2 DEF WindowRecords, Geometry
    <3>4. \A v \in Widgets : user[v] = "add" => widget[v].win # widget[Target].win
      BY <2>2, <3>1, <3>2 DEF XWindows, Placed
    <3> QED BY <1>4, <1>a, <2>2, <3>2, <3>3, <3>4 DEF Handler
  <2> QED BY <1>4, <2>1, <2>2 DEF Handler
<1>5. CASE WindowManager
  <2>1. PICK win \in DOMAIN server :
          /\ server[win].mapped
          /\ \/ \E g \in Geometry : Configure(win, g)
             \/ Send(win, "other", server[win].geom) /\ UNCHANGED server
          /\ UNCHANGED <<widget, user, win_map, mutex, thread, created>>
    BY <1>5 DEF WindowManager
  <2>2. win \in 1 .. created /\ \A v \in Widgets : user[v] = "add" => widget[v].win # win
    BY <1>0, <2>1 DEF XGeometry, Fresh
  <2>3. CASE \E g \in Geometry : Configure(win, g)
    BY <1>a, <2>1, <2>2, <2>3
  <2>4. CASE Send(win, "other", server[win].geom) /\ UNCHANGED server
    <3> DEFINE e == [win |-> win, type |-> "other", geom |-> server[win].geom]
    <3>1. e \in Events /\ e.win = win /\ e.type # "configure" /\ e.win <= created
      BY <1>0, <2>2, ServerHas DEF Events, WindowRecords
    <3>2. queue' = Append(queue, e)
      BY <2>4 DEF Send
    <3> HIDE DEF e
    <3> QED BY <2>1, <2>2, <2>4, <3>1, <3>2, GeometrySent
  <2> QED BY <2>1, <2>3, <2>4
<1>6. ASSUME NEW w \in Widgets, OpenCreates(w)  PROVE XGeometry'
  <2>1. PICK s \in Sizes :
          /\ widget' = [widget EXCEPT ![w].size = s, ![w].pos = 0, ![w].win = created']
          /\ server' = Append(server, [geom |-> [size |-> s, pos |-> 0], mapped |-> FALSE,
                                       resizable |-> widget[w].resizable_flag])
    BY <1>6 DEF OpenCreates
  <2>2. /\ user[w] = "idle" /\ ~widget[w].open_flag /\ user' = [user EXCEPT ![w] = "add"]
        /\ created' = created + 1 /\ UNCHANGED <<win_map, thread, queue>>
    BY <1>6 DEF OpenCreates
  <2>3. /\ widget'[w].size = s /\ widget'[w].pos = 0 /\ widget'[w].win = created + 1
        /\ \A v \in Widgets \ {w} : widget'[v] = widget[v] /\ user'[v] = user[v]
    BY <1>0, <2>1, <2>2 DEF WidgetRecords
  <2>4. /\ server'[created + 1].geom = [size |-> s, pos |-> 0]
        /\ ~server'[created + 1].mapped
        /\ \A v \in 1 .. created : server'[v] = server[v]
    BY <1>0, <2>1, AppendProperties, LenProperties DEF XTypes
  <2>5. ASSUME NEW v \in Widgets  PROVE Fresh(v)'
    <3>1. CASE v = w
      BY <1>0, <2>2, <2>3, <2>4, <3>1 DEF XGeometry, Fresh, Shown, Events, XTypes, TypeOK
    <3>2. CASE v # w /\ user[v] = "add"
      <4>1. Fresh(v) /\ widget[v].win \in 1 .. created
        BY <3>2, OpenHasWindow DEF XGeometry
      <4> QED BY <2>2, <2>3, <2>4, <3>2, <4>1 DEF Fresh, Shown
    <3>3. CASE v # w /\ user[v] # "add"
      BY <2>3, <3>3 DEF Fresh
    <3> QED BY <3>1, <3>2, <3>3
  <2>6. ASSUME NEW win \in DOMAIN win_map  PROVE Followed(win)'
    <3>1. /\ Followed(win) /\ win_map[win] \in Widgets
          /\ win \in 1 .. created
      BY <1>0, XNumbers DEF XGeometry, XWindows, Placed, XTypes, TypeOK, WidgetRecords
    <3>2. win_map[win] # w
      <4>1. ~Registered(w)
        BY <2>2 DEF Registered
      <4> QED BY <4>1 DEF XWindows, Placed
    <3>3. Shown(win_map[win])' = Shown(win_map[win])
      BY <2>2, <2>3, <3>1, <3>2 DEF Shown
    <3>4. Changes(win)' = Changes(win) /\ (Unapplied(win)' <=> Unapplied(win))
      BY <2>2 DEF Changes, Unapplied
    <3>5. server'[win] = server[win] /\ widget'[win_map[win]] = widget[win_map[win]]
      BY <2>3, <2>4, <3>1, <3>2
    <3> QED BY <2>2, <3>1, <3>3, <3>4, <3>5 DEF Followed
  <2>7. /\ \A i \in DOMAIN queue' : queue'[i].win <= created'
        /\ thread'.event.win <= created'
    <3>1. /\ \A i \in DOMAIN queue : queue[i].win \in Nat /\ queue[i].win <= created
          /\ thread.event.win \in Nat /\ thread.event.win <= created
      <4>1. \A e \in Events \cup {NoEvent} : e.win \in Nat
        <5>1. \A e \in Events : e.win \in Nat
          <6>1. \A e \in Events : e.win \in Windows
            BY DEF Events
          <6> QED BY <6>1, XNumbers
        <5> QED BY <5>1 DEF NoEvent
      <4>2. \A i \in DOMAIN queue : queue[i] \in Events
        BY <1>0, ElementOfSeq, LenProperties
      <4> QED BY <4>1, <4>2 DEF XGeometry, XTypes, TypeOK
    <3> QED BY <1>0, <2>2, <3>1
  <2> QED BY <2>2, <2>5, <2>6, <2>7 DEF XGeometry
<1>7. ASSUME NEW w \in Widgets, OpenAdds(w)  PROVE XGeometry'
  <2>1. /\ user[w] = "add" /\ user' = [user EXCEPT ![w] = "map"]
        /\ UNCHANGED <<widget, server, queue, thread, created>>
        /\ DOMAIN win_map' = DOMAIN win_map \cup {widget[w].win}
        /\ \A win \in DOMAIN win_map' :
             win_map'[win] = IF win = widget[w].win THEN w ELSE win_map[win]
    BY <1>7 DEF OpenAdds
  <2>2. ASSUME NEW v \in Widgets  PROVE Fresh(v)'
    <3>1. Fresh(v)
      BY DEF XGeometry
    <3>2. user'[v] = "add" => user[v] = "add"
      BY <1>0, <2>1
    <3> QED BY <2>1, <3>1, <3>2 DEF Fresh, Shown
  <2>3. \A win : /\ Changes(win)' = Changes(win) /\ (Unapplied(win)' <=> Unapplied(win))
                 /\ \A v \in Widgets : Shown(v)' = Shown(v)
    BY <2>1 DEF Changes, Unapplied, Shown
  <2>4. Followed(widget[w].win)'
    <3>1. Fresh(w) /\ win_map'[widget[w].win] = w
      BY <2>1 DEF XGeometry
    <3>2. /\ Changes(widget[w].win) = {} /\ ~Unapplied(widget[w].win)
          /\ server[widget[w].win].geom = Shown(w)
          /\ thread.event.win # widget[w].win
      BY <2>1, <3>1 DEF Fresh, Changes, Unapplied
    <3> QED BY <2>1, <2>3, <3>1, <3>2 DEF Followed
  <2>5. ASSUME NEW win \in DOMAIN win_map, win # widget[w].win  PROVE Followed(win)'
    <3>1. Followed(win) /\ win_map[win] \in Widgets /\ win_map'[win] = win_map[win]
      BY <1>0, <2>1, <2>5 DEF XGeometry
    <3> QED BY <2>1, <2>3, <3>1 DEF Followed
  <2> QED BY <2>1, <2>2, <2>4, <2>5 DEF XGeometry
<1>8. ASSUME NEW w \in Widgets, OpenMaps(w)  PROVE XGeometry'
  <2>1. widget[w].win \in 1 .. created
    BY <1>8, OpenHasWindow DEF OpenMaps
  <2>2. \A v \in 1 .. created :
          server'[v] = IF v = widget[w].win THEN [server[v] EXCEPT !.mapped = TRUE]
                       ELSE server[v]
    BY <1>0, <1>8, <2>1 DEF OpenMaps
  <2>3. \A v \in 1 .. created : server'[v].geom = server[v].geom
    BY <1>0, <2>2 DEF WindowRecords
  <2>4. \A v \in Widgets : user'[v] = "add" =>
          user[v] = "add" /\ ( server'[widget[v].win].mapped => server[widget[v].win].mapped )
    <3> SUFFICES ASSUME NEW v \in Widgets, user'[v] = "add"
                 PROVE  user[v] = "add" /\ server'[widget[v].win] = server[widget[v].win]
      OBVIOUS
    <3>1. user[v] = "add" /\ v # w
      BY <1>0, <1>8 DEF OpenMaps
    <3>2. widget[v].win \in 1 .. created /\ widget[v].win # widget[w].win
      BY <1>8, <2>1, <3>1, OpenHasWindow DEF XWindows
    <3> QED BY <2>2, <3>1, <3>2
  <2> QED BY <1>8, <2>3, <2>4, GeometryKept DEF OpenMaps
<1>9. ASSUME NEW w \in Widgets, OpenReturns(w)  PROVE XGeometry'
  <2>1. \A v \in Widgets : /\ widget'[v].win = widget[v].win
                           /\ widget'[v].size = widget[v].size
                           /\ widget'[v].pos = widget[v].pos
                           /\ user'[v] = "add" => user[v] = "add"
    BY <1>0, <1>9 DEF OpenReturns, WidgetRecords
  <2> QED BY <1>9, <2>1, GeometryKept DEF OpenReturns
<1>10. ASSUME NEW w \in Widgets, CloseErases(w)  PROVE XGeometry'
  <2>1. \A v \in Widgets : user'[v] = "add" => user[v] = "add"
    BY <1>0, <1>10 DEF CloseErases
  <2> QED BY <1>10, <2>1, GeometryKept DEF CloseErases
<1>11. ASSUME NEW w \in Widgets, CloseDestroys(w)  PROVE XGeometry'
  <2>1. widget[w].win \in 1 .. created
    BY <1>11, OpenHasWindow DEF CloseDestroys
  <2>2. \A v \in 1 .. created :
          server'[v] = IF v = widget[w].win THEN [server[v] EXCEPT !.mapped = FALSE]
                       ELSE server[v]
    BY <1>0, <1>11, <2>1 DEF CloseDestroys
  <2>3. \A v \in 1 .. created : /\ server'[v].geom = server[v].geom
                                /\ server'[v].mapped => server[v].mapped
    BY <1>0, <2>2 DEF WindowRecords
  <2>4. \A v \in Widgets : /\ widget'[v].win = widget[v].win
                           /\ widget'[v].size = widget[v].size
                           /\ widget'[v].pos = widget[v].pos
                           /\ user'[v] = "add" =>
                                user[v] = "add" /\ widget[v].win \in 1 .. created
    BY <1>0, <1>11, OpenHasWindow DEF CloseDestroys, WidgetRecords
  <2> QED BY <1>11, <2>3, <2>4, GeometryKept DEF CloseDestroys
<1>12. ASSUME NEW w \in Widgets, SetResizable(w)  PROVE XGeometry'
  <2>1. \A v \in 1 .. created : /\ server'[v].geom = server[v].geom
                                /\ server'[v].mapped = server[v].mapped
    <3>1. CASE widget[w].open_flag
      <4>1. \A v \in 1 .. created :
              server'[v] = IF v = widget[w].win
                           THEN [server[v] EXCEPT !.resizable = widget'[w].resizable_flag]
                           ELSE server[v]
        BY <1>0, <1>12, <3>1 DEF SetResizable
      <4> QED BY <1>0, <4>1 DEF WindowRecords
    <3>2. CASE ~widget[w].open_flag
      BY <1>12, <3>2 DEF SetResizable
    <3> QED BY <3>1, <3>2
  <2>2. \A v \in Widgets : /\ widget'[v].win = widget[v].win
                           /\ widget'[v].size = widget[v].size
                           /\ widget'[v].pos = widget[v].pos
                           /\ user'[v] = "add" =>
                                user[v] = "add" /\ widget[v].win \in 1 .. created
    BY <1>0, <1>12, OpenHasWindow DEF SetResizable, WidgetRecords
  <2> QED BY <1>12, <2>1, <2>2, GeometryKept DEF SetResizable
<1>13. ASSUME NEW w \in Widgets, ResizeOrMove(w)  PROVE XGeometry'
  <2>1. widget[w].win \in 1 .. created
    BY <1>13, OpenHasWindow DEF ResizeOrMove
  <2>2. \A v \in Widgets : user[v] = "add" => widget[v].win # widget[w].win
    BY <1>13, <2>1 DEF ResizeOrMove, XWindows
  <2>3. user' = user
    BY <1>0, <1>13 DEF ResizeOrMove
  <2> QED BY <1>13, <1>a, <2>1, <2>2, <2>3 DEF ResizeOrMove
<1>14. ASSUME NEW w \in Widgets, DisplayStarts(w)  PROVE XGeometry'
  <2>1. \A v \in Widgets : /\ widget'[v].win = widget[v].win
                           /\ widget'[v].size = widget[v].size
                           /\ widget'[v].pos = widget[v].pos
                           /\ user'[v] = "add" => user[v] = "add"
    BY <1>0, <1>14 DEF DisplayStarts, WidgetRecords
  <2> QED BY <1>14, <2>1, GeometryKept DEF DisplayStarts
<1>15. ASSUME NEW w \in Widgets, DisplayMakes(w)  PROVE XGeometry'
  <2>1. \A v \in Widgets : /\ widget'[v].win = widget[v].win
                           /\ widget'[v].size = widget[v].size
                           /\ widget'[v].pos = widget[v].pos
                           /\ user'[v] = "add" => user[v] = "add"
    BY <1>0, <1>15 DEF DisplayMakes, WidgetRecords
  <2> QED BY <1>15, <2>1, GeometryKept DEF DisplayMakes
<1>16. ASSUME NEW w \in Widgets, DisplayPuts(w)  PROVE XGeometry'
  <2>1. \A v \in Widgets : user'[v] = "add" => user[v] = "add"
    BY <1>0, <1>16 DEF DisplayPuts
  <2> QED BY <1>16, <2>1, GeometryKept DEF DisplayPuts
<1>17. CASE UNCHANGED vars
  BY <1>17, GeometryKept DEF vars
<1> QED
  BY <1>1, <1>2, <1>3, <1>4, <1>5, <1>6, <1>7, <1>8, <1>9, <1>10, <1>11, <1>12,
     <1>13, <1>14, <1>15, <1>16, <1>17 DEF Next, EventThread, Within, Call

\* Nothing is open and nothing has been sent.
LEMMA XInit == Init => XInv
<1> SUFFICES ASSUME Init  PROVE XInv
  OBVIOUS
<1>0. /\ widget = [w \in Widgets |-> Closed] /\ user = [w \in Widgets |-> "idle"]
      /\ win_map = << >> /\ mutex = "free" /\ server = << >> /\ queue = << >>
      /\ thread = [pc |-> "poll", event |-> NoEvent] /\ created = 0 /\ sent = 0
  BY DEF Init
<1>1. Closed \in WidgetRecords /\ Closed.win = 0 /\ ~Closed.open_flag
  BY XNumbers DEF Closed, WidgetRecords
<1>2. XTypes
  <2>1. /\ << >> \in Seq(WindowRecords) /\ << >> \in Seq(Events) /\ Len(<< >>) = 0
        /\ DOMAIN << >> = {}
    OBVIOUS
  <2>2. TypeOK
    BY <1>0, <1>1, <2>1, XNumbers DEF TypeOK
  <2> QED BY <1>0, <2>1, <2>2 DEF XTypes
<1>3. XLocks
  BY <1>0, XNumbers DEF XLocks
<1>4. XWindows
  BY <1>0, <1>1 DEF XWindows, Placed, Registered
<1>5. XGeometry
  BY <1>0 DEF XGeometry, Fresh, Followed, NoEvent
<1> QED BY <1>2, <1>3, <1>4, <1>5 DEF XInv

\* All parts of the invariant together.
LEMMA XStep == XInv /\ [Next]_vars => XInv'
BY XTypesStep, XLocksStep, XWindowsStep, XGeometryStep DEF XInv

\* What the runs check of an XWidget.
LEMMA XSafe == XInv => TypeOK /\ GeometryFollows
<1> SUFFICES ASSUME XInv  PROVE TypeOK /\ GeometryFollows
  OBVIOUS
<1>1. TypeOK
  BY DEF XInv, XTypes
<1>2. ASSUME NEW w \in Widgets, widget[w].win \in DOMAIN win_map,
             ~(thread.pc # "poll" /\ thread.event.win = widget[w].win),
             \A i \in DOMAIN queue : queue[i].win # widget[w].win
      PROVE  server[widget[w].win].geom = [size |-> widget[w].size, pos |-> widget[w].pos]
  <2>1. Followed(widget[w].win) /\ win_map[widget[w].win] = w
    BY <1>2 DEF XInv, XGeometry, XWindows, Placed
  <2>2. Changes(widget[w].win) = {} /\ ~Unapplied(widget[w].win)
    BY <1>2 DEF Changes, Unapplied
  <2> QED BY <2>1, <2>2 DEF Followed, Shown
<1>3. GeometryFollows
  BY <1>2 DEF GeometryFollows
<1> QED BY <1>1, <1>3

\* A step that neither changes win_map nor begins or ends a handler.
LEMMA Stutters == UNCHANGED <<win_map, Handled>> => Delivers
BY DEF Delivers

\* add() and erase() under event_mutex, and the handlers between them.
LEMMA XDelivers == XInv /\ [Next]_vars => Delivers
<1> SUFFICES ASSUME XInv, [Next]_vars  PROVE Delivers
  OBVIOUS
<1>0. /\ user \in [Widgets -> {"idle", "add", "map", "sync", "destroy", "make", "copy"}]
      /\ \A win \in DOMAIN win_map : win_map[win] \in Widgets /\ win \in Nat \ {0}
      /\ "free" \notin Widgets /\ "events" \notin Widgets
      /\ thread \in [pc : {"poll", "read", "resize", "handler"},
                     event : Events \cup {NoEvent}]
      /\ XTypes /\ XLocks /\ XWindows
  BY XNumbers DEF XInv, XTypes, TypeOK
<1> USE DEF At, Goto
<1>1. CASE NextEvent
  BY <1>1, Stutters DEF NextEvent, Handled
<1>2. CASE Dispatch
  <2>1. CASE thread.event.win \in DOMAIN win_map
    <3>1. /\ Handled = 0 /\ Handled' = thread.event.win /\ UNCHANGED win_map
      BY <1>0, <1>2, <2>1 DEF Dispatch, Handled
    <3>2. Promise!Begin
      BY <2>1, <3>1 DEF Promise!Begin, Handled
    <3> QED BY <3>2 DEF Delivers
  <2>2. CASE thread.event.win \notin DOMAIN win_map
    BY <1>0, <1>2, <2>2, Stutters DEF Dispatch, Handled
  <2> QED BY <2>1, <2>2
<1>3. CASE ResizeBuffer
  BY <1>0, <1>3, Stutters DEF ResizeBuffer, Handled
<1>4. CASE Handler
  <2>1. Handled # 0 /\ Handled' = 0 /\ UNCHANGED win_map
    BY <1>0, <1>4 DEF Handler, Handled, XLocks
  <2>2. Promise!End
    BY <2>1 DEF Promise!End, Handled
  <2> QED BY <2>2 DEF Delivers
<1>5. CASE WindowManager
  BY <1>5, Stutters DEF WindowManager, Handled
<1>6. ASSUME NEW w \in Widgets, OpenCreates(w)  PROVE Delivers
  BY <1>6, Stutters DEF OpenCreates, Handled
<1>7. ASSUME NEW w \in Widgets, OpenAdds(w)  PROVE Delivers
  <2>1. user[w] = "add" /\ widget[w].win \in 1 .. MaxWindows + 1
    <3>1. widget[w].win \in Windows
      BY <1>0, <1>7, OpenHasWindow DEF OpenAdds
    <3> QED BY <1>7, <3>1, XNumbers DEF OpenAdds, Windows
  <2>2. widget[w].win \notin DOMAIN win_map
    BY <1>0, <2>1 DEF XWindows, Placed, Registered
  <2>3. \A other \in DOMAIN win_map : win_map[other] # w
    BY <1>0, <2>2 DEF XWindows
  <2>4. /\ win_map' = [x \in DOMAIN win_map \cup {widget[w].win} |->
                         IF x = widget[w].win THEN w ELSE win_map[x]]
        /\ UNCHANGED thread
    BY <1>7 DEF OpenAdds
  <2>5. Promise!Register
    BY <2>1, <2>2, <2>3, <2>4 DEF Promise!Register
  <2> QED BY <2>5 DEF Delivers
<1>8. ASSUME NEW w \in Widgets, OpenMaps(w)  PROVE Delivers
  BY <1>8, Stutters DEF OpenMaps, Handled
<1>9. ASSUME NEW w \in Widgets, OpenReturns(w)  PROVE Delivers
  BY <1>9, Stutters DEF OpenReturns, Handled
<1>10. ASSUME NEW w \in Widgets, CloseErases(w)  PROVE Delivers
  <2>1. /\ user[w] = "idle" /\ widget[w].open_flag /\ mutex = "free" /\ UNCHANGED thread
        /\ win_map' = [x \in DOMAIN win_map \ {widget[w].win} |-> win_map[x]]
    BY <1>10 DEF CloseErases
  <2>2. Handled = 0
    BY <1>0, <2>1 DEF Handled, XLocks
  <2>3. widget[w].win \in DOMAIN win_map /\ widget[w].win # 0
    BY <1>0, <2>1 DEF XWindows, Placed, Registered
  <2>4. Promise!Unregister
    BY <2>1, <2>2, <2>3 DEF Promise!Unregister, Handled
  <2> QED BY <2>4 DEF Delivers
<1>11. ASSUME NEW w \in Widgets, CloseDestroys(w)  PROVE Delivers
  BY <1>11, Stutters DEF CloseDestroys, Handled
<1>12. ASSUME NEW w \in Widgets, SetResizable(w)  PROVE Delivers
  BY <1>12, Stutters DEF SetResizable, Handled
<1>13. ASSUME NEW w \in Widgets, ResizeOrMove(w)  PROVE Delivers
  BY <1>13, Stutters DEF ResizeOrMove, Handled
<1>14. ASSUME NEW w \in Widgets, DisplayStarts(w)  PROVE Delivers
  BY <1>14, Stutters DEF DisplayStarts, Handled
<1>15. ASSUME NEW w \in Widgets, DisplayMakes(w)  PROVE Delivers
  BY <1>15, Stutters DEF DisplayMakes, Handled
<1>16. ASSUME NEW w \in Widgets, DisplayPuts(w)  PROVE Delivers
  BY <1>16, Stutters DEF DisplayPuts, Handled
<1>17. CASE UNCHANGED vars
  BY <1>17, Stutters DEF vars, Handled
<1> QED
  BY <1>1, <1>2, <1>3, <1>4, <1>5, <1>6, <1>7, <1>8, <1>9, <1>10, <1>11, <1>12,
     <1>13, <1>14, <1>15, <1>16, <1>17 DEF Next, EventThread, Within, Call
-----------------------------------------------------------------------------
(* DFBWidget, whose callers lock event_mutex around open() and close() *)

\* The types, and those of the library and the event thread.
DTypes == /\ D!TypeOK /\ Len(feeds) = created
          /\ thread \in [pc : {"poll", "read", "handler"},
                         event : [win : 0 .. MaxWindows + 1]]

\* Who holds event_mutex, and for what.
DLocks == /\ mutex = "events" <=> thread.pc = "handler"
          /\ \A w \in Widgets : mutex = w <=> user[w] # "idle"
          /\ thread.pc = "handler" => thread.event.win \in DOMAIN win_map

\* win_map and a widget agree.
DPlaced(w) == /\ window[w] <= created
              /\ user[w] # "idle" => window[w] # 0
              /\ window[w] # 0 /\ user[w] \notin {"add", "release"} =>
                   window[w] \in DOMAIN win_map /\ win_map[window[w]] = w
              /\ user[w] \in {"add", "release"} => window[w] \notin DOMAIN win_map

\* They all do, and no two widgets share a window.
DWindows == /\ \A w \in Widgets : DPlaced(w)
            /\ \A v, w \in Widgets : window[v] = window[w] /\ window[w] # 0 => v = w
            /\ \A win \in DOMAIN win_map : window[win_map[win]] = win

\* The first widget makes the buffer, and the others find it.
DBuffer == /\ buffers \in {0, 1} /\ buffer = buffers /\ buffers <= created
           /\ initFlag <=> buffers = 1
           /\ \A w \in Widgets : /\ user[w] = "create" => ~initFlag
                                 /\ user[w] = "attach" => initFlag
                                 /\ window[w] # 0 /\ user[w] = "idle" =>
                                      initFlag /\ feeds[window[w]] = buffer

DInv == DTypes /\ DLocks /\ DWindows /\ DBuffer

\* The types that the steps below need, the bounds as numbers.
LEMMA DNumbers ==
  ASSUME DInv
  PROVE  /\ MaxWindows \in Nat /\ MaxEvents \in Nat /\ "free" \notin Widgets
         /\ "events" \notin Widgets
         /\ user \in [Widgets -> {"idle", "add", "create", "attach", "release"}]
         /\ window \in [Widgets -> 0 .. MaxWindows + 1] /\ initFlag \in BOOLEAN
         /\ \A win \in DOMAIN win_map : win_map[win] \in Widgets /\ win \in 1 .. MaxWindows + 1
         /\ thread \in [pc : {"poll", "read", "handler"}, event : [win : 0 .. MaxWindows + 1]]
         /\ created \in 0 .. MaxWindows + 1 /\ buffers \in 0 .. MaxWindows + 1
         /\ sent \in 0 .. MaxEvents /\ buffer \in 0 .. MaxWindows + 1
         /\ feeds \in Seq(0 .. MaxWindows + 1) /\ DOMAIN feeds = 1 .. created
         /\ queue \in Seq([win : 1 .. MaxWindows + 1])
         /\ mutex \in {"free", "events"} \cup Widgets
<1>1. feeds \in Seq(0 .. MaxWindows + 1) /\ Len(feeds) = created
  BY DEF DInv, DTypes, D!TypeOK
<1>2. DOMAIN feeds = 1 .. created
  BY <1>1, LenProperties
<1> QED BY <1>1, <1>2, XNumbers DEF DInv, DTypes, D!TypeOK, D!Windows

\* A widget that is open, or in a call, has a window that exists.
LEMMA DHasWindow ==
  ASSUME DInv, NEW w \in Widgets, window[w] # 0
  PROVE  window[w] \in 1 .. created /\ window[w] \in DOMAIN feeds
BY DNumbers DEF DInv, DWindows, DPlaced

\* Every variable has its type in every step.
LEMMA DTypesStep == CallersLock /\ DInv /\ [D!Next]_(D!vars) => DTypes'
<1> SUFFICES ASSUME CallersLock, DInv, [D!Next]_(D!vars)  PROVE DTypes'
  OBVIOUS
<1>0. DTypes /\ D!TypeOK
  BY DEF DInv, DTypes
<1> USE DNumbers, <1>0 DEF D!TypeOK, D!At, D!Windows
<1>1. CASE D!NextEvent
  <2>1. /\ Head(queue) \in [win : 1 .. MaxWindows + 1]
        /\ Tail(queue) \in Seq([win : 1 .. MaxWindows + 1])
    BY <1>1, HeadTailProperties DEF D!NextEvent
  <2>2. Head(queue) \in [win : 0 .. MaxWindows + 1]
    <3>1. [win : 1 .. MaxWindows + 1] \subseteq [win : 0 .. MaxWindows + 1]
      OBVIOUS
    <3> QED BY <2>1, <3>1
  <2>3. thread' \in [pc : {"poll", "read", "handler"}, event : [win : 0 .. MaxWindows + 1]]
    BY <1>1, <2>2 DEF D!NextEvent
  <2> QED BY <1>1, <2>1, <2>3 DEF D!NextEvent, DTypes
<1>2. CASE D!Dispatch
  <2>1. thread' \in [pc : {"poll", "read", "handler"}, event : [win : 0 .. MaxWindows + 1]]
        /\ mutex' \in {"free", "events"}
    <3>1. CASE thread.event.win \in DOMAIN win_map
      BY <1>2, <3>1 DEF D!Dispatch
    <3>2. CASE thread.event.win \notin DOMAIN win_map
      <4>1. [win |-> 0] \in [win : 0 .. MaxWindows + 1]
        OBVIOUS
      <4> QED BY <1>2, <3>2, <4>1 DEF D!Dispatch, D!NoEvent
    <3> QED BY <3>1, <3>2
  <2> QED BY <1>2, <2>1 DEF D!Dispatch, D!library, DTypes
<1>3. CASE D!Handler
  <2>1. thread' \in [pc : {"poll", "read", "handler"}, event : [win : 0 .. MaxWindows + 1]]
    BY <1>3 DEF D!Handler, D!NoEvent
  <2> QED BY <1>3, <2>1 DEF D!Handler, D!library, DTypes
\* An event from a window that feeds a buffer.
<1>a. ASSUME NEW win \in DOMAIN feeds, D!Send(win)
      PROVE  queue' \in Seq([win : 1 .. MaxWindows + 1]) /\ sent' \in 0 .. MaxEvents
  <2>1. [win |-> win] \in [win : 1 .. MaxWindows + 1]
    OBVIOUS
  <2>2. Append(queue, [win |-> win]) \in Seq([win : 1 .. MaxWindows + 1])
    BY <2>1, AppendProperties
  <2>3. sent' = sent + 1 /\ sent < MaxEvents
    BY <1>a DEF D!Send
  <2>4. queue' \in {queue, Append(queue, [win |-> win])}
    BY <1>a DEF D!Send
  <2>5. queue' \in Seq([win : 1 .. MaxWindows + 1])
    BY <2>2, <2>4
  <2>6. sent' \in 0 .. MaxEvents
    BY <2>3
  <2> QED BY <2>5, <2>6
<1>4. CASE D!InputEvent
  BY <1>4, <1>a DEF D!InputEvent, DTypes
<1>5. ASSUME NEW w \in Widgets, D!OpenFails(w)  PROVE DTypes'
  BY <1>5 DEF D!OpenFails, D!library, DTypes
<1>6. ASSUME NEW w \in Widgets, D!OpenCreates(w)  PROVE DTypes'
  <2>1. created' = created + 1 /\ created' \in 0 .. MaxWindows + 1
    BY <1>6 DEF D!OpenCreates
  <2>2. feeds' \in Seq(0 .. MaxWindows + 1) /\ Len(feeds') = created'
    BY <1>6, <2>1, AppendProperties DEF D!OpenCreates, DTypes
  <2> QED BY <1>6, <2>1, <2>2 DEF D!OpenCreates, D!CallerLocks, DTypes
<1>7. ASSUME NEW w \in Widgets, D!OpenAdds(w)  PROVE DTypes'
  <2>1. window[w] \in 1 .. MaxWindows + 1
    BY <1>7 DEF D!OpenAdds, DInv, DWindows, DPlaced
  <2> QED BY <1>7, <2>1 DEF D!OpenAdds, D!library, DTypes
<1>8. ASSUME NEW w \in Widgets, D!OpenCreatesBuffer(w)  PROVE DTypes'
  <2>1. window[w] # 0
    BY <1>8 DEF D!OpenCreatesBuffer, DInv, DWindows, DPlaced
  <2>2. buffers = 0 /\ buffers' = 1 /\ buffer' = 1 /\ initFlag' = TRUE
    BY <1>8 DEF D!OpenCreatesBuffer, DInv, DBuffer
  <2>3. feeds' \in Seq(0 .. MaxWindows + 1) /\ Len(feeds') = created
    BY <1>8, <2>1, <2>2, DHasWindow, ExceptSeq DEF D!OpenCreatesBuffer, DTypes
  <2> QED BY <1>8, <2>2, <2>3 DEF D!OpenCreatesBuffer, D!CallerUnlocks, DTypes
<1>9. ASSUME NEW w \in Widgets, D!OpenAttaches(w)  PROVE DTypes'
  <2>1. window[w] # 0
    BY <1>9 DEF D!OpenAttaches, DInv, DWindows, DPlaced
  <2>2. feeds' \in Seq(0 .. MaxWindows + 1) /\ Len(feeds') = created
    BY <1>9, <2>1, DHasWindow, ExceptSeq DEF D!OpenAttaches, DTypes
  <2> QED BY <1>9, <2>2 DEF D!OpenAttaches, D!CallerUnlocks, DTypes
<1>10. ASSUME NEW w \in Widgets, D!CloseErases(w)  PROVE DTypes'
  BY <1>10 DEF D!CloseErases, D!CallerLocks, D!library, DTypes
<1>11. ASSUME NEW w \in Widgets, D!CloseReleases(w)  PROVE DTypes'
  <2>1. window[w] # 0
    BY <1>11 DEF D!CloseReleases, DInv, DWindows, DPlaced
  <2>2. feeds' \in Seq(0 .. MaxWindows + 1) /\ Len(feeds') = created
    BY <1>11, <2>1, DHasWindow, ExceptSeq DEF D!CloseReleases, DTypes
  <2> QED BY <1>11, <2>2 DEF D!CloseReleases, D!CallerUnlocks, DTypes
<1>12. ASSUME NEW w \in Widgets, D!Request(w)  PROVE DTypes'
  <2>1. window[w] \in DOMAIN feeds
    BY <1>12, DHasWindow DEF D!Request
  <2> QED BY <1>12, <1>a, <2>1 DEF D!Request, DTypes
<1>13. CASE UNCHANGED D!vars
  BY <1>13 DEF D!vars, DTypes
<1> QED
  BY <1>1, <1>2, <1>3, <1>4, <1>5, <1>6, <1>7, <1>8, <1>9, <1>10, <1>11, <1>12, <1>13
  DEF D!Next, D!EventThread, D!Call

\* The mutex is a widget's from the begin of open() or close() to its end.
LEMMA DLocksStep == CallersLock /\ DInv /\ [D!Next]_(D!vars) => DLocks'
<1> SUFFICES ASSUME CallersLock, DInv, [D!Next]_(D!vars)  PROVE DLocks'
  OBVIOUS
<1>0. DLocks
  BY DEF DInv
<1> USE DNumbers, <1>0 DEF DLocks, D!At
<1>1. CASE D!NextEvent
  BY <1>1 DEF D!NextEvent
<1>2. CASE D!Dispatch
  <2>1. CASE thread.event.win \in DOMAIN win_map
    <3>1. /\ thread'.pc = "handler" /\ thread'.event = thread.event
          /\ mutex = "free" /\ mutex' = "events" /\ UNCHANGED <<win_map, user>>
      BY <1>2, <2>1 DEF D!Dispatch
    <3> QED BY <2>1, <3>1
  <2>2. CASE thread.event.win \notin DOMAIN win_map
    BY <1>2, <2>2 DEF D!Dispatch
  <2> QED BY <2>1, <2>2
<1>3. CASE D!Handler
  BY <1>3 DEF D!Handler
<1>4. CASE D!InputEvent
  BY <1>4 DEF D!InputEvent
<1>5. ASSUME NEW w \in Widgets, D!OpenFails(w)  PROVE DLocks'
  BY <1>5 DEF D!OpenFails
<1>6. ASSUME NEW w \in Widgets, D!OpenCreates(w)  PROVE DLocks'
  BY <1>6 DEF D!OpenCreates, D!CallerLocks
<1>7. ASSUME NEW w \in Widgets, D!OpenAdds(w)  PROVE DLocks'
  BY <1>7 DEF D!OpenAdds
<1>8. ASSUME NEW w \in Widgets, D!OpenCreatesBuffer(w)  PROVE DLocks'
  BY <1>8 DEF D!OpenCreatesBuffer, D!CallerUnlocks
<1>9. ASSUME NEW w \in Widgets, D!OpenAttaches(w)  PROVE DLocks'
  BY <1>9 DEF D!OpenAttaches, D!CallerUnlocks
<1>10. ASSUME NEW w \in Widgets, D!CloseErases(w)  PROVE DLocks'
  BY <1>10 DEF D!CloseErases, D!CallerLocks
<1>11. ASSUME NEW w \in Widgets, D!CloseReleases(w)  PROVE DLocks'
  BY <1>11 DEF D!CloseReleases, D!CallerUnlocks
<1>12. ASSUME NEW w \in Widgets, D!Request(w)  PROVE DLocks'
  BY <1>12 DEF D!Request
<1>13. CASE UNCHANGED D!vars
  BY <1>13 DEF D!vars
<1> QED
  BY <1>1, <1>2, <1>3, <1>4, <1>5, <1>6, <1>7, <1>8, <1>9, <1>10, <1>11, <1>12, <1>13
  DEF D!Next, D!EventThread, D!Call

\* A window is in win_map between add() and erase(), for one widget.
LEMMA DWindowsStep == CallersLock /\ DInv /\ [D!Next]_(D!vars) => DWindows'
<1> SUFFICES ASSUME CallersLock, DInv, [D!Next]_(D!vars)  PROVE DWindows'
  OBVIOUS
<1>0. DWindows
  BY DEF DInv
<1>a. ASSUME UNCHANGED <<window, win_map, user, created>>  PROVE DWindows'
  BY <1>0, <1>a DEF DWindows, DPlaced
<1> USE DNumbers, <1>0 DEF D!At
<1>1. CASE D!NextEvent
  BY <1>1, <1>a DEF D!NextEvent
<1>2. CASE D!Dispatch
  BY <1>2, <1>a DEF D!Dispatch, D!library
<1>3. CASE D!Handler
  BY <1>3, <1>a DEF D!Handler, D!library
<1>4. CASE D!InputEvent
  BY <1>4, <1>a DEF D!InputEvent
<1>5. ASSUME NEW w \in Widgets, D!OpenFails(w)  PROVE DWindows'
  <2>1. user' = user
    BY <1>5 DEF D!OpenFails
  <2> QED BY <1>5, <2>1, <1>a DEF D!OpenFails, D!library
<1>6. ASSUME NEW w \in Widgets, D!OpenCreates(w)  PROVE DWindows'
  <2>1. /\ user[w] = "idle" /\ user' = [user EXCEPT ![w] = "add"] /\ window[w] = 0
        /\ window' = [window EXCEPT ![w] = created + 1] /\ created' = created + 1
        /\ UNCHANGED win_map
    BY <1>6 DEF D!OpenCreates
  <2>2. created + 1 \notin DOMAIN win_map
    BY DEF DWindows, DPlaced
  <2>3. \A win \in DOMAIN win_map : win_map[win] # w
    BY <2>1 DEF DWindows
  <2>4. \A v \in Widgets : DPlaced(v)'
    BY <2>1, <2>2 DEF DWindows, DPlaced
  <2>5. \A v, x \in Widgets : window'[v] = window'[x] /\ window'[x] # 0 => v = x
    BY <2>1 DEF DWindows, DPlaced
  <2>6. \A win \in DOMAIN win_map' : window'[win_map'[win]] = win
    BY <2>1, <2>3 DEF DWindows
  <2> QED BY <2>4, <2>5, <2>6 DEF DWindows
<1>7. ASSUME NEW w \in Widgets, D!OpenAdds(w)  PROVE DWindows'
  <2>1. /\ user[w] = "add" /\ user'[w] \in {"attach", "create"}
        /\ \A v \in Widgets \ {w} : user'[v] = user[v]
        /\ UNCHANGED <<window, created>>
        /\ DOMAIN win_map' = DOMAIN win_map \cup {window[w]}
        /\ \A win \in DOMAIN win_map' :
             win_map'[win] = IF win = window[w] THEN w ELSE win_map[win]
    BY <1>7 DEF D!OpenAdds, D!library
  <2>2. window[w] # 0 /\ \A v \in Widgets \ {w} : window[v] # window[w]
    BY <2>1 DEF DWindows, DPlaced
  <2>3. DPlaced(w)'
    BY <2>1, <2>2 DEF DWindows, DPlaced
  <2>4. \A v \in Widgets \ {w} : DPlaced(v)'
    BY <2>1, <2>2 DEF DWindows, DPlaced
  <2> QED BY <2>1, <2>3, <2>4 DEF DWindows
<1>8. ASSUME NEW w \in Widgets, D!OpenCreatesBuffer(w)  PROVE DWindows'
  BY <1>8, SMTT(30) DEF D!OpenCreatesBuffer, DWindows, DPlaced
<1>9. ASSUME NEW w \in Widgets, D!OpenAttaches(w)  PROVE DWindows'
  BY <1>9, SMTT(30) DEF D!OpenAttaches, DWindows, DPlaced
<1>10. ASSUME NEW w \in Widgets, D!CloseErases(w)  PROVE DWindows'
  <2>1. /\ user[w] = "idle" /\ user' = [user EXCEPT ![w] = "release"] /\ window[w] # 0
        /\ UNCHANGED <<window, created>>
        /\ DOMAIN win_map' = DOMAIN win_map \ {window[w]}
        /\ \A win \in DOMAIN win_map' : win_map'[win] = win_map[win]
    BY <1>10 DEF D!CloseErases, D!library
  <2>2. \A v \in Widgets \ {w} : window[v] # window[w]
    BY <2>1 DEF DWindows
  <2>3. DPlaced(w)'
    BY <2>1 DEF DWindows, DPlaced
  <2>4. \A v \in Widgets \ {w} : DPlaced(v)'
    BY <2>1, <2>2 DEF DWindows, DPlaced
  <2> QED BY <2>1, <2>3, <2>4 DEF DWindows
<1>11. ASSUME NEW w \in Widgets, D!CloseReleases(w)  PROVE DWindows'
  <2>1. /\ user[w] = "release" /\ user' = [user EXCEPT ![w] = "idle"]
        /\ window' = [window EXCEPT ![w] = 0] /\ UNCHANGED <<win_map, created>>
    BY <1>11 DEF D!CloseReleases
  <2>2. \A win \in DOMAIN win_map : win_map[win] # w
    BY <2>1 DEF DWindows, DPlaced
  <2>3. \A v \in Widgets : DPlaced(v)'
    BY <2>1 DEF DWindows, DPlaced
  <2>4. \A win \in DOMAIN win_map' : window'[win_map'[win]] = win
    BY <2>1, <2>2 DEF DWindows
  <2>5. \A v, x \in Widgets : window'[v] = window'[x] /\ window'[x] # 0 => v = x
    BY <2>1 DEF DWindows
  <2> QED BY <2>3, <2>4, <2>5 DEF DWindows
<1>12. ASSUME NEW w \in Widgets, D!Request(w)  PROVE DWindows'
  <2>1. user' = user
    BY <1>12 DEF D!Request
  <2> QED BY <1>12, <2>1, <1>a DEF D!Request
<1>13. CASE UNCHANGED D!vars
  BY <1>13, <1>a DEF D!vars
<1> QED
  BY <1>1, <1>2, <1>3, <1>4, <1>5, <1>6, <1>7, <1>8, <1>9, <1>10, <1>11, <1>12, <1>13
  DEF D!Next, D!EventThread, D!Call

\* One widget at a time asks initFlag and makes the buffer.
LEMMA DBufferStep == CallersLock /\ DInv /\ [D!Next]_(D!vars) => DBuffer'
<1> SUFFICES ASSUME CallersLock, DInv, [D!Next]_(D!vars)  PROVE DBuffer'
  OBVIOUS
<1>0. DBuffer /\ DWindows /\ DLocks
  BY DEF DInv
<1>a. ASSUME UNCHANGED <<window, initFlag, user, created, buffer, buffers, feeds>>
      PROVE  DBuffer'
  BY <1>0, <1>a DEF DBuffer
<1> USE DNumbers, <1>0 DEF D!At
<1>1. CASE D!NextEvent
  BY <1>1, <1>a DEF D!NextEvent
<1>2. CASE D!Dispatch
  BY <1>2, <1>a DEF D!Dispatch, D!library
<1>3. CASE D!Handler
  BY <1>3, <1>a DEF D!Handler, D!library
<1>4. CASE D!InputEvent
  BY <1>4, <1>a DEF D!InputEvent
<1>5. ASSUME NEW w \in Widgets, D!OpenFails(w)  PROVE DBuffer'
  <2>1. user' = user
    BY <1>5 DEF D!OpenFails
  <2> QED BY <1>5, <2>1, <1>a DEF D!OpenFails, D!library
<1>6. ASSUME NEW w \in Widgets, D!OpenCreates(w)  PROVE DBuffer'
  <2>1. /\ user'[w] = "add" /\ \A v \in Widgets \ {w} : /\ user'[v] = user[v]
                                                        /\ window'[v] = window[v]
        /\ created' = created + 1 /\ UNCHANGED <<initFlag, buffer, buffers>>
    BY <1>6 DEF D!OpenCreates
  <2>2. \A win \in 1 .. created : feeds'[win] = feeds[win]
    BY <1>6, AppendProperties, LenProperties DEF D!OpenCreates
  <2>3. \A v \in Widgets : window[v] # 0 => window[v] \in 1 .. created
    BY DHasWindow
  <2> QED BY <2>1, <2>2, <2>3 DEF DBuffer
<1>7. ASSUME NEW w \in Widgets, D!OpenAdds(w)  PROVE DBuffer'
  BY <1>7 DEF D!OpenAdds, D!library, DBuffer
<1>8. ASSUME NEW w \in Widgets, D!OpenCreatesBuffer(w)  PROVE DBuffer'
  <2>1. /\ user[w] = "create" /\ user' = [user EXCEPT ![w] = "idle"]
        /\ buffers' = buffers + 1 /\ buffer' = buffers' /\ initFlag' = TRUE
        /\ feeds' = [feeds EXCEPT ![window[w]] = buffers']
        /\ UNCHANGED <<window, created>>
    BY <1>8 DEF D!OpenCreatesBuffer
  <2>2. buffers = 0 /\ ~initFlag
    BY <2>1 DEF DBuffer
  <2>3. window[w] \in 1 .. created /\ feeds'[window[w]] = buffer'
    BY <2>1, DHasWindow DEF DWindows, DPlaced
  <2>4. \A v \in Widgets \ {w} : user[v] = "idle" /\ window[v] = 0
    BY <2>1, <2>2 DEF DLocks, DBuffer
  <2> QED BY <2>1, <2>2, <2>3, <2>4 DEF DBuffer
<1>9. ASSUME NEW w \in Widgets, D!OpenAttaches(w)  PROVE DBuffer'
  <2>1. /\ user[w] = "attach" /\ user' = [user EXCEPT ![w] = "idle"]
        /\ feeds' = [feeds EXCEPT ![window[w]] = buffer]
        /\ UNCHANGED <<window, created, initFlag, buffer, buffers>>
    BY <1>9 DEF D!OpenAttaches
  <2>2. window[w] \in DOMAIN feeds
    BY <2>1, DHasWindow DEF DWindows, DPlaced
  <2>3. \A v \in Widgets \ {w} : window[v] # window[w]
    BY <2>1 DEF DWindows, DPlaced
  <2>4. feeds'[window[w]] = buffer /\ \A v \in Widgets \ {w} :
          window[v] \in DOMAIN feeds => feeds'[window[v]] = feeds[window[v]]
    BY <2>1, <2>2, <2>3
  <2>5. \A v \in Widgets : window[v] # 0 => window[v] \in DOMAIN feeds
    BY DHasWindow
  <2> QED BY <2>1, <2>4, <2>5 DEF DBuffer
<1>10. ASSUME NEW w \in Widgets, D!CloseErases(w)  PROVE DBuffer'
  BY <1>10 DEF D!CloseErases, D!library, DBuffer
<1>11. ASSUME NEW w \in Widgets, D!CloseReleases(w)  PROVE DBuffer'
  <2>1. /\ user[w] = "release" /\ user' = [user EXCEPT ![w] = "idle"]
        /\ feeds' = [feeds EXCEPT ![window[w]] = 0]
        /\ window' = [window EXCEPT ![w] = 0]
        /\ UNCHANGED <<created, initFlag, buffer, buffers>>
    BY <1>11 DEF D!CloseReleases
  <2>2. \A v \in Widgets \ {w} : window[v] # window[w]
    BY <2>1 DEF DWindows, DPlaced
  <2>3. \A v \in Widgets \ {w} :
          window[v] \in DOMAIN feeds => feeds'[window[v]] = feeds[window[v]]
    BY <2>1, <2>2
  <2>4. \A v \in Widgets : window[v] # 0 => window[v] \in DOMAIN feeds
    BY DHasWindow
  <2> QED BY <2>1, <2>3, <2>4 DEF DBuffer
<1>12. ASSUME NEW w \in Widgets, D!Request(w)  PROVE DBuffer'
  <2>1. user' = user
    BY <1>12 DEF D!Request
  <2> QED BY <1>12, <2>1, <1>a DEF D!Request
<1>13. CASE UNCHANGED D!vars
  BY <1>13, <1>a DEF D!vars
<1> QED
  BY <1>1, <1>2, <1>3, <1>4, <1>5, <1>6, <1>7, <1>8, <1>9, <1>10, <1>11, <1>12, <1>13
  DEF D!Next, D!EventThread, D!Call

\* Nothing is open and there is no buffer.
LEMMA DInit == D!Init => DInv
<1> SUFFICES ASSUME D!Init  PROVE DInv
  OBVIOUS
<1>0. /\ window = [w \in Widgets |-> 0] /\ user = [w \in Widgets |-> "idle"]
      /\ win_map = << >> /\ initFlag = FALSE /\ buffer = 0 /\ mutex = "free"
      /\ thread = [pc |-> "poll", event |-> [win |-> 0]]
      /\ feeds = << >> /\ queue = << >> /\ created = 0 /\ buffers = 0 /\ sent = 0
  BY DEF D!Init, D!NoEvent
<1>1. DTypes
  <2>1. /\ << >> \in Seq(0 .. MaxWindows + 1) /\ << >> \in Seq([win : 1 .. MaxWindows + 1])
        /\ Len(<< >>) = 0 /\ DOMAIN << >> = {}
    OBVIOUS
  <2>2. thread \in [pc : {"poll", "read", "handler"}, event : [win : 0 .. MaxWindows + 1]]
    <3>1. [win |-> 0] \in [win : 0 .. MaxWindows + 1]
      BY XNumbers
    <3> QED BY <1>0, <3>1
  <2>3. D!TypeOK
    <3>1. 0 \in 0 .. MaxWindows + 1 /\ 0 \in 0 .. MaxEvents
      BY XNumbers
    <3>2. window \in [Widgets -> 0 .. MaxWindows + 1]
      BY <1>0, <3>1
    <3>3. user \in [Widgets -> {"idle", "add", "create", "attach", "release"}]
      BY <1>0
    <3> QED BY <1>0, <2>1, <3>1, <3>2, <3>3 DEF D!TypeOK, D!Windows
  <2> QED BY <1>0, <2>1, <2>2, <2>3 DEF DTypes
<1>2. DLocks
  BY <1>0, XNumbers DEF DLocks
<1>3. DWindows
  BY <1>0 DEF DWindows, DPlaced
<1>4. DBuffer
  BY <1>0 DEF DBuffer
<1> QED BY <1>1, <1>2, <1>3, <1>4 DEF DInv

\* All parts of the invariant together.
LEMMA DStep == CallersLock /\ DInv /\ [D!Next]_(D!vars) => DInv'
BY DTypesStep, DLocksStep, DWindowsStep, DBufferStep DEF DInv

\* add() and erase() under the callers' lock, and the handlers between them.
LEMMA DDelivers == CallersLock /\ DInv /\ [D!Next]_(D!vars) => Delivers
<1> SUFFICES ASSUME CallersLock, DInv, [D!Next]_(D!vars)  PROVE Delivers
  OBVIOUS
<1>0. DWindows /\ DLocks
  BY DEF DInv
<1> USE DNumbers, <1>0 DEF D!At
<1>1. CASE D!NextEvent
  BY <1>1, Stutters DEF D!NextEvent, Handled
<1>2. CASE D!Dispatch
  <2>1. CASE thread.event.win \in DOMAIN win_map
    <3>1. Handled = 0 /\ Handled' = thread.event.win /\ UNCHANGED win_map
      BY <1>2, <2>1 DEF D!Dispatch, Handled
    <3>2. Promise!Begin
      BY <2>1, <3>1 DEF Promise!Begin, Handled
    <3> QED BY <3>2 DEF Delivers
  <2>2. CASE thread.event.win \notin DOMAIN win_map
    BY <1>2, <2>2, Stutters DEF D!Dispatch, Handled
  <2> QED BY <2>1, <2>2
<1>3. CASE D!Handler
  <2>1. Handled # 0 /\ Handled' = 0 /\ UNCHANGED win_map
    BY <1>3 DEF D!Handler, Handled, DLocks
  <2>2. Promise!End
    BY <2>1 DEF Promise!End, Handled
  <2> QED BY <2>2 DEF Delivers
<1>4. CASE D!InputEvent
  BY <1>4, Stutters DEF D!InputEvent, Handled
<1>5. ASSUME NEW w \in Widgets, D!OpenFails(w)  PROVE Delivers
  BY <1>5, Stutters DEF D!OpenFails, Handled
<1>6. ASSUME NEW w \in Widgets, D!OpenCreates(w)  PROVE Delivers
  BY <1>6, Stutters DEF D!OpenCreates, Handled
<1>7. ASSUME NEW w \in Widgets, D!OpenAdds(w)  PROVE Delivers
  <2>1. /\ user[w] = "add" /\ UNCHANGED thread
        /\ win_map' = [x \in DOMAIN win_map \cup {window[w]} |->
                         IF x = window[w] THEN w ELSE win_map[x]]
    BY <1>7 DEF D!OpenAdds
  <2>2. window[w] \in 1 .. MaxWindows + 1 /\ window[w] \notin DOMAIN win_map
    BY <2>1 DEF DWindows, DPlaced
  <2>3. \A other \in DOMAIN win_map : win_map[other] # w
    BY <2>2 DEF DWindows
  <2>4. Promise!Register
    BY <2>1, <2>2, <2>3 DEF Promise!Register
  <2> QED BY <2>4 DEF Delivers
<1>8. ASSUME NEW w \in Widgets, D!OpenCreatesBuffer(w)  PROVE Delivers
  BY <1>8, Stutters DEF D!OpenCreatesBuffer, Handled
<1>9. ASSUME NEW w \in Widgets, D!OpenAttaches(w)  PROVE Delivers
  BY <1>9, Stutters DEF D!OpenAttaches, Handled
<1>10. ASSUME NEW w \in Widgets, D!CloseErases(w)  PROVE Delivers
  <2>1. /\ user[w] = "idle" /\ window[w] # 0 /\ mutex = "free" /\ UNCHANGED thread
        /\ win_map' = [x \in DOMAIN win_map \ {window[w]} |-> win_map[x]]
    BY <1>10 DEF D!CloseErases, D!CallerLocks
  <2>2. Handled = 0
    BY <2>1 DEF Handled, DLocks
  <2>3. window[w] \in DOMAIN win_map
    BY <2>1 DEF DWindows, DPlaced
  <2>4. Promise!Unregister
    BY <2>1, <2>2, <2>3 DEF Promise!Unregister, Handled
  <2> QED BY <2>4 DEF Delivers
<1>11. ASSUME NEW w \in Widgets, D!CloseReleases(w)  PROVE Delivers
  BY <1>11, Stutters DEF D!CloseReleases, Handled
<1>12. ASSUME NEW w \in Widgets, D!Request(w)  PROVE Delivers
  BY <1>12, Stutters DEF D!Request, Handled
<1>13. CASE UNCHANGED D!vars
  BY <1>13, Stutters DEF D!vars, Handled
<1> QED
  BY <1>1, <1>2, <1>3, <1>4, <1>5, <1>6, <1>7, <1>8, <1>9, <1>10, <1>11, <1>12, <1>13
  DEF D!Next, D!EventThread, D!Call
-----------------------------------------------------------------------------
(* A program with one toolkit or the other *)

WInv == /\ toolkit \in {"x11", "dfb"}
        /\ toolkit = "x11" => XInv
        /\ toolkit = "dfb" /\ CallersLock => DInv

\* A step of the program is one of its toolkit.
LEMMA ToolkitStep ==
  ASSUME WInv, [MCNext]_<<toolkit, vars, dfbOnly>>
  PROVE  /\ UNCHANGED toolkit
         /\ toolkit = "x11" => [Next]_vars
         /\ toolkit = "dfb" => [D!Next]_(D!vars)
<1>1. CASE MCNext
  BY <1>1 DEF MCNext
<1>2. CASE UNCHANGED <<toolkit, vars, dfbOnly>>
  BY <1>2 DEF vars, D!vars, dfbOnly
<1> QED BY <1>1, <1>2

\* The invariant of the toolkit holds at first ...
LEMMA WInit == MCInit => WInv
BY XInit, DInit DEF MCInit, WInv

\* ... and is kept by every step.
LEMMA WStep == WInv /\ [MCNext]_<<toolkit, vars, dfbOnly>> => WInv'
BY ToolkitStep, XStep, DStep DEF WInv

\* Whatever the widgets, the window manager and the event thread do, a widget whose events
\* are handled agrees with the server (XWidget.ipp:100-119, 196-253).
THEOREM WidgetsFollowServer == MCSpec => []WidgetFollows
<1>1. WInv => WidgetFollows
  BY XSafe DEF WInv, WidgetFollows
<1> QED BY <1>1, WInit, WStep, PTL DEF MCSpec

\* While callers hold lock() around open() and close(), two first widgets do not make
\* a buffer each, and every open window feeds the one that is read
\* (DFBEventThread.ipp:41-46).
THEOREM OneBufferIfLocked == ASSUME CallersLock  PROVE MCSpec => []BufferIsShared
<1>1. WInv => BufferIsShared
  <2>1. DInv => D!TypeOK /\ D!OneBuffer
    BY DEF DInv, DTypes, DBuffer, D!OneBuffer
  <2> QED BY <2>1 DEF WInv, BufferIsShared
<1> QED BY <1>1, WInit, WStep, PTL DEF MCSpec

\* An XWidget is given what EventDelivery promises: whatever is opened and closed
\* meanwhile, a handler runs for a registered window and ends before its widget is torn
\* down, as add() and erase() run under event_mutex (XEventThread.ipp:71-76,
\* XWidget.ipp:108-134).
THEOREM XWidgetsDeliver == MCSpec => (toolkit = "x11" => BothImplementDelivery)
<1>1. MCInit => Promise!Init
  BY DEF MCInit, Init, D!Init, Promise!Init
<1>2. WInv /\ toolkit = "x11" /\ [MCNext]_<<toolkit, vars, dfbOnly>> => Delivers
  BY ToolkitStep, XDelivers DEF WInv
<1>3. WInv /\ toolkit = "x11" /\ [MCNext]_<<toolkit, vars, dfbOnly>> => (toolkit = "x11")'
  BY ToolkitStep
<1> QED
  BY <1>1, <1>2, <1>3, WInit, WStep, PTL
  DEF MCSpec, BothImplementDelivery, Promise!Spec, Delivers, Handled

\* A DFBWidget is given the same by callers that hold lock() around open() and close()
\* (DFBEventThread.ipp:38-51, 73-126).
THEOREM BothDeliverIfLocked == ASSUME CallersLock  PROVE MCSpec => BothImplementDelivery
<1>1. MCInit => Promise!Init
  BY DEF MCInit, Init, D!Init, Promise!Init
<1>2. WInv /\ [MCNext]_<<toolkit, vars, dfbOnly>> => Delivers
  BY ToolkitStep, XDelivers, DDelivers DEF WInv
<1> QED
  BY <1>1, <1>2, WInit, WStep, PTL
  DEF MCSpec, BothImplementDelivery, Promise!Spec, Delivers, Handled
=============================================================================
