------------------------------ MODULE XWidget ------------------------------
(***************************************************************************)
(* Widgets of the X window system (widget/x11): XEventThread takes events   *)
(* from the connection and calls the widgets' handlers under event_mutex,   *)
(* while each widget is opened, resized, painted and closed by a thread of  *)
(* its own.  The X server and the window manager are external.             *)
(***************************************************************************)
EXTENDS Integers, Sequences, FiniteSets

CONSTANTS
  Widgets,        \* the XWidget objects, each with one using thread
  Sizes,          \* width * height
  Positions,
  MaxWindows,     \* bound on windows ever created: 1 .. MaxWindows
  MaxEvents       \* bound on events the server ever sends

ASSUME XWidgetAssumption ==
  /\ IsFiniteSet(Widgets) /\ Widgets \cap {"free", "events"} = {}
  /\ Sizes \subseteq Nat \ {0} /\ 0 \in Positions
  /\ MaxWindows \in Nat /\ MaxEvents \in Nat

VARIABLES
  widget,     \* the fields of each XWidget
  user,       \* the call each widget's thread is in
  win_map,    \* XEventThread::win_map
  mutex,      \* who holds event_mutex while others run: "events" or "free"
  thread,     \* XEventThread::eachLoop
  server,     \* windows that exist, with their geometry
  queue,      \* events sent and not yet read
  created, sent

vars == <<widget, user, win_map, mutex, thread, server, queue, created, sent>>

Windows == 1 .. MaxWindows
Geometry == [size : Sizes, pos : Positions]
Events == [win : Windows, type : {"configure", "other"}, geom : Geometry]
NoEvent == [win |-> 0]

\* framebuf is the size of the pixel buffer, 0 for NULL; made is that of a buffer
\* which display() is making.
Closed == [open_flag |-> FALSE, resizable_flag |-> TRUE, win |-> 0,
           size |-> 0, pos |-> 0, framebuf |-> 0, made |-> 0]

Init ==
  /\ widget = [w \in Widgets |-> Closed]
  /\ user = [w \in Widgets |-> "idle"]
  /\ win_map = << >> /\ mutex = "free"
  /\ thread = [pc |-> "poll", event |-> NoEvent]
  /\ server = << >> /\ queue = << >> /\ created = 0 /\ sent = 0

(***************************************************************************)
(* The X server: a window that is mapped belongs to the window manager,     *)
(* which resizes it within the hints the widget set.                       *)
(***************************************************************************)
Send(win, type, geom) ==
  /\ sent < MaxEvents /\ sent' = sent + 1
  /\ queue' = Append(queue, [win |-> win, type |-> type, geom |-> geom])

Configure(win, geom) ==
  /\ geom # server[win].geom
  /\ server' = [server EXCEPT ![win].geom = geom]
  /\ Send(win, "configure", geom)

WindowManager ==
  \E win \in DOMAIN server :
    /\ server[win].mapped
    /\ \/ \E g \in Geometry :
            /\ ~server[win].resizable => g.size = server[win].geom.size
            /\ Configure(win, g)
       \/ Send(win, "other", server[win].geom) /\ UNCHANGED server
    /\ UNCHANGED <<widget, user, win_map, mutex, thread, created>>

(***************************************************************************)
(* The event thread.  One event is read outside the lock and delivered      *)
(* under it.  A resize is in two steps that display() may see, as it takes   *)
(* no lock: the new size, and the new buffer in place of the old one.       *)
(***************************************************************************)
Goto(pc) == thread' = [thread EXCEPT !.pc = pc]
Target == win_map[thread.event.win]

NextEvent ==
  /\ thread.pc = "poll" /\ queue # << >>
  /\ thread' = [pc |-> "read", event |-> Head(queue)] /\ queue' = Tail(queue)
  /\ UNCHANGED <<widget, user, win_map, mutex, server, created, sent>>

Dispatch ==
  /\ thread.pc = "read" /\ mutex = "free"
  /\ LET e == thread.event
         known == e.win \in DOMAIN win_map
         resized == known /\ e.type = "configure" /\ widget[Target].size # e.geom.size
     IN /\ mutex' = IF known THEN "events" ELSE "free"
        /\ Goto(IF ~known THEN "poll" ELSE IF resized THEN "resize" ELSE "handler")
        /\ widget' = IF known /\ e.type = "configure"
                     THEN [widget EXCEPT ![Target].size = e.geom.size,
                                         ![Target].pos = IF resized THEN @ ELSE e.geom.pos]
                     ELSE widget
  /\ UNCHANGED <<user, win_map, server, queue, created, sent>>

\* Mutant: of one event only the new size is applied.
MutResizeBuffer ==
  /\ thread.pc = "resize" /\ Goto("handler")
  /\ widget' = [widget EXCEPT ![Target].framebuf = IF @ = 0 THEN 0 ELSE widget[Target].size]
  /\ UNCHANGED <<user, win_map, mutex, server, queue, created, sent>>

ResizeBuffer ==
  /\ thread.pc = "resize" /\ Goto("handler")
  /\ widget' = [widget EXCEPT ![Target].framebuf = IF @ = 0 THEN 0 ELSE widget[Target].size,
                              ![Target].pos = thread.event.geom.pos]
  /\ UNCHANGED <<user, win_map, mutex, server, queue, created, sent>>

\* A handler of a derived class may resize its own widget, never lock.
Handler ==
  /\ thread.pc = "handler"
  /\ thread' = [pc |-> "poll", event |-> NoEvent] /\ mutex' = "free"
  /\ \/ UNCHANGED <<server, queue, sent>>
     \/ \E s \in Sizes :
          /\ widget[Target].open_flag
          /\ Configure(widget[Target].win, [server[widget[Target].win].geom EXCEPT !.size = s])
  /\ UNCHANGED <<widget, user, win_map, created>>

EventThread == NextEvent \/ Dispatch \/ ResizeBuffer \/ Handler

(***************************************************************************)
(* Calls of a widget's own thread.                                         *)
(***************************************************************************)
At(w, from, to) == user[w] = from /\ user' = [user EXCEPT ![w] = to]

OpenCreates(w) ==
  \E s \in Sizes :
    /\ At(w, "idle", "add") /\ ~widget[w].open_flag /\ created < MaxWindows
    /\ created' = created + 1
    /\ widget' = [widget EXCEPT ![w].size = s, ![w].pos = 0, ![w].win = created']
    /\ server' = Append(server, [geom |-> [size |-> s, pos |-> 0], mapped |-> FALSE,
                                 resizable |-> widget[w].resizable_flag])
    /\ UNCHANGED <<win_map, mutex, thread, queue, sent>>

OpenAdds(w) ==
  /\ At(w, "add", "map") /\ mutex = "free"
  /\ win_map' = [win \in DOMAIN win_map \cup {widget[w].win} |->
                   IF win = widget[w].win THEN w ELSE win_map[win]]
  /\ UNCHANGED <<widget, mutex, thread, server, queue, created, sent>>

OpenMaps(w) ==
  /\ At(w, "map", "sync")
  /\ server' = [server EXCEPT ![widget[w].win].mapped = TRUE]
  /\ UNCHANGED <<widget, win_map, mutex, thread, queue, created, sent>>

OpenReturns(w) ==
  /\ At(w, "sync", "idle") /\ widget' = [widget EXCEPT ![w].open_flag = TRUE]
  /\ UNCHANGED <<win_map, mutex, thread, server, queue, created, sent>>

\* Mutant: erase() without event_mutex.
MutCloseErases(w) ==
  /\ At(w, "idle", "destroy") /\ widget[w].open_flag
  /\ win_map' = [win \in DOMAIN win_map \ {widget[w].win} |-> win_map[win]]
  /\ UNCHANGED <<widget, mutex, thread, server, queue, created, sent>>

CloseErases(w) ==
  /\ At(w, "idle", "destroy") /\ widget[w].open_flag /\ mutex = "free"
  /\ win_map' = [win \in DOMAIN win_map \ {widget[w].win} |-> win_map[win]]
  /\ UNCHANGED <<widget, mutex, thread, server, queue, created, sent>>

CloseDestroys(w) ==
  /\ At(w, "destroy", "idle")
  /\ widget' = [widget EXCEPT ![w].framebuf = 0, ![w].open_flag = FALSE]
  /\ server' = [server EXCEPT ![widget[w].win].mapped = FALSE]
  /\ UNCHANGED <<win_map, mutex, thread, queue, created, sent>>

SetResizable(w) ==
  /\ At(w, "idle", "idle")
  /\ widget' = [widget EXCEPT ![w].resizable_flag = ~@]
  /\ server' = IF widget[w].open_flag
               THEN [server EXCEPT ![widget[w].win].resizable = widget'[w].resizable_flag]
               ELSE server
  /\ UNCHANGED <<win_map, mutex, thread, queue, created, sent>>

ResizeOrMove(w) ==
  /\ At(w, "idle", "idle") /\ widget[w].open_flag
  /\ \E g \in Geometry :
       /\ g.size = server[widget[w].win].geom.size \/ g.pos = server[widget[w].win].geom.pos
       /\ Configure(widget[w].win, g)
  /\ UNCHANGED <<widget, win_map, mutex, thread, created>>

\* display() takes no lock.  The first one finds no buffer and makes one for the
\* size the widget has then ...
DisplayStarts(w) ==
  /\ At(w, "idle", IF widget[w].framebuf = 0 THEN "make" ELSE "copy") /\ widget[w].open_flag
  /\ widget' = [widget EXCEPT ![w].made = IF widget[w].framebuf = 0 THEN widget[w].size ELSE 0]
  /\ UNCHANGED <<win_map, mutex, thread, server, queue, created, sent>>

\* ... which it stores when the widget may have another already.
DisplayMakes(w) ==
  /\ At(w, "make", "copy")
  /\ widget' = [widget EXCEPT ![w].framebuf = widget[w].made, ![w].made = 0]
  /\ UNCHANGED <<win_map, mutex, thread, server, queue, created, sent>>

\* The copy of size pixels and XPutImage end.
DisplayPuts(w) ==
  /\ At(w, "copy", "idle")
  /\ UNCHANGED <<widget, win_map, mutex, thread, server, queue, created, sent>>

Within(w) == \/ OpenAdds(w) \/ OpenMaps(w) \/ OpenReturns(w)
             \/ CloseDestroys(w) \/ DisplayMakes(w) \/ DisplayPuts(w)
Call(w) == \/ OpenCreates(w) \/ CloseErases(w) \/ SetResizable(w)
           \/ ResizeOrMove(w) \/ DisplayStarts(w)

Next == EventThread \/ WindowManager \/ \E w \in Widgets : Within(w) \/ Call(w)
Spec == Init /\ [][Next]_vars
-----------------------------------------------------------------------------
WidgetRecords == [open_flag : BOOLEAN, resizable_flag : BOOLEAN, win : 0 .. MaxWindows,
                  size : Sizes \cup {0}, pos : Positions, framebuf : Sizes \cup {0},
                  made : Sizes \cup {0}]

TypeOK ==
  /\ widget \in [Widgets -> WidgetRecords]
  /\ user \in [Widgets -> {"idle", "add", "map", "sync", "destroy", "make", "copy"}]
  /\ DOMAIN win_map \subseteq Windows /\ \A win \in DOMAIN win_map : win_map[win] \in Widgets
  /\ mutex \in {"free", "events"}
  /\ thread.pc \in {"poll", "read", "resize", "handler"} /\ thread.event \in Events \cup {NoEvent}
  /\ queue \in Seq(Events) /\ created \in 0 .. MaxWindows /\ sent \in 0 .. MaxEvents

\* add() and erase() under event_mutex give the widgets what EventDelivery
\* promises: no handler runs on a widget that is being torn down
\* (XEventThread.ipp:71-76, XWidget.ipp:108-134).
Delivery == INSTANCE EventDelivery
  WITH registered <- win_map,
       handled <- IF thread.pc \in {"resize", "handler"} THEN thread.event.win ELSE 0
ImplementsDelivery == Delivery!Spec

\* While display() copies, the buffer has the size that the copy and XPutImage use,
\* as callers that display from a thread of their own rely on
\* (XWidget.ipp:196-253, widget/x11/test/xwidget_test.cpp:75-108).
FramebufferFits ==
  \A w \in Widgets : user[w] = "copy" => widget[w].framebuf = widget[w].size

\* Whoever resizes or moves a window, its widget agrees with the server once the
\* events of that window are handled: none is lost between open() and the event
\* thread (XWidget.ipp:100-119), and one event may both resize and move.
GeometryFollows ==
  \A w \in Widgets :
    LET win == widget[w].win
        pending == \/ thread.pc # "poll" /\ thread.event.win = win
                   \/ \E i \in DOMAIN queue : queue[i].win = win
    IN win \in DOMAIN win_map /\ ~pending =>
         server[win].geom = [size |-> widget[w].size, pos |-> widget[w].pos]
=============================================================================
