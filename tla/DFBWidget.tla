----------------------------- MODULE DFBWidget -----------------------------
(***************************************************************************)
(* Widgets over DirectFB (widget/directfb).  The structure of XWidget, but   *)
(* DFBEventThread::add() and erase() take no lock: event_mutex is held only *)
(* around a handler, and it is left to the callers of open() and close() to *)
(* lock it.  The DirectFB library is external.                             *)
(***************************************************************************)
EXTENDS Integers, Sequences

CONSTANTS
  Widgets,       \* the DFBWidget objects, each with one using thread
  MaxWindows,    \* bound on windows ever created: 1 .. MaxWindows
  MaxEvents,     \* bound on events ever sent
  CallersLock    \* do callers hold lock() around open() and close()?

VARIABLES
  window,     \* DFBWidget::window, 0 for NULL
  user,       \* the call each widget's thread is in
  win_map,    \* DFBEventThread::win_map
  initFlag,   \* DFBEventThread::initFlag
  buffer,     \* the event buffer the thread reads, 0 for NULL
  feeds,      \* the buffer each window sends its events to, 0 for none
  mutex, thread, queue, created, buffers, sent

vars == <<window, user, win_map, initFlag, buffer, feeds, mutex, thread, queue,
          created, buffers, sent>>
library == <<feeds, queue, created, buffers, sent>>

Windows == 1 .. MaxWindows
NoEvent == [win |-> 0]

Init ==
  /\ window = [w \in Widgets |-> 0] /\ user = [w \in Widgets |-> "idle"]
  /\ win_map = << >> /\ initFlag = FALSE /\ buffer = 0 /\ mutex = "free"
  /\ thread = [pc |-> "poll", event |-> NoEvent]
  /\ feeds = << >> /\ queue = << >> /\ created = 0 /\ buffers = 0 /\ sent = 0

(***************************************************************************)
(* DirectFB: a window that feeds a buffer puts its events there.  queue     *)
(* holds those of the buffer the thread reads; others are never read.       *)
(***************************************************************************)
Send(win) ==
  /\ sent < MaxEvents /\ sent' = sent + 1 /\ feeds[win] # 0
  /\ queue' = IF feeds[win] = buffer THEN Append(queue, [win |-> win]) ELSE queue

InputEvent ==
  /\ \E win \in DOMAIN feeds : Send(win)
  /\ UNCHANGED <<window, user, win_map, initFlag, buffer, feeds, mutex, thread,
                 created, buffers>>
-----------------------------------------------------------------------------
(* The event thread: eachLoop() does nothing before there is a buffer. *)

NextEvent ==
  /\ thread.pc = "poll" /\ buffer # 0 /\ queue # << >>
  /\ thread' = [pc |-> "read", event |-> Head(queue)] /\ queue' = Tail(queue)
  /\ UNCHANGED <<window, user, win_map, initFlag, buffer, feeds, mutex,
                 created, buffers, sent>>

Dispatch ==
  /\ thread.pc = "read" /\ mutex = "free"
  /\ IF thread.event.win \in DOMAIN win_map
     THEN mutex' = "events" /\ thread' = [thread EXCEPT !.pc = "handler"]
     ELSE mutex' = "free" /\ thread' = [pc |-> "poll", event |-> NoEvent]
  /\ UNCHANGED <<window, user, win_map, initFlag, buffer, library>>

Handler ==
  /\ thread.pc = "handler" /\ mutex' = "free"
  /\ thread' = [pc |-> "poll", event |-> NoEvent]
  /\ UNCHANGED <<window, user, win_map, initFlag, buffer, library>>

EventThread == NextEvent \/ Dispatch \/ Handler
-----------------------------------------------------------------------------
(* Calls of a widget's own thread *)

At(w, from, to) == user[w] = from /\ user' = [user EXCEPT ![w] = to]

\* The caller's lock() before the call, and its unlock() after it.
CallerLocks(w) == /\ CallersLock => mutex = "free"
                  /\ mutex' = IF CallersLock THEN w ELSE mutex
CallerUnlocks == mutex' = IF CallersLock THEN "free" ELSE mutex

OpenFails(w) ==
  /\ At(w, "idle", "idle") /\ window[w] = 0 /\ (CallersLock => mutex = "free")
  /\ UNCHANGED <<window, win_map, initFlag, buffer, mutex, thread, library>>

OpenCreates(w) ==
  /\ At(w, "idle", "add") /\ window[w] = 0 /\ created < MaxWindows
  /\ CallerLocks(w)
  /\ created' = created + 1 /\ window' = [window EXCEPT ![w] = created']
  /\ feeds' = Append(feeds, 0)
  /\ UNCHANGED <<win_map, initFlag, buffer, thread, queue, buffers, sent>>

\* Mutant: initFlag is not asked.
MutOpenAdds(w) ==
  /\ At(w, "add", "create")
  /\ win_map' = [win \in DOMAIN win_map \cup {window[w]} |->
                   IF win = window[w] THEN w ELSE win_map[win]]
  /\ UNCHANGED <<window, initFlag, buffer, mutex, thread, library>>

\* add() inserts the widget and then asks whether there is a buffer already.
OpenAdds(w) ==
  /\ At(w, "add", IF initFlag THEN "attach" ELSE "create")
  /\ win_map' = [win \in DOMAIN win_map \cup {window[w]} |->
                   IF win = window[w] THEN w ELSE win_map[win]]
  /\ UNCHANGED <<window, initFlag, buffer, mutex, thread, library>>

OpenCreatesBuffer(w) ==
  /\ At(w, "create", "idle") /\ CallerUnlocks
  /\ buffers' = buffers + 1 /\ buffer' = buffers' /\ initFlag' = TRUE
  /\ feeds' = [feeds EXCEPT ![window[w]] = buffers'] /\ queue' = << >>
  /\ UNCHANGED <<window, win_map, thread, created, sent>>

OpenAttaches(w) ==
  /\ At(w, "attach", "idle") /\ CallerUnlocks
  /\ feeds' = [feeds EXCEPT ![window[w]] = buffer]
  /\ UNCHANGED <<window, win_map, initFlag, buffer, thread, queue, created, buffers, sent>>

CloseErases(w) ==
  /\ At(w, "idle", "release") /\ window[w] # 0 /\ CallerLocks(w)
  /\ win_map' = [win \in DOMAIN win_map \ {window[w]} |-> win_map[win]]
  /\ UNCHANGED <<window, initFlag, buffer, thread, library>>

CloseReleases(w) ==
  /\ At(w, "release", "idle") /\ CallerUnlocks
  /\ feeds' = [feeds EXCEPT ![window[w]] = 0] /\ window' = [window EXCEPT ![w] = 0]
  /\ UNCHANGED <<win_map, initFlag, buffer, thread, queue, created, buffers, sent>>

\* resize(), move() and the others ask the library, which answers by an event.
Request(w) ==
  /\ At(w, "idle", "idle") /\ window[w] # 0 /\ Send(window[w])
  /\ UNCHANGED <<window, win_map, initFlag, buffer, feeds, mutex, thread, created, buffers>>

Call(w) == \/ OpenFails(w) \/ OpenCreates(w) \/ OpenAdds(w) \/ OpenCreatesBuffer(w)
           \/ OpenAttaches(w) \/ CloseErases(w) \/ CloseReleases(w) \/ Request(w)

Next == EventThread \/ InputEvent \/ \E w \in Widgets : Call(w)

Spec == Init /\ [][Next]_vars
-----------------------------------------------------------------------------
TypeOK ==
  /\ window \in [Widgets -> 0 .. MaxWindows] /\ initFlag \in BOOLEAN
  /\ user \in [Widgets -> {"idle", "add", "create", "attach", "release"}]
  /\ DOMAIN win_map \subseteq Windows /\ \A win \in DOMAIN win_map : win_map[win] \in Widgets
  /\ mutex \in {"free", "events"} \cup Widgets
  /\ thread.pc \in {"poll", "read", "handler"} /\ thread.event.win \in 0 .. MaxWindows
  /\ feeds \in Seq(0 .. MaxWindows) /\ queue \in Seq([win : Windows])
  /\ {buffer, buffers, created} \subseteq 0 .. MaxWindows /\ sent \in 0 .. MaxEvents

\* Callers that lock get what EventDelivery promises, though add() and erase()
\* themselves do not (DFBEventThread.ipp:38-51, 73-126).
Delivery == INSTANCE EventDelivery
  WITH registered <- win_map, handled <- IF thread.pc = "handler" THEN thread.event.win ELSE 0
ImplementsDelivery == Delivery!Spec

\* Every open window sends its events to the buffer that is read: no two first
\* widgets make a buffer each (DFBEventThread.ipp:41-46).
OneBuffer == \A w \in Widgets :
  window[w] # 0 /\ user[w] = "idle" => feeds[window[w]] = buffer
=============================================================================
