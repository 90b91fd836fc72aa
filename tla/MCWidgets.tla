----------------------------- MODULE MCWidgets -----------------------------
(* XWidget and DFBWidget in one run: a program uses one toolkit or the other. *)
EXTENDS XWidget, TLC

CONSTANT CallersLock
VARIABLES toolkit, window, initFlag, buffer, feeds, buffers

D == INSTANCE DFBWidget WITH MaxWindows <- MaxWindows + 1

x11Only == <<widget, server>>
dfbOnly == <<window, initFlag, buffer, feeds, buffers>>

MCInit == \/ toolkit = "x11" /\ Init /\ window = 0 /\ initFlag = 0
             /\ buffer = 0 /\ feeds = 0 /\ buffers = 0
          \/ toolkit = "dfb" /\ D!Init /\ widget = 0 /\ server = 0

MCNext == /\ UNCHANGED toolkit
          /\ \/ toolkit = "x11" /\ Next /\ UNCHANGED dfbOnly
             \/ toolkit = "dfb" /\ D!Next /\ UNCHANGED x11Only

MCSpec == MCInit /\ [][MCNext]_<<toolkit, vars, dfbOnly>>

\* Both toolkits give their widgets what EventDelivery promises: no handler runs
\* on a widget that is being torn down (XEventThread.ipp:71-76, XWidget.ipp:108-134,
\* DFBEventThread.ipp:38-51, 73-126).
Promise == INSTANCE EventDelivery
  WITH Windows <- 1 .. MaxWindows + 1, registered <- win_map,
       handled <- IF thread.pc \in {"resize", "handler"} THEN thread.event.win ELSE 0
BothImplementDelivery == Promise!Spec

\* XWidget: the widget agrees with the server when its events are handled.
WidgetFollows == toolkit = "x11" => TypeOK /\ GeometryFollows

\* DFBWidget: every open window feeds the buffer that is read.
BufferIsShared == toolkit = "dfb" => D!TypeOK /\ D!OneBuffer

Symmetry == Permutations(Widgets)
=============================================================================
