SPECIFICATION MCSpec
CONSTANTS
  Widgets = {w1, w2}
  Sizes = {1, 2}
  Positions = {0, 1}
  MaxWindows = 2
  MaxEvents = 2
  CallersLock = TRUE
SYMMETRY Symmetry
INVARIANTS WidgetFollows BufferIsShared
PROPERTY BothImplementDelivery
