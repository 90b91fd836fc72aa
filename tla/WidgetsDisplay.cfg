SPECIFICATION Spec
CONSTANTS
  Widgets = {w1}
  Sizes = {1, 2}
  Positions = {0}
  MaxWindows = 1
  MaxEvents = 1
INVARIANTS FramebufferFits
