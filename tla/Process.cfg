SPECIFICATION FairSpec
CONSTANTS
  Pids = {p1, p2}
  FDs = {f1, f2, f3, f4}
  None = None
  MaxOpens = 2
  MaxPolls = 1
INVARIANTS ChildAccounted OwnEnds
PROPERTIES KillTells CloseReaps CloseReturns
