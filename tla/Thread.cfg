SPECIFICATION FairSpec
CONSTANTS
  ProbeEnded = {TRUE, FALSE}
  ProbeStale = {TRUE, FALSE}
  CreateOutcomes = {TRUE, FALSE}
  MaxStarts = 3
INVARIANTS HandshakeSafe NoOrphan
PROPERTIES StartReturns
