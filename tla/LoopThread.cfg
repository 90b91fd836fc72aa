SPECIFICATION FairSpec
CONSTANTS
  ProbeEnded = {TRUE}
  ProbeStale = {TRUE}
  CreateOutcomes = {TRUE, FALSE}
  Controllers = {owner, c1, c2}
  Owner = owner
  MaxStarts = 2
INVARIANTS LoopSafe AtMostOneMore
PROPERTIES StopEndsLoop KeepsIterating
