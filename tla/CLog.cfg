SPECIFICATION FairSpec
CONSTANTS
  ProbeEnded = {TRUE, FALSE}
  ProbeStale = {FALSE}
  CreateOutcomes = {TRUE}
  Writers = {w1, w2}
  SizeToRotate = 2
  RotateAtFirst = TRUE
  FopenOutcomes = {TRUE, FALSE}
  MaxWrites = 4
  MaxOpens = 2
  MaxRotations = 4
  MaxCrashes = 1
INVARIANTS AllLogged FilesInOrder RotatorBelongs
PROPERTIES CloseReturns RotatesAtFirst
