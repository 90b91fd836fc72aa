SPECIFICATION FairSpec
CONSTANTS
  ProbeEnded = {TRUE}
  ProbeStale = {TRUE}
  CreateOutcomes = {TRUE}
  Writers = {w1, w2}
  SizeToRotate = 1
  RotateAtFirst = TRUE
  FopenOutcomes = {TRUE}
  MaxWrites = 3
  MaxOpens = 2
  MaxRotations = 5
  MaxCrashes = 0
PROPERTIES RotatesAtFirst
