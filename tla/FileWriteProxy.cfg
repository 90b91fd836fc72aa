SPECIFICATION FairSpec
CONSTANTS
  ProbeEnded = {TRUE, FALSE}
  ProbeStale = {FALSE}
  CreateOutcomes = {TRUE}
  MaxWrites = 3
  MaxOpens = 2
INVARIANTS WriterSafe NothingHeldBack CloseKeepsPromise
PROPERTIES ImplementsLog Delivered CloseReturns
