SPECIFICATION FairSpec
CONSTANTS
  n1 = n1
  n2 = n2
  c1 = c1
  Worker = worker
  Client = {c1}
  Notice = {n1}
  Previous <- Unrelated
  MaxOrder = 2
  Row = {1, 2}
  PageSize = 2
  ClientLookups = TRUE
  Faults = TRUE
  MaxCrash = 1
  None = None
INVARIANTS
  IndInv
PROPERTIES
  LookupWhole
  CompletedJobHasHistory
  ImplementsHistory
  JobsSettle
