SPECIFICATION Spec
CONSTANTS
  n1 = n1
  n2 = n2
  c1 = c1
  Worker = worker
  Client = {c1}
  Notice = {n1, n2}
  Previous <- Reannounced
  MaxOrder = 1
  Row = {1}
  PageSize = 2
  ClientLookups = FALSE
  Faults = TRUE
  MaxCrash = 1
  None = None
INVARIANTS
  NewNoticesQueued
