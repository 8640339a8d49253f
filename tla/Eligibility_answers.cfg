SPECIFICATION Spec
CONSTANTS
  None = None
  Nil = None
  Day = 5
  IndustryCode = {1, 2}
  RoleName <- Roles
  People = {0, 1, 2}
  Work <- Works
  Ref = {1, 2}
  OnDay = {1, 2, 5, 6}
  InYear = {0, 1, 2}
  Certificate <- Certificates
  Digits <- NumberWords
  Adornment <- Adornments
  Parent <- ParentOf
  RegionName <- RegionNames
  YearLength = 2
  Key = {1, 2, 3}
  Group = {g1}
  NoGroup = NoGroup
  Labelled = {"1450", "1468"}
  TradeName = {"trade"}
  Procedure = {"system"}
  MaxChunk = 3
  MaxBody = 6
  MaxRetry = 1
  MinScore = 1
  TopK = 1
  Version = {v1, v2}

INVARIANTS DecidedByWhatIsKnown AskedIsComparable EligibleMeetsText IneligibleMissesText
  DeparturesReported
PROPERTIES FactsOverturnNothing
CHECK_DEADLOCK FALSE
