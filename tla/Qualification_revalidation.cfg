SPECIFICATION FairSpec
CONSTANTS
  Request = {q1, q2}
  Case = {c1}
  Company = {co1}
  Version = {"v1", "v2"}
  CompanyOf <- OneCompanyOf
  BaselineOf <- TwoBaselineOf
  CurrentOf <- TwoCurrentOf
  Profile = {"sparse", "full"}
  Day = {1}
  Key = {1, 2}
  Clause <- MCClause
  Requirement <- MCRequirement
  Outcome <- MCOutcome
  Extraction <- ChangedExtraction
  Analysed <- TwoAnalysed
  Verdict <- MCVerdict
  MaxClock = 4
  MaxRule = 1
  None = None
  NoGroup = NoGroup
INVARIANTS
  Reproducible
  AnswerProvenance
PROPERTIES
  RevalidationSeesAnswers
  EveryRequestEnds
