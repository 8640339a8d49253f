SPECIFICATION Spec
CONSTANTS
  Request = {q1, q2}
  Case = {c1, c2}
  Company = {co1}
  Version = {"v1"}
  CompanyOf <- OneCompanyOf
  BaselineOf <- OneBaselineOf
  CurrentOf <- OneCurrentOf
  Profile = {"sparse", "full"}
  Day = {1}
  Key = {1, 2}
  Clause <- MCClause
  Requirement <- MCRequirement
  Outcome <- MCOutcome
  Extraction <- OneFailing
  Analysed <- OneAnalysed
  Verdict <- MCVerdict
  MaxClock = 5
  MaxRule = 0
  None = None
  NoGroup = NoGroup
SYMMETRY Symmetry
INVARIANTS
  IndInv
  AnswersKept
