SPECIFICATION Spec
CONSTANTS
  Notice = {n1}
  MaxOrder = 2
  Request = {r1, r2}
  Company = {c1}
  Case = {k1}
  Document = {d1, d2, d3}
  File = {f1, f2}
  None = None
SYMMETRY Symmetric
CHECK_DEADLOCK FALSE
INVARIANTS
  BaselineDiffers
  CasesWhole
