SPECIFICATION Spec
CONSTANTS
  Request = {r1, r2}
  Name = {root, u1}
  Root = root
  Company = {c1}
  Session = {s1}
  LockAfter = 3
  LockTime = 2
  TTL = 2
  MaxNow = 3
  None = None
SYMMETRY Symmetric
INVARIANTS
  LockoutComes
PROPERTIES
  LockKept
