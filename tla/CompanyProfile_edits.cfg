SPECIFICATION Spec
CONSTANTS
  Request = {r1, r2}
  Company = {c1}
  Number = {}
  Code = {k1}
  StaffRole = {"PM"}
  Headcount = {1}
  Performance = {p1}
  Certification = {t1}
  Date = {2, 4}
  Year <- HalfYear
  Unset = Unset
  Deleted = Deleted
  Absent = Absent
SYMMETRY Symmetric
CONSTRAINT OneConcern
CHECK_DEADLOCK FALSE
PROPERTIES
  RefusedOnlyByRivals
  EditsAsSent
