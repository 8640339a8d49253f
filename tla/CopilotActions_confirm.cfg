SPECIFICATION ActionsSpec
CONSTANTS
    Tab = {a}
    Writer = {w1, w2}
    Judge = {j}
    MaxClock = 5
    MaxAnalysis = 2
    MaxReload = 1
    Absent = Absent
SYMMETRY Symmetric
INVARIANTS ShownAndStored RefusedIsNotStored
CHECK_DEADLOCK FALSE
