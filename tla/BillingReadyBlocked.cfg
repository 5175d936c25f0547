SPECIFICATION Spec
CONSTANTS
    e1 = e1
    e2 = e2
    r1 = r1
    e3 = e3
    e4 = e4
    r2 = r2
    r3 = r3
    Events = {e1, e2}
    Records = {r1}
    RecordOf <- MCOneMonth
    FinalIds = {f1, f2}
    RevisionIds = {v1, v2}
    Nothing = Nothing
    MaxDrafts = 3
    MaxVersions = 3
    MaxCalculations = 1
SYMMETRY IdSymmetry
INVARIANT ReadyIsApprovable
CHECK_DEADLOCK FALSE
