SPECIFICATION Spec
CONSTANTS
    e1 = e1
    e2 = e2
    e3 = e3
    e4 = e4
    r1 = r1
    r2 = r2
    r3 = r3
    Events = {e1, e2, e3, e4}
    Records = {r1, r2, r3}
    RecordOf <- MCThreeMonths
    FinalIds = {f1, f2}
    RevisionIds = {v1, v2}
    Nothing = Nothing
    MaxDrafts = 3
    MaxVersions = 3
    MaxCalculations = 1
SYMMETRY EventSymmetry
CONSTRAINT Bounded
INVARIANTS
    VersionChain
    AnswersStand
    IdentityActsOnce
PROPERTIES
    DraftNeverRegresses
    FinalizesCurrentEvidence
CHECK_DEADLOCK FALSE
