SPECIFICATION Spec
CONSTANTS
    Endpoints = {a}
    Slots = {w1, w2}
    Scanners = {s1}
    Owners = {o1, o2}
    Keys = {k1, k2}
    MaxAttempts = 2
    MaxCycles = 3
    MaxFaults = 1
    NoToken = NoToken
    NoWork = NoWork
    NoReplay = NoReplay
    NoKey = NoKey
    NoEndpoint = NoEndpoint
SYMMETRY Symmetry
INVARIANTS
    AttemptsAccounted
    UnsettledCanMove
    PendingAttemptIsClaimed
    SuccessIsRecorded
    SendsOnlyWhileActive
    OneCyclePerReplay
PROPERTIES
    ImplementsContract
