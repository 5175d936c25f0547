SPECIFICATION Spec
CONSTANTS
    Endpoints = {a}
    Slots = {w1}
    Scanners = {s1}
    Owners = {o1}
    Keys = {k1}
    MaxAttempts = 1
    MaxCycles = 1
    MaxFaults = 1
    NoToken = NoToken
    NoWork = NoWork
    NoReplay = NoReplay
    NoKey = NoKey
    NoEndpoint = NoEndpoint
INVARIANTS
    DeactivationWaits
