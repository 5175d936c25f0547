SPECIFICATION FairSpec
CONSTANTS
    Endpoints = {a}
    Slots = {w1}
    Scanners = {s1}
    Owners = {o1}
    Keys = {k1}
    MaxAttempts = 2
    MaxCycles = 2
    MaxFaults = 1
    NoToken = NoToken
    NoWork = NoWork
    NoReplay = NoReplay
    NoKey = NoKey
    NoEndpoint = NoEndpoint
PROPERTIES
    EveryTargetSettles
