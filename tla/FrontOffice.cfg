SPECIFICATION FrontSpec
CONSTANTS
    x = x
    y = y
    z = z
    w = w
    n1 = n1
    n2 = n2
    k1 = k1
    c1 = c1
    c2 = c2
    bad = bad
    Requests = {x, y}
    Keys = {k1}
    NoKey = NoKey
    Contents = {c1, c2, bad}
    Malformed = {bad}
    Calls <- MCCalls
    NoCall = NoCall
    NoEvent = NoEvent
    Metered = {s1, s2}
    Subscriptions = {s1, s2, s3}
    MaxUsage = 2
    Invoices = {i1, i2}
    Owners = {x, y}
    Jobs = {z, w}
    None = None
    Endpoints = {x}
    MaxAttempts = 3
    Users = {x, y}
    Names = {n1, n2}
    Orgs = {o1, o2}
    Invites = {i1, i2}
    Actors = {z, w}
    Gone = Gone
    Secrets = {t1, t2, t3}
    NoSecret = NoSecret
    Tabs = {x, y}
    Places = {1, 2, 3, 4}
    BatchSize = 2
    PageSize = 1
    MaxUnitMicros = 10000
    MaxQuantity = 10000
    MaxMinorUnits = 100000
    Quantities = {2, 3}
    Initial = 1250
    Garbage = Garbage
    Nothing = Nothing
    MaxRecoveries = 1
    MaxRetries = 1
    MaxRows = 2
    MaxReasons = 2
    MaxKeys = 2
    BasePrice = 3
    IncludedUnits = 1
    PricePerUnit = 2
    Sessions = {x, y, s1}
SYMMETRY Symmetry
CONSTRAINT Bounded
INVARIANTS
    TypesOK
    RetryStands
    LagIsExplained
    LegacyInvoicesStand
    ChainUnbroken
    MembersWereInvited
    RotationsChain
    PagesAreTheSnapshot
    VersionIsTheMonth
    SecretsReachTheirTab
    NamesRepeatOnlyByOverlap
    FiguresAgree
    ApprovalsHoldTheLedger
PROPERTIES
    ImplementsContract
    PressesAreSafe
CHECK_DEADLOCK FALSE
