SPECIFICATION Spec
CONSTANTS
    NumEvents = 1
    Slots = {w1, w2}
    BatchSize = 1
    NumBuckets = 1
    Outcomes = {"RatedEvent", "UnratedEvent", "RatingFailure"}
    NoToken = NoToken
    NoJob = NoJob
    MaxFaults = 2
SYMMETRY SlotSymmetry
INVARIANTS
    ProjectedIffProcessed
    OneOutcomeAfterProjection
PROPERTIES
    LateWorkerIsHarmless
    ImplementsContract
