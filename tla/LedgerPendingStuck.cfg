SPECIFICATION FairSpec
CONSTANTS
    NumEvents = 1
    Slots = {w1}
    BatchSize = 1
    NumBuckets = 1
    Outcomes = {"RatedEvent"}
    NoToken = NoToken
    NoJob = NoJob
    MaxFaults = 2
PROPERTIES
    PendingWorkIsRecovered
