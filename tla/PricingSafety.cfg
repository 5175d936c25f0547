SPECIFICATION Spec
CONSTANTS
    low = low
    high = high
    Events = {e1, e2}
    Prices = {low, high}
    Overflow <- MCOverflow
    Currencies = {EUR, USD}
    Lead = 1
    Skew = 1
    TxLife = 1
    ReviewLife = 1
    NoRow = NoRow
    MaxClock = 2
    MaxVersions = 2
    MaxReviews = 1
SYMMETRY Symmetry
INVARIANTS
    RatedPriceStands
    OutcomeStands
    PublishedCurrencyIsLocked
PROPERTIES
    PastPriceStands
    CorrectsWhatWasReviewed
CHECK_DEADLOCK FALSE
