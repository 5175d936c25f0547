SPECIFICATION Spec
CONSTANTS
    low = low
    high = high
    Events = {e1, e2}
    Prices = {low, high}
    Overflow <- MCOverflow
    Currencies = {EUR, USD}
    Lead = 1
    Skew = 1
    TxLife = 1
    ReviewLife = 1
    NoRow = NoRow
    MaxClock = 1
    MaxVersions = 2
    MaxReviews = 2
SYMMETRY Symmetry
INVARIANT OneCurrency
CHECK_DEADLOCK FALSE
