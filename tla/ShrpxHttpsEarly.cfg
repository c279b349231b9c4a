SPECIFICATION Spec
CONSTANTS
    MaxRequests = 2
    MaxBody = 1
    MaxHeader = 1
    OutThres = 1
    TxThres = 2
    RequestKinds <- MCKindsSized
    MaxWire = 2
    Malformed = FALSE
    Asserts = TRUE
INVARIANT NeverStops
CHECK_DEADLOCK FALSE
