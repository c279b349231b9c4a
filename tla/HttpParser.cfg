SPECIFICATION FairSpec
CONSTANTS
    Inputs <- MCInputs
    ULLONG_MAX = 63
    MaxHeaderSize = 45
    MaxEofCalls = 2
INVARIANTS CallbacksExact UrlFieldsExact AssertionsHold
PROPERTIES InputIsConsumed
CHECK_DEADLOCK FALSE
