\* Three concurrent refreshes, a listen request, revocations and failures.
CONSTANTS
    c1 = c1
    Clients = {c1}
    Refreshes = {f1, f2, f3}
    Listens = {l1}
    ClientOf <- MCClientOf
    Faults = TRUE
SPECIFICATION Spec
INVARIANTS
    NoIncrementLost
    ClientHoldsValidId
    SupersededIdRefused
    RevokedIsRefused
CHECK_DEADLOCK FALSE
