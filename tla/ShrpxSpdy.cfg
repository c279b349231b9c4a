SPECIFICATION Spec
CONSTANTS
    i1 = i1
    i2 = i2
    c1 = c1
    c2 = c2
    None = None
    Streams <- MCStreams
    Conns <- MCConns
    MaxUpload <- MCMaxUpload
    MaxBody = 1
    OutThres = 0
    InitialWindow = 1
    Methods <- MCMethods
CHECK_DEADLOCK FALSE
SYMMETRY MCSymmetry
INVARIANTS ConnectionsOwned DataSourceAlive PooledAnswerRead PausedHasBody CreditConserved
