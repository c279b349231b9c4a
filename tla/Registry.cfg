\* Reconnections to the same and to another worker, a refreshed push id,
\* a worker exit and failing queries.
CONSTANTS
    c1 = c1  p1 = p1  p2 = p2  w1 = w1  w2 = w2
    n1 = n1  n2 = n2  n3 = n3
    NoConn = NoConn
    NoWorker = NoWorker
    Clients = {c1}
    Workers = {w1, w2}
    ClientOf <- MCClientOf
    PushIdOf <- MCPushIdOf
    WorkerOf <- MCWorkerOf
    PushIds = {p1, p2}
    Conns = {n1, n2, n3}
    InitialWorkers = {w1, w2}
    Mortal = {w1}
    DbMayFail = TRUE
SPECIFICATION FairSpec
INVARIANTS
    LoneClientSettles
    SessionsCounted
PROPERTIES
    DeadEntryIsDropped
    KeepsDirectory
CHECK_DEADLOCK FALSE
