\* One request, three connections, repeated acks, a worker exit, failing
\* queries; a push stream ends in one event.
CONSTANTS
    r1 = r1  r2 = r2  c1 = c1  w1 = w1  w2 = w2
    s1 = s1  s2 = s2  s3 = s3  a1 = a1  a2 = a2  a3 = a3
    NoWorker = NoWorker
    NoSession = NoSession
    Clients = {c1}
    Workers = {w1, w2}
    PushTo <- MCPushTo
    ClientOf <- MCClientOf
    WorkerOf <- MCWorkerOf
    AckVia <- MCAckVia
    Requests = {r1}
    Sessions = {s1, s2, s3}
    Acks = {a1, a2, a3}
    InitialWorkers = {w1, w2}
    Mortal = {w1}
    WithCallback = {r1}
    Retries = 1
    DbMayFail = TRUE
    BothStreamEvents = FALSE
SPECIFICATION Spec
INVARIANTS
    RowHasOwner
    SingleAck
    FailureIsFinal
    ToldBeforeDeleted
    AckInTimeSettles
PROPERTY KeepsPromise
CHECK_DEADLOCK FALSE
