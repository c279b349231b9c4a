\* Clients that move between three servers while two requests for them are
\* looked up and forwarded; one of the requests comes through a proxy, and
\* peers may fall silent.
CONSTANTS
    r1 = r1  r2 = r2  c1 = c1  c2 = c2  v1 = v1  v2 = v2  v3 = v3
    NoServer = NoServer
    Requests = {r1, r2}
    Clients = {c1, c2}
    Servers = {v1, v2, v3}
    PushTo <- MCPushTo
    Entry <- MCEntry
    ViaProxy = {r2}
    Contains <- OverlappingIds
    Silent = {v2, v3}
    MaxMoves = 2
SPECIFICATION FairSpec
INVARIANTS
    AtMostOneHop
    AnswerIsTrue
PROPERTY
    EveryRequestAnswered
CHECK_DEADLOCK FALSE
