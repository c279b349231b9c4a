SPECIFICATION Spec
CONSTANTS
    Threads = {1, 2}
    None = None
    Cut = Cut
    Modes <- MCModes
    Programs <- MCPrograms
    numclients <- MCNumClients
    MaxRetries <- MCMaxRetries
    MaxPushes <- MCMaxPushes
    MaxFrames = 2
CHECK_DEADLOCK FALSE
INVARIANTS ExactlyOneListen NeverRegistersAgain PushFindsListen
