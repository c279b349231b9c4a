SPECIFICATION Spec
CONSTANTS
    Conns = {1, 2}
    MaxStreams <- MCMaxStreams
    MaxFd = 3
    Files = {1}
    HangupAlone = {"spdy"}
INVARIANTS NoStaleHandler ConnectionServed FilesOwned ServesItsFile
CHECK_DEADLOCK FALSE
