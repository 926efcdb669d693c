SPECIFICATION FairSpec
CONSTANTS
    Conns = {c1, c2}
    Fds = {f1, f2}
    NoConn = NoConn
    NoFd = NoFd
    PromptRelease = TRUE
    MaySignal = FALSE
PROPERTY
    StopReleases
CHECK_DEADLOCK FALSE
