SPECIFICATION Spec
CONSTANTS
    Conns = {c1, c2}
    Fds = {f1, f2}
    NoConn = NoConn
    NoFd = NoFd
    PromptRelease = TRUE
    MaySignal = TRUE
SYMMETRY Symmetry
INVARIANTS
    TypeOK
    RefsMatchLife
    NoUseAfterFree
    DestroyedOnMain
    NoJoinableThreadLeft
    HostDescriptorsOwn
    RemoteDescriptorsOwn
    StopNotLost
    EscapeOnlyAtShutdown
    ClosedBeforeJoin
    OutlivesServer
PROPERTY
    ImplementsConnectionLife
