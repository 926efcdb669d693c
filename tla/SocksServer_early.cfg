SPECIFICATION Spec
CONSTANTS
    Conns = {c1, c2}
    Fds = {f1}
    NoConn = NoConn
    NoFd = NoFd
    PromptRelease = FALSE
    MaySignal = FALSE
SYMMETRY Symmetry
INVARIANT
    DestroyedOnMain
