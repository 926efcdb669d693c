SPECIFICATION Spec
CONSTANTS
    Conns = {c1, c2}
    Fds = {f1, f2}
    NoConn = NoConn
    NoFd = NoFd
    PromptRelease = FALSE
    MaySignal = TRUE
SYMMETRY Symmetry
INVARIANTS
    IInv
    DescriptorInv
