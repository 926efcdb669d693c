SPECIFICATION Spec
CONSTANTS
    Fds = {f1}
    NoFd = NoFd
    MaxIn = 1
    Kinds = {"stream"}
    NoSocket = NoSocket
    Sockets = {o1, o2}
    Threads = {t1, t2}
SYMMETRY Symmetry
INVARIANTS
    StreamInv
    OwnedOnce
PROPERTIES
    BlocksUnlessAsked
