SPECIFICATION Spec
CONSTANTS
    Fds = {f1, f2}
    NoFd = NoFd
    MaxIn = 1
    Kinds = {"stream"}
    NoSocket = NoSocket
    Sockets = {o1, o2}
    Threads = {t1}
SYMMETRY Symmetry
INVARIANTS
    NoDescriptorLost
    ModeIsKnown
    DestructorDoesNotLinger
PROPERTIES
    ConnectedWhenTold
    ImplementsBlockingSockets
