SPECIFICATION FairSpec
CONSTANTS
    Fds = {f1}
    NoFd = NoFd
    MaxIn = 1
    Kinds = {"stream"}
    NoSocket = NoSocket
    Sockets = {o1}
    Threads = {t1, t2}
PROPERTIES
    ReceiveEnds
    ConnectEnds
    ImplementsBlockingSockets
