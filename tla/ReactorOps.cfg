SPECIFICATION ReactorSpec
CONSTANTS
    Fds = {f1, f2}
    NoFd = NoFd
    MaxIn = 1
    Kinds = {"stream", "datagram"}
    NoSocket = NoSocket
    Sockets = {o1}
    Threads = {t1}
SYMMETRY Symmetry
INVARIANT
    ReactorInv
PROPERTIES
    AgainMeansWaiting
    NonBlockingConnectTruth
    EofOnlyOnStreams
