--------------------------- MODULE ServerProperties ---------------------------
(***************************************************************************)
(* What the server and its connections promise each other: which thread    *)
(* destroys a connection and when, what may still touch it, and which      *)
(* connections are stopped, left behind or never released.                 *)
(***************************************************************************)
EXTENDS SocksServer

TypeOK ==
    /\ connections \subseteq Conns
    /\ acceptor \in Conns \cup {NoConn}
    /\ queue \in Seq(Items)
    /\ main \in Stages
    /\ stopping \in Items
    /\ signalled \in BOOLEAN
    /\ fate \in Fates
    /\ life \in [Conns -> {"free", "alive"} \cup Destruction]
    /\ sock \in [Threads -> [Conns -> Fds \cup {NoFd}]]
    /\ thread \in [Threads -> [Conns -> BOOLEAN]]
    /\ pc \in [Threads -> [Conns -> Places]]
    /\ fd \in [Threads -> [Conns -> Fds \cup {NoFd}]]

-----------------------------------------------------------------------------
(* Safety.                                                                   *)

\* A connection object is alive exactly while a shared_ptr to it is held: by the
\* list, the pending accept, a queued or running handler, or a thread that is
\* inside stopConnection().
RefsMatchLife == \A c \in Conns : life[c] = "alive" <=> Held(c)

\* The storage of a connection is given back only when neither of its threads
\* will touch it again: the threads run on a raw "this", and only the joins of
\* ~SocksConnection() keep the object there for them.
NoUseAfterFree ==
    \A c \in Conns : life[c] = "free" =>
        \A t \in Threads : pc[t][c] \in {"none"} \cup Ended /\ ~thread[t][c]

\* While the server runs, a connection is never destroyed by one of its own
\* threads, which would have to join itself (the comments of stopConnection()).
DestroyedOnMain ==
    main # "drain" => \A c \in Conns : ~OnOwnThread(c)

\* The process is not terminated by the destructor of a std::thread that was
\* never joined, unless a handler left over at shutdown releases a connection.
NoJoinableThreadLeft == fate = "joinableThread" => main = "drain"

\* A descriptor number a thread took from a socket object and is about to use,
\* or uses, belongs by now to the socket of another connection.
Foreign(k, f, c) == \E d \in Conns \ {c} : f # NoFd /\ sock[k][d] = f
SourceForeign(t, c) == pc[t][c] = "reading" /\ Foreign(t, fd[t][c], c)
SinkForeign(t, c) == pc[t][c] = "writing" /\ Foreign(Other(t), fd[t][c], c)

\* A thread never reads or writes the client of another connection: the main
\* thread, the only one that accepts, joins the threads of a connection it has
\* closed before it accepts the next client.
HostDescriptorsOwn ==
    \A c \in Conns : ~SourceForeign("host", c) /\ ~SinkForeign("remote", c)

\* It may find the LKL descriptor of another connection, but only while its own
\* connection is being destroyed and is past closing the remote socket.
RemoteDescriptorsOwn ==
    \A c \in Conns :
        (SourceForeign("remote", c) \/ SinkForeign("host", c)) =>
            life[c] \in Destruction \ {"shutRemote", "closeRemote"}

\* The stop of a connection is requested or running.
StopPending(c) ==
    \/ stopping.conn = c
    \/ \E i \in 1..Len(queue) : queue[i].kind = "stop" /\ queue[i].conn = c

\* A thread that ended in an orderly way (its peer closed, or its handshake
\* failed) has asked for the stop of its connection, and the request is not
\* lost: as long as the connection is listed, the stop is still to come.  Both
\* relay loops request it, the second request of the same connection included.
StopNotLost ==
    \A c \in connections, t \in Threads : pc[t][c] = "done" => StopPending(c)

\* An exception leaves handshake(), and with it the process, only when the
\* connections are released at shutdown: before that a connection stays listed
\* as long as its handshake runs.
EscapeOnlyAtShutdown == fate = "badWeakPtr" => main \notin {"run", "sleep"}

\* The stronger claim of the comments in receiveHost() and receiveRemote(): a
\* thread that cannot get a reference any more ignores the bad_weak_ptr.
BadWeakPtrIgnored == fate # "badWeakPtr"

\* While the server runs, the destructor waits for the threads of a connection
\* only with both sockets closed, so that no thread can block on them: no
\* thread opens the remote socket behind its back.
ClosedBeforeJoin ==
    main \in {"run", "sleep"} =>
        \A c \in Conns, t \in Threads :
            life[c] \in {"joinHost", "joinRemote"} => sock[t][c] = NoFd

\* A connection with a thread that survives the server, and may use it or the
\* halted Linux Kernel Library, is one whose stop was requested but not served:
\* the list, the pending accept and a queued start do not keep one.
OutlivesServer ==
    main \in {"halt", "drain"} =>
        \A c \in Conns : life[c] = "alive" /\ thread["host"][c] =>
            StopPending(c) \/ ThreadHolds(c)

-----------------------------------------------------------------------------
(* Liveness, under FairSpec.                                                 *)

\* A thread that blocks on the descriptor of another connection is outside what
\* its own connection can unblock.
NoneForeign == \A c \in Conns, t \in Threads : ~SourceForeign(t, c) /\ ~SinkForeign(t, c)

\* The destructor of c ran past the remote socket before handshake() opened it.
LateOpen == \E c \in Conns :
    life[c] \in {"shutHost", "closeHost", "joinHost", "joinRemote"} /\ sock["remote"][c] # NoFd

\* A stop that was requested is carried through: the connection is destroyed,
\* its sockets closed and its threads joined, whatever the two peers do.
StopReleases ==
    <>[]NoneForeign =>
        \A c \in Conns :
            StopPending(c) /\ ~signalled ~> life[c] = "free" \/ signalled \/ fate # "running"

\* A termination signal ends the process, unless the destructor of a connection
\* waits for a thread on a socket opened too late, or a connection with threads
\* is left to be destroyed after the Linux Kernel Library was halted.
SignalTerminates ==
    <>[]NoneForeign =>
        (signalled ~> \/ fate # "running"
                      \/ LateOpen
                      \/ main = "drain" /\ \E t \in Threads, c \in Conns : thread[t][c])
=============================================================================
