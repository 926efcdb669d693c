--------------------------- MODULE ServerInvariant ---------------------------
(***************************************************************************)
(* The inductive invariant of SocksServer, IInv.  Its parts say what the   *)
(* references, the joinable threads and the queued handlers of a           *)
(* connection have to do with each other; SocksServerProofs proves that    *)
(* every step keeps them, and the properties follow from them.             *)
(***************************************************************************)
EXTENDS ServerProperties

\* A connection nobody has started: it is not listed and has no thread.
Fresh(c) ==
    /\ c \notin connections
    /\ c # stopping.conn
    /\ \A t \in Threads : pc[t][c] = "none" /\ ~thread[t][c]

Accepted == {"accept", "acceptError"}
Unstarted == Accepted \cup {"start"}

\* The pending accept holds the only reference to a fresh connection.
AcceptorFresh == acceptor # NoConn => Fresh(acceptor) /\ ~Queued(acceptor)

\* A handler of an unstarted connection holds the only reference to it, and
\* there is one async_accept at a time, pending or completed.
QueueFresh ==
    /\ \A i \in 1..Len(queue), c \in Conns :
          queue[i].kind \in Unstarted /\ queue[i].conn = c =>
              Fresh(c) /\ \A j \in 1..Len(queue) : j # i => queue[j].conn # c
    /\ \A i \in 1..Len(queue) : queue[i].kind \in Accepted =>
          /\ acceptor = NoConn
          /\ \A j \in 1..Len(queue) : queue[j].kind \in Accepted => j = i

\* The main thread holds a stop handler exactly while it sleeps in it, lists
\* nothing after the server is gone, and accepts only while it runs.
MainStages ==
    /\ IF main = "sleep" THEN stopping.kind = "stop" ELSE stopping = NoItem
    /\ main \in {"halt", "drain"} => connections = {}
    /\ main \in {"clear", "halt", "drain"} => acceptor = NoConn

\* A thread that is not joinable was never started or has ended; until the
\* destructor joins them, the former.
ThreadsKnown ==
    \A t \in Threads, c \in Conns :
        ~thread[t][c] => /\ pc[t][c] \in {"none"} \cup Ended
                         /\ life[c] = "alive" => pc[t][c] = "none"

\* Until the handshake is over the host thread is alone, and nobody has asked
\* for the stop of its connection.
HandshakeAlone ==
    \A c \in Conns : pc["host"][c] \in {"none"} \cup Handshaking =>
        /\ pc["remote"][c] = "none"
        /\ ~StopPending(c)

\* While the server runs, a connection in its handshake is listed.
HandshakeListed ==
    main \in {"run", "sleep"} =>
        \A c \in Conns : pc["host"][c] \in Handshaking => c \in connections

\* Free storage has no joinable thread.
FreeUnjoined == \A c \in Conns, t \in Threads : life[c] = "free" => ~thread[t][c]

\* What the destructor has joined when it reaches a stage.
JoinStages ==
    \A c \in Conns :
        /\ life[c] = "joinRemote" => ~thread["host"][c]
        /\ life[c] = "members" => OnOwnThread(c) \/ \A t \in Threads : ~thread[t][c]

\* A thread that has asked for a stop is outlived by the request as long as the
\* connection is listed.
StopKept ==
    \A c \in connections, t \in Threads :
        pc[t][c] \in {"release", "done"} => StopPending(c)

\* With prompt release, the handler a thread posted outlives its own reference.
ReleaseBacked ==
    PromptRelease /\ main # "drain" =>
        \A t \in Threads, c \in Conns : pc[t][c] = "release" =>
            \/ stopping = Item("stop", c, t)
            \/ \E i \in 1..Len(queue) : queue[i] = Item("stop", c, t)

\* When storage is in use.
Lifetime == RefsMatchLife /\ ThreadsKnown /\ FreeUnjoined

\* What ends the process, and where destructors run.
Outcomes ==
    /\ PromptRelease => DestroyedOnMain /\ NoJoinableThreadLeft
    /\ EscapeOnlyAtShutdown

\* All of it holds whatever the threads of the connections, the clients and the
\* destinations do, with or without prompt release.
IInv ==
    /\ TypeOK /\ MainStages /\ AcceptorFresh /\ QueueFresh
    /\ Lifetime /\ JoinStages
    /\ HandshakeAlone /\ HandshakeListed
    /\ StopKept /\ ReleaseBacked
    /\ Outcomes

-----------------------------------------------------------------------------
(* Descriptors.  The parts below rest on IInv and are inductive with it.     *)

\* Thread t of c is about to make, or makes, its call on socket k of c.
InUse(k, t, c) == pc[t][c] = (IF k = t THEN "reading" ELSE "writing")

\* The stages of the destructor that come after closing socket k.
PastClose(k) ==
    {"joinHost", "joinRemote", "members"}
        \cup (IF k = "remote" THEN {"shutHost", "closeHost"} ELSE {})

\* A number belongs to one socket object at a time.
OneSocketPerNumber ==
    \A k \in Threads, c, d \in Conns : sock[k][c] = sock[k][d] /\ sock[k][c] # NoFd => c = d

\* Until the socket of its connection is closed, a call is made on that socket.
FetchedIsOwn ==
    \A k \in Threads, t \in Threads, c \in Conns :
        InUse(k, t, c) /\ life[c] \notin PastClose(k) => fd[t][c] = sock[k][c]

\* While the server runs, a socket the destructor has closed stays closed.
StaysClosed ==
    main \in {"run", "sleep"} =>
        \A k \in Threads, c \in Conns : life[c] \in PastClose(k) => sock[k][c] = NoFd

\* Which sockets the numbers stand for that the threads use: with prompt release,
\* never the client of another connection.
DescriptorInv ==
    /\ OneSocketPerNumber /\ FetchedIsOwn /\ StaysClosed
    /\ PromptRelease => HostDescriptorsOwn
=============================================================================
