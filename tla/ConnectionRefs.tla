---------------------------- MODULE ConnectionRefs ----------------------------
(***************************************************************************)
(* The state of lklsocks that the server and its connections share, and    *)
(* the shared_ptr<SocksConnection> references that keep a connection       *)
(* object alive (SocksConnection.h, SocksServer.h).                        *)
(*                                                                         *)
(* A connection has a host socket (towards the SOCKS client, a descriptor  *)
(* of the host kernel), a remote socket (towards the destination, a        *)
(* descriptor of the Linux Kernel Library), and two threads: the host      *)
(* thread runs handshake() and then receiveHost(), the remote thread runs  *)
(* receiveRemote().  The main thread runs the io_service and is the only   *)
(* one that accepts clients.                                               *)
(***************************************************************************)
EXTENDS Naturals, Sequences

CONSTANTS Conns,         \* the storage of SocksConnection objects, reused when free
          Fds,           \* descriptor numbers, the same set for both kernels
          NoConn, NoFd,  \* "no connection", "invalid_socket"
          PromptRelease, \* TRUE: a thread inside stopConnection() has dropped
                         \* its own reference within the 100 ms of the handler
          MaySignal      \* TRUE: the process may receive SIGINT/TERM/QUIT

ASSUME ConstantsAssumption ==
    /\ NoConn \notin Conns
    /\ NoFd \notin Fds
    /\ PromptRelease \in BOOLEAN
    /\ MaySignal \in BOOLEAN

Threads == {"host", "remote"}
Other(t) == IF t = "host" THEN "remote" ELSE "host"

VARIABLES
    connections,  \* SocksServer::connections, as a set
    acceptor,     \* the connection the pending async_accept will fill, or NoConn
    queue,        \* the io_service's queue of ready handlers
    main,         \* where the main thread is
    stopping,     \* the stop handler the main thread is running, or NoItem
    signalled,    \* a termination signal has been delivered
    fate,         \* "running", or how the process ended
    life,         \* per object: free storage, alive, or a stage of its destructor
    sock,         \* sock[t][c]: hostSocket and remoteSocket (impl.socket_)
    thread,       \* thread[t][c]: std::thread::joinable() of the two threads
    pc,           \* pc[t][c]: where the thread is
    fd            \* fd[t][c]: the descriptor number its current call was given

serverVars == <<connections, acceptor, main, stopping, signalled>>
vars == <<serverVars, queue, fate, life, sock, thread, pc, fd>>

-----------------------------------------------------------------------------
(* Handlers in the io_service's queue.  "accept" and "acceptError" are the   *)
(* completed async_accept, "start" the lambda posted by handleAccept, "stop" *)
(* the lambda posted by stopConnection; all four hold a reference.  NoItem is    *)
(* the completed wait for a signal and stands for "no handler" elsewhere.    *)

Item(kind, c, t) == [kind |-> kind, conn |-> c, by |-> t]
NoItem == Item("signal", NoConn, "main")
Kinds == {"accept", "acceptError", "start", "stop"}
Items == [kind : Kinds, conn : Conns, by : Threads \cup {"main"}] \cup {NoItem}

Destruction == {"shutRemote", "closeRemote", "shutHost", "closeHost",
                "joinHost", "joinRemote", "members"}

Ended == {"done", "failed"}
Relaying == {"read", "reading", "write", "writing", "stop"}
Handshaking == {"request", "open", "connect", "reply", "refuse", "spawn", "catch"}
HasRef == {"post", "release"}
Places == {"none", "destroying"} \cup Handshaking \cup Relaying \cup HasRef \cup Ended

\* Where a shared_ptr to connection c is held.
Queued(c) == \E i \in 1..Len(queue) : queue[i].conn = c
ThreadHolds(c) == \E t \in Threads : pc[t][c] \in HasRef
Held(c) ==
    \/ c \in connections
    \/ c = acceptor
    \/ c = stopping.conn
    \/ Queued(c)
    \/ ThreadHolds(c)

\* The destructor of c is running; it runs on the thread that dropped the last
\* reference: the thread whose pc is "destroying", otherwise the main thread.
Destroying(c) == life[c] \in Destruction
OnOwnThread(c) == \E t \in Threads : pc[t][c] = "destroying"
MainBusy == \E c \in Conns : Destroying(c) /\ ~OnOwnThread(c)

\* Faulty variant: the object is deleted whoever else still refers to it.
AfterDropAlways(c) == [life EXCEPT ![c] = "shutRemote"]

\* life after the reference to c given up by the step is gone; c is a bound
\* variable of the action, never a state expression.
AfterDrop(c) == IF Held(c)' THEN life ELSE [life EXCEPT ![c] = "shutRemote"]

\* Main-thread stages, in order.  The SocksServer object is destroyed at the
\* end of "clear", the Linux Kernel Library is halted at the end of "halt".
ServerAlive == main \in {"run", "sleep", "clear"}
LklUp == main # "drain"
=============================================================================
