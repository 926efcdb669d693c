----------------------------- MODULE SocksServer -----------------------------
(***************************************************************************)
(* The main thread of lklsocks: SocksServer's accept loop and the handlers *)
(* the io_service runs for it, one after the other in the order they were  *)
(* queued (SocksServer.c++), the termination signal and what main() does   *)
(* after io_service::run() returns (lklsocks.c++): destroy the server, halt*)
(* the Linux Kernel Library, and destroy the io_service with the handlers  *)
(* left in it.                                                             *)
(*                                                                         *)
(* The main thread takes no step of its own while it runs the destructor   *)
(* of a connection whose last reference it dropped (MainBusy).             *)
(***************************************************************************)
EXTENDS SocksConnection

Stages == {"run", "sleep", "clear", "halt", "drain"}
Fates == {"running", "exited", "threadLimit", "badWeakPtr", "danglingServer",
          "joinableThread"}

\* startAccept(): an object made in free storage waits for the next client; the
\* handler that calls it releases the connections of dropped when it returns.
\* With no storage left in Conns, the bound of the model, it is put off.
StartAccept(dropped) ==
    \/ \E c \in Conns :
          /\ life[c] = "free"
          /\ acceptor' = c
          /\ pc' = [t \in Threads |-> [pc[t] EXCEPT ![c] = "none"]]
          /\ life' = [d \in Conns |-> IF d = c THEN "alive"
                                     ELSE IF d \in dropped THEN "shutRemote"
                                     ELSE life[d]]
    \/ /\ \A c \in Conns : life[c] # "free"
       /\ acceptor' = NoConn
       /\ life' = [d \in Conns |-> IF d \in dropped THEN "shutRemote" ELSE life[d]]
       /\ UNCHANGED pc

Init ==
    /\ connections = {}
    /\ acceptor \in Conns
    /\ queue = <<>>
    /\ main = "run"
    /\ stopping = NoItem
    /\ signalled = FALSE
    /\ fate = "running"
    /\ life = [c \in Conns |-> IF c = acceptor THEN "alive" ELSE "free"]
    /\ sock = [t \in Threads |-> [c \in Conns |-> NoFd]]
    /\ thread = [t \in Threads |-> [c \in Conns |-> FALSE]]
    /\ pc = [t \in Threads |-> [c \in Conns |-> "none"]]
    /\ fd = [t \in Threads |-> [c \in Conns |-> NoFd]]

\* The startAccept() that was put off, once storage is free again.
ResumeAccept ==
    /\ main = "run" /\ ~MainBusy
    /\ acceptor = NoConn
    /\ \A i \in 1..Len(queue) : queue[i].kind \notin {"accept", "acceptError"}
    /\ \E c \in Conns : life[c] = "free"
    /\ StartAccept({})
    /\ UNCHANGED <<connections, queue, main, stopping, signalled, fate, sock, thread, fd>>

-----------------------------------------------------------------------------
(* What the reactor hands to the io_service: a completed accept, a signal.   *)

AcceptDone ==
    /\ main = "run" /\ ~MainBusy
    /\ acceptor # NoConn
    /\ acceptor' = NoConn
    /\ \/ /\ \E f \in Fds : /\ ~Open("host", f)
                            /\ SetSocket("host", acceptor, f)
          /\ queue' = Append(queue, Item("accept", acceptor, "main"))
       \/ /\ queue' = Append(queue, Item("acceptError", acceptor, "main"))
          /\ UNCHANGED sock
    /\ UNCHANGED <<connections, main, stopping, signalled, fate, life, thread, pc, fd>>

Signal ==
    /\ MaySignal /\ ~signalled
    /\ main = "run" /\ ~MainBusy
    /\ signalled' = TRUE
    /\ queue' = Append(queue, NoItem)
    /\ UNCHANGED <<connections, acceptor, main, stopping, fate, life, sock, thread, pc, fd>>

-----------------------------------------------------------------------------
(* The handlers io_service::run() calls.                                     *)

\* The handler at the head of the queue, about to be run.
Ready(kind) ==
    /\ main = "run" /\ ~MainBusy
    /\ queue # <<>>
    /\ Head(queue).kind = kind

\* handleAccept() of a client: post the start of the connection, accept again.
HandleAccept ==
    /\ Ready("accept")
    /\ queue' = Append(Tail(queue), Item("start", Head(queue).conn, "main"))
    /\ StartAccept({})
    /\ UNCHANGED <<connections, main, stopping, signalled, fate, sock, thread, fd>>

\* handleAccept() with an error: the connection goes with the handler, which is
\* released after startAccept() has made the next one.
HandleAcceptError ==
    /\ Ready("acceptError")
    /\ queue' = Tail(queue)
    /\ StartAccept({Head(queue).conn})
    /\ UNCHANGED <<connections, main, stopping, signalled, fate, sock, thread, fd>>

\* Faulty variant: the connection is started without being listed.
RunStartUnlisted ==
    /\ Ready("start")
    /\ queue' = Tail(queue)
    /\ UNCHANGED <<connections, acceptor, main, stopping, signalled, fate, sock, fd>>
    /\ \E c \in Conns :
          /\ c = Head(queue).conn
          /\ SetJoinable("host", c, TRUE)
          /\ Goto("host", c, "request")
          /\ life' = AfterDrop(c)

\* The posted lambda: list the connection and start its host thread; when the
\* thread cannot be created the exception leaves io_service::run() and main().
RunStart ==
    /\ Ready("start")
    /\ LET c == Head(queue).conn IN
          /\ connections' = connections \cup {c}
          /\ \/ /\ SetJoinable("host", c, TRUE)
                /\ Goto("host", c, "request")
                /\ UNCHANGED fate
             \/ fate' = "threadLimit" /\ UNCHANGED <<thread, pc>>
    /\ queue' = Tail(queue)
    /\ UNCHANGED <<acceptor, main, stopping, signalled, life, sock, fd>>

\* The stop handler up to its sleep of 100 ms; it holds its reference meanwhile.
RunStop ==
    /\ Ready("stop")
    /\ stopping' = Head(queue)
    /\ queue' = Tail(queue)
    /\ main' = "sleep"
    /\ UNCHANGED <<connections, acceptor, signalled, fate, life, sock, thread, pc, fd>>

\* Faulty variant: the handler does not sleep.
RemoveAtOnce ==
    /\ main = "sleep"
    /\ connections' = connections \ {stopping.conn}
    /\ stopping' = NoItem
    /\ main' = "run"
    /\ UNCHANGED <<acceptor, queue, signalled, fate, sock, thread, pc, fd>>
    /\ \E c \in Conns : c = stopping.conn /\ life' = AfterDrop(c)

\* Its rest: remove the connection from the list, release the handler.
Remove ==
    /\ main = "sleep"
    /\ PromptRelease => pc[stopping.by][stopping.conn] # "release"
    /\ connections' = connections \ {stopping.conn}
    /\ stopping' = NoItem
    /\ main' = "run"
    /\ UNCHANGED <<acceptor, queue, signalled, fate, sock, thread, pc, fd>>
    /\ \E c \in Conns : c = stopping.conn /\ life' = AfterDrop(c)

-----------------------------------------------------------------------------
(* Termination.                                                              *)

\* Faulty variants: the pending accept is cancelled without looking whether there
\* is one; the handler does not stop the io_service.
RunSignalBlind ==
    /\ Ready("signal")
    /\ main' = "clear"
    /\ acceptor' = NoConn
    /\ queue' = Append(Tail(queue), Item("acceptError", acceptor, "main"))
    /\ UNCHANGED <<connections, stopping, signalled, fate, life, sock, thread, pc, fd>>

RunSignalIgnored ==
    /\ Ready("signal")
    /\ queue' = Tail(queue)
    /\ UNCHANGED <<connections, acceptor, main, stopping, signalled, fate, life,
                   sock, thread, pc, fd>>

\* io_service::stop(); run() returns, and ~SocksServer() cancels the pending
\* accept, whose handler is queued and will not be run.
RunSignal ==
    /\ Ready("signal")
    /\ main' = "clear"
    /\ acceptor' = NoConn
    /\ queue' = IF acceptor = NoConn THEN Tail(queue)
                ELSE Append(Tail(queue), Item("acceptError", acceptor, "main"))
    /\ UNCHANGED <<connections, stopping, signalled, fate, life, sock, thread, pc, fd>>

\* The list of connections is destroyed with the server.
ClearOne ==
    /\ main = "clear" /\ ~MainBusy
    /\ \E c \in connections :
          /\ connections' = connections \ {c}
          /\ UNCHANGED <<acceptor, queue, main, stopping, signalled, fate, sock, thread, pc, fd>>
          /\ life' = AfterDrop(c)

\* Faulty variant: the list outlives the server.
ClearDoneEarly ==
    /\ main = "clear" /\ ~MainBusy
    /\ main' = "halt"
    /\ UNCHANGED <<connections, acceptor, queue, stopping, signalled, fate, life,
                   sock, thread, pc, fd>>

ClearDone ==
    /\ main = "clear" /\ ~MainBusy
    /\ connections = {}
    /\ main' = "halt"
    /\ UNCHANGED <<connections, acceptor, queue, stopping, signalled, fate, life,
                   sock, thread, pc, fd>>

\* halt_lkl().
Halt ==
    /\ main = "halt"
    /\ main' = "drain"
    /\ UNCHANGED <<connections, acceptor, queue, stopping, signalled, fate, life,
                   sock, thread, pc, fd>>

\* ~io_service() destroys the handlers that were never run.
DrainOne ==
    /\ main = "drain" /\ ~MainBusy
    /\ queue # <<>>
    /\ queue' = Tail(queue)
    /\ UNCHANGED <<connections, acceptor, main, stopping, signalled, fate, sock, thread, pc, fd>>
    /\ \/ Head(queue).conn = NoConn /\ UNCHANGED life
       \/ \E c \in Conns : c = Head(queue).conn /\ life' = AfterDrop(c)

\* main() returns; threads that still run end with the process.
Exit ==
    /\ main = "drain" /\ ~MainBusy
    /\ queue = <<>>
    /\ fate' = "exited"
    /\ UNCHANGED <<serverVars, queue, life, sock, thread, pc, fd>>

-----------------------------------------------------------------------------
\* The steps of the main thread that wait for nothing outside the process.
MainStep ==
    \/ HandleAccept \/ HandleAcceptError \/ RunStart \/ RunStop \/ Remove
    \/ RunSignal \/ ClearOne \/ ClearDone \/ Halt \/ DrainOne \/ Exit

\* After the process has ended nothing happens.
Finished == fate # "running" /\ UNCHANGED vars

Running == fate = "running"

Next ==
    \/ Running /\ (AcceptDone \/ ResumeAccept \/ Signal \/ MainStep \/ ConnectionNext)
    \/ Finished

Spec == Init /\ [][Next]_vars

\* The operating system runs every thread that can run: the main thread, a
\* destructor (on whichever thread), and the threads of the connections.
FairSpec ==
    /\ Spec
    /\ WF_vars(Running /\ MainStep)
    /\ \A c \in Conns :
          /\ WF_vars(Running /\ Destructor(c))
          /\ \A t \in Threads : WF_vars(Running /\ ThreadRuns(t, c))
=============================================================================
