---------------------------- MODULE SocksConnection ----------------------------
(***************************************************************************)
(* The life of SocksConnection objects: the handshake and the two relay    *)
(* loops on their threads, stopConnection() as those threads call it, and  *)
(* the destructor (SocksConnection.c++, SocksServer::stopConnection).      *)
(*                                                                         *)
(* A blocking read or write of the relay is two steps: fetching the        *)
(* descriptor number from the socket object, and the system call on that   *)
(* number, which by then may be closed or belong to another connection.    *)
(***************************************************************************)
EXTENDS ConnectionRefs

\* Descriptor f names an open socket of kind t.
Open(t, f) == f # NoFd /\ \E d \in Conns : sock[t][d] = f

\* The destructor of the connection that owns f has shut it down already.
Shut(t, f) == \E d \in Conns :
    /\ sock[t][d] = f
    /\ life[d] = (IF t = "host" THEN "closeHost" ELSE "closeRemote")

\* A call on f returns whatever the peer does; nothing is known of the calls
\* the Linux Kernel Library is left with once it is halted.
Unblocked(t, f) ==
    /\ t = "remote" => LklUp
    /\ ~Open(t, f) \/ Shut(t, f)

Writable(t, f) == Open(t, f) /\ ~Shut(t, f)

SetSocket(t, c, f) == sock' = [sock EXCEPT ![t][c] = f]
SetJoinable(t, c, b) == thread' = [thread EXCEPT ![t][c] = b]
SetFd(t, c, f) == fd' = [fd EXCEPT ![t][c] = f]
Goto(t, c, place) == pc' = [pc EXCEPT ![t][c] = place]

-----------------------------------------------------------------------------
(* handshake(): the host thread up to the relay.                             *)

\* read() and read_until() of the request: request data, or an exception.
ReadRequest(c) ==
    /\ pc["host"][c] = "request"
    /\ \/ Open("host", sock["host"][c]) /\ Goto("host", c, "open")
       \/ Goto("host", c, "catch")
    /\ UNCHANGED <<serverVars, queue, fate, life, sock, thread, fd>>

\* remoteSocket.connect() opens the socket first.
OpenRemote(c) ==
    /\ pc["host"][c] = "open"
    /\ \/ \E f \in Fds :
            /\ ~Open("remote", f)
            /\ SetSocket("remote", c, f)
            /\ Goto("host", c, "connect")
       \/ Goto("host", c, "refuse") /\ UNCHANGED sock
    /\ UNCHANGED <<serverVars, queue, fate, life, thread, fd>>

Connect(c) ==
    /\ pc["host"][c] = "connect"
    /\ \/ Open("remote", sock["remote"][c]) /\ Goto("host", c, "reply")
       \/ Goto("host", c, "refuse")
    /\ UNCHANGED <<serverVars, queue, fate, life, sock, thread, fd>>

\* Send the FAILED response; the handler rethrows whether or not that succeeds.
Refuse(c) ==
    /\ pc["host"][c] = "refuse"
    /\ Goto("host", c, "catch")
    /\ UNCHANGED <<serverVars, queue, fate, life, sock, thread, fd>>

\* Send the SUCCESS response.
Reply(c) ==
    /\ pc["host"][c] = "reply"
    /\ \/ Writable("host", sock["host"][c]) /\ Goto("host", c, "spawn")
       \/ Goto("host", c, "catch")
    /\ UNCHANGED <<serverVars, queue, fate, life, sock, thread, fd>>

\* Start the remote thread and enter receiveHost(); std::thread may throw.
Spawn(c) ==
    /\ pc["host"][c] = "spawn"
    /\ \/ /\ SetJoinable("remote", c, TRUE)
          /\ pc' = [pc EXCEPT !["host"][c] = "read", !["remote"][c] = "read"]
       \/ Goto("host", c, "catch") /\ UNCHANGED thread
    /\ UNCHANGED <<serverVars, queue, fate, life, sock, fd>>

\* The catch (...) of handshake(): shared_from_this() throws bad_weak_ptr when
\* the last reference is gone; nothing catches it, so the process terminates.
Catch(c) ==
    /\ pc["host"][c] = "catch"
    /\ IF life[c] = "alive"
       THEN Goto("host", c, "post") /\ UNCHANGED fate
       ELSE fate' = "badWeakPtr" /\ UNCHANGED pc
    /\ UNCHANGED <<serverVars, queue, life, sock, thread, fd>>

-----------------------------------------------------------------------------
(* receiveHost() and receiveRemote(): read from the thread's own socket,     *)
(* write to the other one.                                                   *)

FetchSource(t, c) ==
    /\ pc[t][c] = "read"
    /\ SetFd(t, c, sock[t][c])
    /\ Goto(t, c, "reading")
    /\ UNCHANGED <<serverVars, queue, fate, life, sock, thread>>

\* read_some(): data, end of file (asio::error::eof), or another error, after
\* which the thread ends without telling anybody.
Read(t, c) ==
    /\ pc[t][c] = "reading"
    /\ \/ Open(t, fd[t][c]) /\ Goto(t, c, "write")
       \/ Open(t, fd[t][c]) /\ Goto(t, c, "stop")
       \/ Goto(t, c, "failed")
    /\ SetFd(t, c, NoFd)
    /\ UNCHANGED <<serverVars, queue, fate, life, sock, thread>>

FetchSink(t, c) ==
    /\ pc[t][c] = "write"
    /\ SetFd(t, c, sock[Other(t)][c])
    /\ Goto(t, c, "writing")
    /\ UNCHANGED <<serverVars, queue, fate, life, sock, thread>>

\* asio::write(): all data written, or an error, which is never eof.
Write(t, c) ==
    /\ pc[t][c] = "writing"
    /\ \/ Writable(Other(t), fd[t][c]) /\ Goto(t, c, "read")
       \/ Goto(t, c, "failed")
    /\ SetFd(t, c, NoFd)
    /\ UNCHANGED <<serverVars, queue, fate, life, sock, thread>>

\* Faulty variant: end of file ends the relay and stops nothing.
StopForgotten(t, c) ==
    /\ pc[t][c] = "stop"
    /\ Goto(t, c, "done")
    /\ UNCHANGED <<serverVars, queue, fate, life, sock, thread, fd>>

\* shared_from_this() after eof; bad_weak_ptr is caught and ignored here.
Stop(t, c) ==
    /\ pc[t][c] = "stop"
    /\ Goto(t, c, IF life[c] = "alive" THEN "post" ELSE "done")
    /\ UNCHANGED <<serverVars, queue, fate, life, sock, thread, fd>>

\* server.stopConnection(): post the stop handler, which copies the reference.
\* Once the SocksServer is destroyed the call goes through a dangling
\* reference, and the behaviour is not followed further.
Post(t, c) ==
    /\ pc[t][c] = "post"
    /\ IF ServerAlive
       THEN /\ queue' = Append(queue, Item("stop", c, t))
            /\ Goto(t, c, "release")
            /\ UNCHANGED fate
       ELSE fate' = "danglingServer" /\ UNCHANGED <<queue, pc>>
    /\ UNCHANGED <<serverVars, life, sock, thread, fd>>

\* The temporary shared_ptr of the call goes out of scope; if it was the last
\* reference, this thread runs the destructor of its own connection.
Release(t, c) ==
    /\ pc[t][c] = "release"
    /\ UNCHANGED <<serverVars, queue, fate, sock, thread, fd>>
    /\ \/ Goto(t, c, "done") /\ Held(c)'
       \/ Goto(t, c, "destroying") /\ ~Held(c)'
    /\ life' = AfterDrop(c)

-----------------------------------------------------------------------------
(* ~SocksConnection().  Its lock on the mutex is never contended: no other   *)
(* function takes it.                                                        *)

\* Faulty variants: the socket is closed before it is shut down, or left alone.
ShutSocketLate(t, c, here, closing, next) ==
    /\ life[c] = here
    /\ SetSocket(t, c, NoFd)
    /\ life' = [life EXCEPT ![c] = IF sock[t][c] # NoFd THEN closing ELSE next]
    /\ UNCHANGED <<serverVars, queue, fate, thread, pc, fd>>

ShutSocketNot(t, c, here, closing, next) ==
    /\ life[c] = here
    /\ life' = [life EXCEPT ![c] = next]
    /\ UNCHANGED <<serverVars, queue, fate, sock, thread, pc, fd>>

ShutSocket(t, c, here, closing, next) ==
    /\ life[c] = here
    /\ life' = [life EXCEPT ![c] = IF sock[t][c] # NoFd THEN closing ELSE next]
    /\ UNCHANGED <<serverVars, queue, fate, sock, thread, pc, fd>>

\* Faulty variant: a failing close() leaves the socket open.
CloseSocketFails(t, c, here, next) ==
    /\ life[c] = here
    /\ life' = [life EXCEPT ![c] = next]
    /\ UNCHANGED <<serverVars, queue, fate, sock, thread, pc, fd>>

CloseSocket(t, c, here, next) ==
    /\ life[c] = here
    /\ SetSocket(t, c, NoFd)
    /\ life' = [life EXCEPT ![c] = next]
    /\ UNCHANGED <<serverVars, queue, fate, thread, pc, fd>>

CloseSockets(c) ==
    \/ ShutSocket("remote", c, "shutRemote", "closeRemote", "shutHost")
    \/ CloseSocket("remote", c, "closeRemote", "shutHost")
    \/ ShutSocket("host", c, "shutHost", "closeHost", "joinHost")
    \/ CloseSocket("host", c, "closeHost", "joinHost")

\* Faulty variant: the thread is detached, not joined.
JoinDetach(t, c, here, next) ==
    /\ life[c] = here
    /\ SetJoinable(t, c, FALSE)
    /\ life' = [life EXCEPT ![c] = next]
    /\ UNCHANGED <<serverVars, queue, fate, sock, pc, fd>>

\* join(): skipped when not joinable; joining itself throws, and the catch (...)
\* of the destructor skips what follows; otherwise wait for the thread to end.
Join(t, c, here, next) ==
    /\ life[c] = here
    /\ \/ /\ ~thread[t][c]
          /\ life' = [life EXCEPT ![c] = next]
          /\ UNCHANGED thread
       \/ /\ thread[t][c] /\ pc[t][c] = "destroying"
          /\ life' = [life EXCEPT ![c] = "members"]
          /\ UNCHANGED thread
       \/ /\ thread[t][c] /\ pc[t][c] \in Ended
          /\ SetJoinable(t, c, FALSE)
          /\ life' = [life EXCEPT ![c] = next]
    /\ UNCHANGED <<serverVars, queue, fate, sock, pc, fd>>

\* Faulty variant: the remote thread is forgotten.
JoinHostOnly(c) == Join("host", c, "joinHost", "members")

JoinThreads(c) ==
    \/ Join("host", c, "joinHost", "joinRemote")
    \/ Join("remote", c, "joinRemote", "members")

\* Member destructors: ~thread() of a joinable thread terminates the process;
\* the socket objects close what is still open.
DestroyMembers(c) ==
    /\ life[c] = "members"
    /\ IF \E t \in Threads : thread[t][c]
       THEN fate' = "joinableThread" /\ UNCHANGED <<life, sock>>
       ELSE /\ sock' = [t \in Threads |-> [sock[t] EXCEPT ![c] = NoFd]]
            /\ life' = [life EXCEPT ![c] = "free"]
            /\ UNCHANGED fate
    /\ UNCHANGED <<serverVars, queue, thread, pc, fd>>

-----------------------------------------------------------------------------
Handshake(c) ==
    \/ ReadRequest(c) \/ OpenRemote(c) \/ Connect(c) \/ Refuse(c)
    \/ Reply(c) \/ Spawn(c) \/ Catch(c)

Relay(t, c) ==
    \/ FetchSource(t, c) \/ Read(t, c) \/ FetchSink(t, c) \/ Write(t, c)
    \/ Stop(t, c) \/ Post(t, c) \/ Release(t, c)

Destructor(c) == CloseSockets(c) \/ JoinThreads(c) \/ DestroyMembers(c)

\* The steps of a thread that do not wait for a peer: reading the request and
\* relaying do, unless the descriptor in use is closed or shut down.
ThreadRuns(t, c) ==
    /\ pc[t][c] = "request" => Unblocked("host", sock["host"][c])
    /\ pc[t][c] = "reading" => Unblocked(t, fd[t][c])
    /\ pc[t][c] = "writing" => Unblocked(Other(t), fd[t][c])
    /\ Relay(t, c) \/ (t = "host" /\ Handshake(c))

ConnectionNext ==
    \E c \in Conns :
        \/ Handshake(c)
        \/ Destructor(c)
        \/ \E t \in Threads : Relay(t, c)
=============================================================================
