------------------------------ MODULE ReactorOps ------------------------------
(***************************************************************************)
(* The rest of what the socket service of lklsocks offers: datagrams,      *)
(* receiving with flags, waiting for readiness (null_buffers), starting    *)
(* asynchronous operations, and the non_blocking_* functions, which one    *)
(* attempt of such an operation is made of.  The proxy itself uses none of *)
(* them.                                                                   *)
(*                                                                         *)
(* An asynchronous operation is handed to Boost's reactor, to which the    *)
(* descriptor is unknown since its registration is commented out; what     *)
(* stays behind in the socket is modelled, the completion is Boost's.  An  *)
(* attempt that is interrupted is repeated at once and not seen here.      *)
(***************************************************************************)
EXTENDS SocketOps

-----------------------------------------------------------------------------
(* Datagrams, and receiving with flags.                                      *)

BeginReceiveFrom(t, o) == "datagram" \in impl[o].state /\ Begin(t, "recvfrom", o, o, FALSE)
BeginSendTo(t, o) == "datagram" \in impl[o].state /\ Begin(t, "sendto", o, o, FALSE)
BeginReceiveWithFlags(t, o) == Begin(t, "recvmsg", o, o, FALSE)

\* sync_recvfrom() calls recvfrom(): any number of bytes is an answer.
TryRecvFrom(t) ==
    /\ At(t, "recvfrom", "try")
    /\ \E r \in Answers :
          /\ lkl_recvmsg(call[t].s, FALSE, r)
          /\ IF r.n >= 0 THEN Leave(t, "ok") ELSE Refused(t, r)
    /\ UNCHANGED impl

\* sync_recvmsg() calls recvmsg(); on a stream it does not tell the end either.
TryRecvMsg(t) ==
    /\ At(t, "recvmsg", "try")
    /\ \E r \in Answers :
          /\ lkl_recvmsg(call[t].s, FALSE, r)
          /\ IF r.n >= 0 THEN Leave(t, "ok") ELSE Refused(t, r)
    /\ UNCHANGED impl

\* sync_sendto() calls sendto().
TrySendTo(t) ==
    /\ At(t, "sendto", "try")
    /\ \E r \in Answers :
          /\ lkl_sendmsg(call[t].s, r)
          /\ IF r.n >= 0 THEN Leave(t, "ok") ELSE Refused(t, r)
    /\ UNCHANGED impl

-----------------------------------------------------------------------------
(* Waiting for readiness, without transferring anything (null_buffers).      *)

BeginAwait(t, op, o) ==
    /\ Idle(t)
    /\ IF impl[o].socket = NoFd THEN Leave(t, "badDescriptor")
                                ELSE Enter(t, op, o, o, "await", FALSE)
    /\ UNCHANGED <<kernelVars, impl>>

AwaitSend(t, o) == BeginAwait(t, "awaitSend", o)
AwaitReceive(t, o) == BeginAwait(t, "awaitReceive", o)

\* poll_read() and poll_write() with the state of the socket: with the user's
\* non-blocking mode the timeout is 0 and no answer is would_block.
Await(t, op, ready) ==
    /\ At(t, op, "await")
    /\ \E r \in Answers :
          \/ /\ call[t].user /\ lkl_poll_now(call[t].s, ready, r)
             /\ Leave(t, IF r.n = 0 THEN "wouldBlock" ELSE "ok")
          \/ /\ ~call[t].user /\ lkl_poll(call[t].s, ready, r)
             /\ Leave(t, IF r.n < 0 THEN ErrorCode(r.err) ELSE "ok")
    /\ UNCHANGED impl

AwaitReady(t) ==
    \/ Await(t, "awaitReceive", Readable(call[t].s))
    \/ Await(t, "awaitSend", Sendable(call[t].s))

-----------------------------------------------------------------------------
(* Starting asynchronous operations: what is left once Boost's reactor has   *)
(* them is the internal non-blocking mode, and the attempt to connect.       *)

AsyncSend(t, o, empty) == ~(empty /\ "stream" \in impl[o].state) /\ StartOp(t, o)
AsyncReceive(t, o, empty) == ~(empty /\ "stream" \in impl[o].state) /\ StartOp(t, o)
AsyncReceiveWithFlags(t, o) == StartOp(t, o)
AsyncSendTo(t, o) == "datagram" \in impl[o].state /\ StartOp(t, o)
AsyncReceiveFrom(t, o) == "datagram" \in impl[o].state /\ StartOp(t, o)
AsyncAccept(t, o, peerOpen) == ~peerOpen /\ StartOp(t, o)

\* Faulty variant: the socket is made non-blocking and does not know it.
AsyncConnectUnflagged(t, o) ==
    /\ Idle(t) /\ ~Busy(o)
    /\ \E f \in Fds :
          /\ f = impl[o].socket
          /\ nonblock' = [nonblock EXCEPT ![f] = TRUE]
          /\ \/ link[f] \in {"fresh", "refused"} /\ link' = [link EXCEPT ![f] = "connecting"]
             \/ UNCHANGED link
    /\ UNCHANGED <<linger, inbox, fin, impl, call>>

\* start_connect_op() makes the socket non-blocking and calls connect() itself.
AsyncConnect(t, o) ==
    /\ Idle(t) /\ ~Busy(o)
    /\ \E f \in Fds :
          /\ f = impl[o].socket
          /\ \/ NonBlocking \cap impl[o].state # {} /\ UNCHANGED <<nonblock, impl>>
             \/ /\ NonBlocking \cap impl[o].state = {}
                /\ nonblock' = [nonblock EXCEPT ![f] = TRUE]
                /\ impl' = [impl EXCEPT ![o].state = @ \cup {"internal"}]
          /\ \/ link[f] \in {"fresh", "refused"} /\ link' = [link EXCEPT ![f] = "connecting"]
             \/ UNCHANGED link
    /\ UNCHANGED <<linger, inbox, fin, call>>

-----------------------------------------------------------------------------
(* One attempt of a pending operation.  "again" says that it has to wait for *)
(* readiness once more; every other result completes it.                     *)

Performed(t, op, o, ec) ==
    call' = [call EXCEPT ![t] = [Returned(ec) EXCEPT !.op = op, !.s = impl[o].socket,
                                                     !.user = "user" \in impl[o].state]]

\* Faulty variant: any failure puts the operation back to wait.
AttemptedLoosely(t, op, o, r) ==
    Performed(t, op, o, IF r.n < 0 THEN "again" ELSE "ok")

\* The end of the non_blocking_ functions that transfer data.
Attempted(t, op, o, r) ==
    Performed(t, op, o, IF r.err = "wouldBlock" THEN "again" ELSE ErrorCode(r.err))

NonBlockingRecv(t, o) ==
    /\ Idle(t)
    /\ \E f \in Fds, r \in Answers :
          /\ f = impl[o].socket
          /\ lkl_recvmsg(f, FALSE, r)
          /\ IF r.n = 0 /\ "stream" \in impl[o].state
             THEN Performed(t, "non_blocking_recv", o, "eof")
             ELSE Attempted(t, "non_blocking_recv", o, r)
    /\ UNCHANGED impl

NonBlockingRecvFrom(t, o) ==
    /\ Idle(t) /\ "datagram" \in impl[o].state
    /\ \E f \in Fds, r \in Answers :
          /\ f = impl[o].socket
          /\ lkl_recvmsg(f, FALSE, r)
          /\ Attempted(t, "non_blocking_recvfrom", o, r)
    /\ UNCHANGED impl

NonBlockingRecvMsg(t, o) ==
    /\ Idle(t)
    /\ \E f \in Fds, r \in Answers :
          /\ f = impl[o].socket
          /\ lkl_recvmsg(f, FALSE, r)
          /\ Attempted(t, "non_blocking_recvmsg", o, r)
    /\ UNCHANGED impl

NonBlockingSend(t, o) ==
    /\ Idle(t)
    /\ \E f \in Fds, r \in Answers :
          /\ f = impl[o].socket
          /\ lkl_sendmsg(f, r)
          /\ Attempted(t, "non_blocking_send", o, r)
    /\ UNCHANGED impl

NonBlockingSendTo(t, o) ==
    /\ Idle(t) /\ "datagram" \in impl[o].state
    /\ \E f \in Fds, r \in Answers :
          /\ f = impl[o].socket
          /\ lkl_sendmsg(f, r)
          /\ Attempted(t, "non_blocking_sendto", o, r)
    /\ UNCHANGED impl

\* A client that has gone again is not an answer; the new descriptor is the caller's.
NonBlockingAccept(t, o) ==
    /\ Idle(t)
    /\ \E f \in Fds, g \in Fds, r \in Answers \cup {Success(h) : h \in Fds} :
          /\ f = impl[o].socket
          /\ lkl_accept(f, g, r)
          /\ Performed(t, "non_blocking_accept", o,
                       IF r.err = "aborted" \/ (r.err = "wouldBlock" /\ "user" \notin impl[o].state)
                       THEN "again" ELSE ErrorCode(r.err))
    /\ UNCHANGED impl

\* ... who closes it.
CallerCloses(f) ==
    /\ link[f] # "closed" /\ \A o \in Sockets : impl[o].socket # f
    /\ Reset(f, "closed", FALSE, FALSE)
    /\ UNCHANGED <<impl, call>>

\* Faulty variant: writable means connected.
NonBlockingConnectTrusting(t, o) ==
    /\ Idle(t)
    /\ \E f \in Fds, ready \in Answers :
          /\ f = impl[o].socket /\ link[f] \in {"connecting", "connected", "refused"}
          /\ lkl_poll_now(f, Sendable(f), ready)
          /\ Performed(t, "non_blocking_connect", o, IF ready.n = 0 THEN "again" ELSE "ok")
    /\ UNCHANGED impl

\* Readiness may be spurious, so it polls once more; then it asks for SO_ERROR.  The
\* reactor runs it for a connect that was begun, the states of the link named here, and
\* for one thread at a time.  A poll that does not wait is assumed not to fail: the code
\* would take a failed one for readiness.
NonBlockingConnect(t, o) ==
    /\ Idle(t)
    /\ \E f \in Fds, ready \in Answers, r \in Answers, pending \in {"ok", "refused"} :
          /\ f = impl[o].socket /\ link[f] \in {"connecting", "connected", "refused"}
          /\ lkl_poll_now(f, Sendable(f), ready)
          /\ IF ready.n = 0 THEN Performed(t, "non_blocking_connect", o, "again")
             ELSE /\ lkl_so_error(f, r, pending)
                  /\ Performed(t, "non_blocking_connect", o,
                               IF r.n = 0 THEN pending ELSE ErrorCode(r.err))
    /\ UNCHANGED impl

-----------------------------------------------------------------------------
ReactorStep(t) == TryRecvFrom(t) \/ TryRecvMsg(t) \/ TrySendTo(t) \/ AwaitReady(t)

ReactorCall(t) ==
    \E o \in Sockets :
        \/ BeginReceiveFrom(t, o) \/ BeginSendTo(t, o) \/ BeginReceiveWithFlags(t, o)
        \/ AwaitSend(t, o) \/ AwaitReceive(t, o)
        \/ \E b \in BOOLEAN : AsyncSend(t, o, b) \/ AsyncReceive(t, o, b) \/ AsyncAccept(t, o, b)
        \/ AsyncReceiveWithFlags(t, o) \/ AsyncSendTo(t, o) \/ AsyncReceiveFrom(t, o)
        \/ AsyncConnect(t, o)
        \/ NonBlockingRecv(t, o) \/ NonBlockingRecvFrom(t, o) \/ NonBlockingRecvMsg(t, o)
        \/ NonBlockingSend(t, o) \/ NonBlockingSendTo(t, o)
        \/ NonBlockingAccept(t, o) \/ NonBlockingConnect(t, o)

ReactorNext ==
    \/ Next
    \/ \E f \in Fds : CallerCloses(f)
    \/ \E t \in Threads : ReactorStep(t) \/ ReactorCall(t)

ReactorSpec == Init /\ [][ReactorNext]_vars
=============================================================================
