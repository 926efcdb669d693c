------------------------------ MODULE SocketOps ------------------------------
(***************************************************************************)
(* The blocking socket of lklsocks on top of the Linux Kernel Library: the *)
(* operations of reactive_socket_service and socket_ops, copied from       *)
(* Boost.Asio with every system call replaced by its lkl_ counterpart.     *)
(*                                                                         *)
(* A socket object is a descriptor number and a set of flags.  The calls   *)
(* that wait, recv, send, connect and accept, take both by value and run   *)
(* one kernel call per step, so the object may be closed and its number    *)
(* given out again between two of their steps.  The calls that change an   *)
(* object exclude each other on it, as Asio requires of its users; recv    *)
(* and send run on any thread, as in SocksConnection.                      *)
(* enable_connection_aborted is never set.                                 *)
(***************************************************************************)
EXTENDS LklKernel

CONSTANTS Sockets,   \* the socket objects
          NoSocket,  \* no object
          Threads,   \* the threads that use them
          Kinds      \* the kinds of socket they open

ASSUME KindsAssumption == Kinds \subseteq {"stream", "datagram"}

Flags == {"user", "internal", "linger", "dup", "stream", "datagram"}
NonBlocking == {"user", "internal"}
Receiving == {"recv", "recvfrom", "recvmsg", "awaitReceive"}
Sending == {"send", "sendto", "awaitSend"}
Waiting == {"connect", "accept"} \cup Receiving \cup Sending
Closing == {"close", "destroy", "moveAssign"}
Changing == {"connect", "accept"} \cup Closing
NonBlockingOps == {"non_blocking_recv", "non_blocking_recvfrom", "non_blocking_recvmsg",
                   "non_blocking_send", "non_blocking_sendto",
                   "non_blocking_accept", "non_blocking_connect"}  \* of ReactorOps
Steps == {"try", "poll", "await", "soError", "linger", "close", "unblock", "reclose",
          "forget", "returned"}
Codes == (Errors \ {"unmapped"}) \cup
         {"ok", "silent", "eof", "refused", "alreadyOpen", "noBufferSpace"}

VARIABLES impl,  \* impl[o].socket and impl[o].state
          call   \* call[t]: the call thread t is in, or the result of its last

vars == <<kernelVars, impl, call>>

Constructed == [socket |-> NoFd, state |-> {}]

\* Faulty variant: numbers that are not known are handed on as they are.
ErrorCodeRaw(err) == err

\* error_wrapper() after lkl_set_errno(): errno was cleared before the call and stays
\* so when the number is not known.  "silent" is the error_code 0 of a failed call.
ErrorCode(err) == IF err = "unmapped" THEN "silent" ELSE err

\* What is left of a call that returned.
Returned(ec) == [op |-> "none", obj |-> NoSocket, peer |-> NoSocket, s |-> NoFd,
                 user |-> FALSE, stream |-> FALSE, empty |-> FALSE, at |-> "returned", ec |-> ec]

Init ==
    /\ KernelInit
    /\ impl = [o \in Sockets |-> Constructed]
    /\ call = [t \in Threads |-> Returned("ok")]

Idle(t) == call[t].at = "returned"
At(t, op, step) == call[t].op = op /\ call[t].at = step

\* Object o is the business of a call that changes it.
Busy(o) == \E t \in Threads : call[t].op \in Changing /\ o \in {call[t].obj, call[t].peer}

\* Thread t calls op on o, with p as the other object.
Enter(t, op, o, p, step, empty) ==
    call' = [call EXCEPT ![t] =
               [op |-> op, obj |-> o, peer |-> p, s |-> impl[o].socket,
                user |-> "user" \in impl[o].state, stream |-> "stream" \in impl[o].state,
                empty |-> empty, at |-> step, ec |-> "ok"]]

Leave(t, ec) == call' = [call EXCEPT ![t] = Returned(ec)]
GoOn(t, step) == call' = [call EXCEPT ![t].at = step]

Answers == {Success(0), Success(1)} \cup {Failure(e) : e \in Errors}

-----------------------------------------------------------------------------
(* Opening, assigning, moving; the modes of a socket.                        *)

\* do_open().
Open(t, o) ==
    /\ Idle(t) /\ ~Busy(o)
    /\ \/ /\ impl[o].socket # NoFd
          /\ Leave(t, "alreadyOpen")
          /\ UNCHANGED <<kernelVars, impl>>
       \/ /\ impl[o].socket = NoFd
          /\ \E r \in Answers :
                /\ Trouble(r)
                /\ Leave(t, ErrorCode(r.err))
          /\ UNCHANGED <<kernelVars, impl>>
       \/ /\ impl[o].socket = NoFd
          /\ \E f \in Fds, kind \in Kinds :
                /\ link[f] = "closed"
                /\ Reset(f, IF kind = "stream" THEN "fresh" ELSE "datagram", FALSE, FALSE)
                /\ impl' = [impl EXCEPT ![o] = [socket |-> f, state |-> {kind}]]
          /\ Leave(t, "ok")

\* do_assign() of a descriptor made elsewhere, with whatever mode and linger option.
Assign(t, o) ==
    /\ Idle(t) /\ ~Busy(o)
    /\ impl[o].socket = NoFd
    /\ \E f \in Fds, mode \in BOOLEAN, lingers \in BOOLEAN, kind \in Kinds :
          /\ link[f] = "closed"
          /\ Reset(f, IF kind = "stream" THEN "connected" ELSE "datagram", mode, lingers)
          /\ impl' = [impl EXCEPT ![o] = [socket |-> f, state |-> {kind, "dup"}]]
    /\ UNCHANGED call

\* Faulty variant: the moved-from object keeps its descriptor.
MoveConstructKeeps(t, o, p) ==
    /\ Idle(t) /\ ~Busy(o) /\ ~Busy(p) /\ o # p
    /\ impl[o] = Constructed
    /\ impl' = [impl EXCEPT ![o] = impl[p]]
    /\ UNCHANGED <<kernelVars, call>>

\* base_move_construct() of the new object o.
MoveConstruct(t, o, p) ==
    /\ Idle(t) /\ ~Busy(o) /\ ~Busy(p) /\ o # p
    /\ impl[o] = Constructed
    /\ impl' = [impl EXCEPT ![o] = impl[p], ![p] = Constructed]
    /\ UNCHANGED <<kernelVars, call>>

\* listen(), after bind().
Listen(t, o) ==
    /\ Idle(t) /\ ~Busy(o)
    /\ \E f \in Fds :
          /\ f = impl[o].socket /\ link[f] = "fresh"
          /\ link' = [link EXCEPT ![f] = "listening"]
    /\ UNCHANGED <<nonblock, linger, inbox, fin, impl, call>>

\* shutdown() of both directions: no more data is received.
Shutdown(t, o) ==
    /\ Idle(t) /\ ~Busy(o)
    /\ \E f \in Fds :
          /\ f = impl[o].socket /\ link[f] = "connected"
          /\ fin' = [fin EXCEPT ![f] = TRUE]
    /\ UNCHANGED <<link, nonblock, linger, inbox, impl, call>>

\* Faulty variant: the internal mode survives the end of the user's.
SetUserNonBlockingOnly(t, o, value) ==
    /\ Idle(t) /\ ~Busy(o)
    /\ impl[o].socket # NoFd
    /\ lkl_fionbio(impl[o].socket, value)
    /\ impl' = [impl EXCEPT ![o].state = IF value THEN @ \cup {"user"} ELSE @ \ {"user"}]
    /\ UNCHANGED call

\* set_user_non_blocking(), and ioctl(FIONBIO).  On a closed socket, and when LKL refuses,
\* they return before they note anything: no step.
SetUserNonBlocking(t, o, value) ==
    /\ Idle(t) /\ ~Busy(o)
    /\ impl[o].socket # NoFd
    /\ lkl_fionbio(impl[o].socket, value)
    /\ impl' = [impl EXCEPT ![o].state = IF value THEN @ \cup {"user"} ELSE @ \ NonBlocking]
    /\ UNCHANGED call

\* set_internal_non_blocking(); clearing it is refused while the user wants it.  Whatever
\* it refuses, or LKL does, changes nothing: no step.
SetInternalNonBlocking(t, o, value) ==
    /\ Idle(t) /\ ~Busy(o)
    /\ impl[o].socket # NoFd
    /\ value \/ "user" \notin impl[o].state
    /\ lkl_fionbio(impl[o].socket, value)
    /\ impl' = [impl EXCEPT ![o].state = IF value THEN @ \cup {"internal"} ELSE @ \ {"internal"}]
    /\ UNCHANGED call

\* start_op() and start_connect_op(): an asynchronous operation makes the socket
\* non-blocking; the reactor, to which the descriptor is unknown, is left out.
StartOp(t, o) ==
    /\ NonBlocking \cap impl[o].state = {}
    /\ SetInternalNonBlocking(t, o, TRUE)

\* setsockopt(SO_LINGER).
SetLinger(t, o, value) ==
    /\ Idle(t) /\ ~Busy(o)
    /\ impl[o].socket # NoFd
    /\ lkl_so_linger(impl[o].socket, value)
    /\ impl' = [impl EXCEPT ![o].state = @ \cup {"linger"}]
    /\ UNCHANGED call

-----------------------------------------------------------------------------
(* The calls that wait.                                                      *)

\* A call returns at once for an object that is not open.
Begin(t, op, o, p, empty) ==
    /\ Idle(t)
    /\ op \in Changing => ~Busy(o) /\ ~Busy(p)
    /\ IF impl[o].socket = NoFd THEN Leave(t, "badDescriptor")
                                ELSE Enter(t, op, o, p, "try", empty)
    /\ UNCHANGED <<kernelVars, impl>>

BeginReceive(t, o) == \E empty \in BOOLEAN : Begin(t, "recv", o, o, empty)
BeginSend(t, o) == \E empty \in BOOLEAN : Begin(t, "send", o, o, empty)
BeginConnect(t, o) == Begin(t, "connect", o, o, FALSE)

\* The peer that an accept() fills must not be open.
BeginAccept(t, o, p) ==
    \/ o # p /\ impl[p].socket = NoFd /\ Begin(t, "accept", o, p, FALSE)
    \/ /\ Idle(t) /\ o # p /\ impl[p].socket # NoFd
       /\ Leave(t, "alreadyOpen")
       /\ UNCHANGED <<kernelVars, impl>>

\* A call that would have blocked waits, unless the user asked for non-blocking.
Refused(t, r) == IF call[t].user \/ r.err # "wouldBlock" THEN Leave(t, ErrorCode(r.err))
                                                         ELSE GoOn(t, "poll")

\* Faulty variant: empty buffers are handed to the kernel.
NoOpNever(t) == FALSE

\* A request to transfer zero bytes on a stream is a no-op.
NoOp(t) == call[t].empty /\ call[t].stream

\* Faulty variants: would_block is returned whatever the user asked for; zero bytes
\* are the end whatever the kind of the socket; or are taken for nothing ready.
ReceivedOnce(t, r) ==
    \/ r.n = 0 /\ call[t].stream /\ Leave(t, "eof")
    \/ (r.n > 0 \/ (r.n = 0 /\ ~call[t].stream)) /\ Leave(t, "ok")
    \/ r.n < 0 /\ Leave(t, ErrorCode(r.err))

ReceivedAnyKind(t, r) ==
    \/ r.n = 0 /\ Leave(t, "eof")
    \/ r.n > 0 /\ Leave(t, "ok")
    \/ r.n < 0 /\ Refused(t, r)

ReceivedAgainAtEnd(t, r) ==
    \/ r.n = 0 /\ GoOn(t, "poll")
    \/ r.n > 0 /\ Leave(t, "ok")
    \/ r.n < 0 /\ Refused(t, r)

\* What sync_recv() makes of an answer: zero bytes end a stream, not a datagram.
Received(t, r) ==
    \/ r.n = 0 /\ call[t].stream /\ Leave(t, "eof")
    \/ (r.n > 0 \/ (r.n = 0 /\ ~call[t].stream)) /\ Leave(t, "ok")
    \/ r.n < 0 /\ Refused(t, r)

\* sync_recv() calls recv().
TryRecv(t) ==
    /\ At(t, "recv", "try")
    /\ \/ NoOp(t) /\ Leave(t, "ok") /\ UNCHANGED kernelVars
       \/ /\ ~NoOp(t)
          /\ \E r \in Answers : lkl_recvmsg(call[t].s, call[t].empty, r) /\ Received(t, r)
    /\ UNCHANGED impl

\* sync_send() calls send().
TrySend(t) ==
    /\ At(t, "send", "try")
    /\ \/ NoOp(t) /\ Leave(t, "ok") /\ UNCHANGED kernelVars
       \/ /\ ~NoOp(t)
          /\ \E r \in Answers :
                /\ lkl_sendmsg(call[t].s, r)
                /\ \/ r.n >= 0 /\ Leave(t, "ok")
                   \/ r.n < 0 /\ Refused(t, r)
    /\ UNCHANGED impl

\* Faulty variant: a connect waits to read, as an accept does.
PollConnectReadable(t) ==
    /\ call[t].at = "poll"
    /\ \E r \in Answers :
          /\ lkl_poll(call[t].s,
                      IF call[t].op \in Sending
                      THEN Sendable(call[t].s) ELSE Readable(call[t].s), r)
          /\ \/ r.n < 0 /\ Leave(t, ErrorCode(r.err))
             \/ r.n > 0 /\ GoOn(t, IF call[t].op = "connect" THEN "soError" ELSE "try")
    /\ UNCHANGED impl

\* poll_read(), poll_write() and poll_connect(), with no timeout.
Poll(t) ==
    /\ call[t].at = "poll"
    /\ \E r \in Answers :
          /\ lkl_poll(call[t].s,
                      IF call[t].op \in Receiving \cup {"accept"}
                      THEN Readable(call[t].s) ELSE Sendable(call[t].s), r)
          /\ \/ r.n < 0 /\ Leave(t, ErrorCode(r.err))
             \/ r.n > 0 /\ GoOn(t, IF call[t].op = "connect" THEN "soError" ELSE "try")
    /\ UNCHANGED impl

\* sync_connect() calls connect(), which makes would_block no_buffer_space.
TryConnect(t) ==
    /\ At(t, "connect", "try")
    /\ \E r \in Answers :
          /\ lkl_connect(call[t].s, r)
          /\ CASE r.err = "inProgress" -> GoOn(t, "poll")
               [] r.err = "wouldBlock" -> Leave(t, "noBufferSpace")
               [] OTHER -> Leave(t, ErrorCode(r.err))
    /\ UNCHANGED impl

\* Faulty variant: writable means connected.
GetConnectErrorSkipped(t) ==
    /\ At(t, "connect", "soError")
    /\ Leave(t, "ok")
    /\ UNCHANGED <<kernelVars, impl>>

\* Its getsockopt(SO_ERROR).
GetConnectError(t) ==
    /\ At(t, "connect", "soError")
    /\ \E r \in Answers, pending \in {"ok", "refused"} :
          /\ lkl_so_error(call[t].s, r, pending)
          /\ Leave(t, IF r.n = 0 THEN pending ELSE ErrorCode(r.err))
    /\ UNCHANGED impl

\* sync_accept() calls accept(); a new descriptor is assigned to the peer.  "aborted" is
\* ECONNABORTED or EPROTO, which it treats alike.
TryAccept(t) ==
    /\ At(t, "accept", "try")
    /\ \/ \E g \in Fds :
             /\ lkl_accept(call[t].s, g, Success(g))
             /\ impl' = [impl EXCEPT ![call[t].peer] =
                           [socket |-> g, state |-> {"stream", "dup"}]]
             /\ Leave(t, "ok")
       \/ \E e \in Errors, g \in Fds :
             /\ lkl_accept(call[t].s, g, Failure(e))
             /\ IF (e = "wouldBlock" /\ ~call[t].user) \/ e = "aborted"
                THEN GoOn(t, "poll")
                ELSE Leave(t, ErrorCode(e))
             /\ UNCHANGED impl

-----------------------------------------------------------------------------
(* Closing: socket_ops::close() and what its three callers do with it.       *)

\* Faulty variant: the destructor closes as the user does.
BeginCloseAsUser(t, op, o, p) ==
    /\ Idle(t) /\ ~Busy(o) /\ ~Busy(p)
    /\ Enter(t, op, o, p, IF impl[o].socket = NoFd THEN "forget" ELSE "close", FALSE)
    /\ UNCHANGED <<kernelVars, impl>>

\* A destructor, and a move to an open object, close it without lingering.
BeginClose(t, op, o, p) ==
    /\ Idle(t) /\ ~Busy(o) /\ ~Busy(p)
    /\ Enter(t, op, o, p,
             IF impl[o].socket = NoFd THEN "forget"
             ELSE IF op # "close" /\ "linger" \in impl[o].state THEN "linger"
             ELSE "close", FALSE)
    /\ UNCHANGED <<kernelVars, impl>>

LingerOff(t) ==
    /\ call[t].at = "linger"
    /\ lkl_so_linger(call[t].s, FALSE)
    /\ GoOn(t, "close")
    /\ UNCHANGED impl

\* Faulty variant: a close() that would have blocked is left at that.
CloseDescriptorOnce(t) ==
    /\ call[t].at \in {"close", "reclose"}
    /\ \E r \in Answers :
          /\ lkl_close(call[t].s, r)
          /\ call' = [call EXCEPT ![t].at = "forget", ![t].ec = ErrorCode(r.err)]
    /\ UNCHANGED impl

\* The first lkl_close(), and the second when the first would have blocked.
CloseDescriptor(t) ==
    /\ call[t].at \in {"close", "reclose"}
    /\ \E r \in Answers :
          /\ lkl_close(call[t].s, r)
          /\ call' = [call EXCEPT
                        ![t].at = IF @ = "close" /\ r.err = "wouldBlock" THEN "unblock" ELSE "forget",
                        ![t].ec = ErrorCode(r.err)]
    /\ UNCHANGED impl

\* Faulty variant: the second attempt finds the socket as the first did.
UnblockNot(t) ==
    /\ call[t].at = "unblock"
    /\ GoOn(t, "reclose")
    /\ UNCHANGED <<kernelVars, impl>>

Unblock(t) ==
    /\ call[t].at = "unblock"
    /\ lkl_fionbio(call[t].s, FALSE)
    /\ impl' = [impl EXCEPT ![call[t].obj].state = @ \ NonBlocking]
    /\ GoOn(t, "reclose")

\* construct() after close(); the end of the object; or the move into it.
Forget(t) ==
    /\ call[t].at = "forget"
    /\ impl' = IF call[t].op = "moveAssign"
               THEN [impl EXCEPT ![call[t].obj] = impl[call[t].peer],
                                 ![call[t].peer] = Constructed]
               ELSE [impl EXCEPT ![call[t].obj] = Constructed]
    /\ Leave(t, IF call[t].op = "close" THEN call[t].ec ELSE "ok")
    /\ UNCHANGED kernelVars

-----------------------------------------------------------------------------
\* The step a call has to take.
CallStep(t) ==
    \/ TryRecv(t) \/ TrySend(t) \/ TryConnect(t) \/ GetConnectError(t) \/ TryAccept(t)
    \/ Poll(t) \/ LingerOff(t) \/ CloseDescriptor(t) \/ Unblock(t) \/ Forget(t)

\* A call the program makes.
NewCall(t) ==
    \/ \E o \in Sockets :
          \/ Open(t, o) \/ Assign(t, o) \/ Listen(t, o) \/ Shutdown(t, o) \/ StartOp(t, o)
          \/ \E value \in BOOLEAN :
                \/ SetUserNonBlocking(t, o, value) \/ SetInternalNonBlocking(t, o, value)
                \/ SetLinger(t, o, value)
          \/ BeginReceive(t, o) \/ BeginSend(t, o) \/ BeginConnect(t, o)
          \/ \E op \in {"close", "destroy"} : BeginClose(t, op, o, o)
    \/ \E o \in Sockets, p \in Sockets :
          \/ MoveConstruct(t, o, p) \/ BeginAccept(t, o, p)
          \/ o # p /\ BeginClose(t, "moveAssign", o, p)

Next ==
    \/ Network /\ UNCHANGED <<impl, call>>
    \/ \E t \in Threads : CallStep(t) \/ NewCall(t)

Spec == Init /\ [][Next]_vars

\* A call takes the next step it can take without the kernel being in trouble:
\* trouble, which may always happen, must not be what makes a call return.
Calm(t) == CallStep(t) /\ call'[t].ec \notin {"other", "silent"}

FairSpec == Spec /\ \A t \in Threads : WF_vars(Calm(t))
=============================================================================
