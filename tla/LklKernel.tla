------------------------------ MODULE LklKernel ------------------------------
(***************************************************************************)
(* The sockets of the Linux Kernel Library as socket_ops.ipp uses them     *)
(* through the lkl_* calls of lkl_decl.c: descriptors, their blocking and  *)
(* linger modes, the TCP connection behind each, and the outcomes of the   *)
(* calls.  The library itself is not part of the repository.               *)
(***************************************************************************)
EXTENDS Integers, FiniteSets

CONSTANTS Fds,    \* descriptor numbers of the library
          NoFd,   \* invalid_socket
          MaxIn   \* bound: units of data that arrived and were not read

ASSUME KernelAssumption == NoFd \notin Fds /\ MaxIn \in Nat \ {0}

VARIABLES
    link,      \* link[f]: "closed" (the number is free) or the state of the socket
    nonblock,  \* nonblock[f]: O_NONBLOCK
    linger,    \* linger[f]: SO_LINGER is on
    inbox,     \* inbox[f]: units of data to be read
    fin        \* fin[f]: the peer has closed its side

kernelVars == <<link, nonblock, linger, inbox, fin>>

Links == {"closed", "fresh", "listening", "connecting", "connected", "refused", "datagram"}

\* Errors the callers tell apart.  "unmapped" is a number lkl_set_errno() does not
\* know, as those meant to stay inside the kernel.
Errors == {"wouldBlock", "inProgress", "already", "badDescriptor", "aborted", "other",
           "unmapped"}

\* A call that returned n, or -1 with an error.
Success(n) == [n |-> n, err |-> "ok"]
Failure(e) == [n |-> -1, err |-> e]
Trouble(r) == r = Failure("other") \/ r = Failure("unmapped")

KernelTypeOK ==
    /\ link \in [Fds -> Links]
    /\ nonblock \in [Fds -> BOOLEAN]
    /\ linger \in [Fds -> BOOLEAN]
    /\ inbox \in [Fds -> 0..MaxIn]
    /\ fin \in [Fds -> BOOLEAN]

KernelInit ==
    /\ link = [f \in Fds |-> "closed"]
    /\ nonblock = [f \in Fds |-> FALSE]
    /\ linger = [f \in Fds |-> FALSE]
    /\ inbox = [f \in Fds |-> 0]
    /\ fin = [f \in Fds |-> FALSE]

\* Descriptor f is given out or taken back.
Reset(f, state, mode, lingers) ==
    /\ link' = [link EXCEPT ![f] = state]
    /\ nonblock' = [nonblock EXCEPT ![f] = mode]
    /\ linger' = [linger EXCEPT ![f] = lingers]
    /\ inbox' = [inbox EXCEPT ![f] = 0]
    /\ fin' = [fin EXCEPT ![f] = FALSE]

-----------------------------------------------------------------------------
(* What the network does.                                                    *)

Established(f) ==
    /\ link[f] = "connecting"
    /\ \E outcome \in {"connected", "refused"} : link' = [link EXCEPT ![f] = outcome]
    /\ UNCHANGED <<nonblock, linger, inbox, fin>>

Arrives(f) ==
    /\ link[f] \in {"connected", "datagram"} /\ ~fin[f] /\ inbox[f] < MaxIn
    /\ inbox' = [inbox EXCEPT ![f] = @ + 1]
    /\ UNCHANGED <<link, nonblock, linger, fin>>

PeerCloses(f) ==
    /\ link[f] = "connected" /\ ~fin[f]
    /\ fin' = [fin EXCEPT ![f] = TRUE]
    /\ UNCHANGED <<link, nonblock, linger, inbox>>

Network == \E f \in Fds : Established(f) \/ Arrives(f) \/ PeerCloses(f)

-----------------------------------------------------------------------------
(* The calls: lkl_x(f, r) holds when the call on f may return r now.  A call *)
(* that would block is not enabled.  A datagram may be empty.                *)

lkl_recvmsg(f, empty, r) ==
    \/ Trouble(r) /\ UNCHANGED kernelVars
    \/ link[f] = "closed" /\ r = Failure("badDescriptor") /\ UNCHANGED kernelVars
    \/ link[f] = "connected" /\ empty /\ r = Success(0) /\ UNCHANGED kernelVars
    \/ /\ link[f] = "connected" /\ ~empty /\ inbox[f] > 0 /\ r = Success(1)
       /\ inbox' = [inbox EXCEPT ![f] = @ - 1]
       /\ UNCHANGED <<link, nonblock, linger, fin>>
    \/ /\ link[f] = "connected" /\ ~empty /\ inbox[f] = 0
       /\ \/ fin[f] /\ r = Success(0)
          \/ ~fin[f] /\ nonblock[f] /\ r = Failure("wouldBlock")
       /\ UNCHANGED kernelVars
    \/ /\ link[f] = "datagram" /\ inbox[f] > 0 /\ r \in {Success(0), Success(1)}
       /\ inbox' = [inbox EXCEPT ![f] = @ - 1]
       /\ UNCHANGED <<link, nonblock, linger, fin>>
    \/ /\ link[f] = "datagram" /\ inbox[f] = 0 /\ nonblock[f]
       /\ r = Failure("wouldBlock") /\ UNCHANGED kernelVars

\* Whether the send buffer has room is open at any moment.
lkl_sendmsg(f, r) ==
    /\ UNCHANGED kernelVars
    /\ \/ Trouble(r)
       \/ link[f] = "closed" /\ r = Failure("badDescriptor")
       \/ link[f] \in {"connected", "datagram"} /\ r = Success(1)
       \/ /\ link[f] \in {"connected", "datagram"} /\ nonblock[f]
          /\ r = Failure("wouldBlock")

\* EALREADY and EISCONN are "already".  A blocking connect() is one step: what it
\* waits for is not seen.
lkl_connect(f, r) ==
    \/ Trouble(r) /\ UNCHANGED kernelVars
    \/ link[f] = "closed" /\ r = Failure("badDescriptor") /\ UNCHANGED kernelVars
    \/ link[f] \in {"fresh", "refused"} /\ r = Failure("wouldBlock") /\ UNCHANGED kernelVars
    \/ link[f] = "datagram" /\ r = Success(0) /\ UNCHANGED kernelVars
    \/ /\ link[f] \in {"listening", "connecting", "connected"}
       /\ r = Failure("already") /\ UNCHANGED kernelVars
    \/ /\ link[f] \in {"fresh", "refused"}
       /\ \/ nonblock[f] /\ r = Failure("inProgress") /\ link' = [link EXCEPT ![f] = "connecting"]
          \/ ~nonblock[f] /\ r = Success(0) /\ link' = [link EXCEPT ![f] = "connected"]
       /\ UNCHANGED <<nonblock, linger, inbox, fin>>

\* accept() of a client by the listening socket f as the new descriptor g,
\* which inherits the linger option and not the blocking mode.
lkl_accept(f, g, r) ==
    \/ Trouble(r) /\ UNCHANGED kernelVars
    \/ link[f] = "closed" /\ r = Failure("badDescriptor") /\ UNCHANGED kernelVars
    \/ /\ link[f] = "listening" /\ UNCHANGED kernelVars
       /\ \/ r = Failure("aborted")
          \/ nonblock[f] /\ r = Failure("wouldBlock")
    \/ /\ link[f] = "listening" /\ link[g] = "closed"
       /\ r = Success(g)
       /\ Reset(g, "connected", FALSE, linger[f])

\* poll() of one descriptor without a timeout: POLLIN, POLLOUT, and the POLLERR,
\* POLLHUP and POLLNVAL that need not be asked for.
Readable(f) ==
    \/ link[f] \in {"closed", "fresh", "refused", "listening"}
    \/ link[f] \in {"connected", "datagram"} /\ (inbox[f] > 0 \/ fin[f])
Sendable(f) == link[f] # "connecting"

lkl_poll(f, ready, r) ==
    /\ UNCHANGED kernelVars
    /\ Trouble(r) \/ (ready /\ r = Success(1))

\* The same with a timeout of 0, which does not fail: it has nothing to wait for.
lkl_poll_now(f, ready, r) ==
    /\ UNCHANGED kernelVars
    /\ r = Success(IF ready THEN 1 ELSE 0)

\* getsockopt(SO_ERROR): the fate of the connection attempt, which is told once.
lkl_so_error(f, r, pending) ==
    \/ Trouble(r) /\ pending = "ok" /\ UNCHANGED kernelVars
    \/ link[f] = "closed" /\ r = Failure("badDescriptor") /\ pending = "ok" /\ UNCHANGED kernelVars
    \/ link[f] = "refused" /\ r = Success(0) /\ pending = "refused"
       /\ link' = [link EXCEPT ![f] = "fresh"] /\ UNCHANGED <<nonblock, linger, inbox, fin>>
    \/ link[f] \notin {"closed", "refused"} /\ r = Success(0) /\ pending = "ok"
       /\ UNCHANGED kernelVars

\* setsockopt(SO_LINGER) with an argument of the right size does not fail on an
\* open socket.
lkl_so_linger(f, value) ==
    /\ linger' = IF link[f] = "closed" THEN linger ELSE [linger EXCEPT ![f] = value]
    /\ UNCHANGED <<link, nonblock, inbox, fin>>

\* ioctl(FIONBIO): it fails on nothing but a descriptor that is not open.
lkl_fionbio(f, value) ==
    /\ nonblock' = IF link[f] = "closed" THEN nonblock ELSE [nonblock EXCEPT ![f] = value]
    /\ UNCHANGED <<link, linger, inbox, fin>>

\* close() frees the number even when it reports an error, except that it may
\* refuse while it would have to linger in non-blocking mode.
lkl_close(f, r) ==
    \/ link[f] = "closed" /\ r = Failure("badDescriptor") /\ UNCHANGED kernelVars
    \/ link[f] # "closed" /\ (r = Success(0) \/ Trouble(r)) /\ Reset(f, "closed", FALSE, FALSE)
    \/ /\ link[f] # "closed" /\ nonblock[f] /\ linger[f]
       /\ r = Failure("wouldBlock")
       /\ UNCHANGED kernelVars
=============================================================================
