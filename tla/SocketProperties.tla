--------------------------- MODULE SocketProperties ---------------------------
(***************************************************************************)
(* What the socket objects promise whatever order they are opened, moved,  *)
(* used and closed in: the descriptors they hold are theirs and are given  *)
(* back, and a call tells its caller the truth.                            *)
(***************************************************************************)
EXTENDS SocketOps

SocketTypeOK ==
    /\ KernelTypeOK
    /\ impl \in [Sockets -> [socket : Fds \cup {NoFd}, state : SUBSET Flags]]
    /\ call \in [Threads -> [op : Waiting \cup Closing \cup {"none"},
                             obj : Sockets \cup {NoSocket}, peer : Sockets \cup {NoSocket},
                             s : Fds \cup {NoFd}, user : BOOLEAN, stream : BOOLEAN,
                             empty : BOOLEAN, at : Steps, ec : Codes]]

\* The descriptor of o is already closed and o is about to forget it.
Forgetting(o) == \E t \in Threads : call[t].at = "forget" /\ call[t].obj = o

Owners(f) == {o \in Sockets : impl[o].socket = f /\ ~Forgetting(o)}

\* A descriptor of the library that is open belongs to an object: none is lost
\* by a close() that is refused, by a move or by an accept() (the second attempt
\* of socket_ops::close()).
NoDescriptorLost == \A f \in Fds : link[f] # "closed" => Owners(f) # {}

\* No two objects hold the same descriptor, and none holds one that is closed:
\* otherwise destroying one would close the connection of the other
\* (base_move_construct(), base_move_assign(), construct() after close()).
OwnedOnce == \A f \in Fds : /\ Cardinality(Owners(f)) <= 1
                            /\ Owners(f) # {} => link[f] # "closed"

\* The flags of an object tell the mode of its descriptor: an operation that finds
\* a non-blocking flag set never blocks in the kernel, and one made here that has
\* none does (set_user_non_blocking(), set_internal_non_blocking(), close()).
ModeIsKnown ==
    \A f \in Fds : \A o \in Owners(f) :
        /\ NonBlocking \cap impl[o].state # {} => nonblock[f]
        /\ nonblock[f] /\ "dup" \notin impl[o].state => NonBlocking \cap impl[o].state # {}

\* A call gives would_block only to a user who asked for non-blocking calls, also
\* when an asynchronous operation has made the socket non-blocking.
BlocksUnlessAsked ==
    [][\A t \in Threads :
          call[t].op \in Waiting /\ call'[t] = Returned("wouldBlock") => call[t].user]_vars

\* connect() tells success on a stream only when the connection stands, also when the
\* socket was non-blocking and poll() said writable because the attempt had failed.  An
\* error number that lkl_set_errno() does not know is the exception.
ConnectedWhenTold ==
    [][\A t \in Threads :
          call[t].op = "connect" /\ call[t].stream /\ call'[t] = Returned("ok") =>
              link'[call[t].s] = "connected"]_vars

\* "We don't want the destructor to block": a socket is destroyed or moved to
\* without lingering, unless its descriptor was made elsewhere.
DestructorDoesNotLinger ==
    \A t \in Threads :
        call[t].op \in {"destroy", "moveAssign"} /\ call[t].at \in {"close", "reclose"} =>
            ~linger[call[t].s] \/ "dup" \in impl[call[t].obj].state
-----------------------------------------------------------------------------
(* The promise to the user, and how it is read off the service.              *)

\* What the user sees of a call.
Seen(c) == [op |-> c.op, obj |-> c.obj, peer |-> c.peer, s |-> c.s,
            asked |-> c.user, ec |-> IF c.at = "returned" THEN c.ec ELSE "ok"]

\* What the user takes the object for.
Held(o) == IF Forgetting(o) THEN NoFd ELSE impl[o].socket

HoldsSeen == [o \in Sockets |-> Held(o)]
CallsSeen == [t \in Threads |-> Seen(call[t])]

Promised == INSTANCE BlockingSockets WITH holds <- HoldsSeen, calls <- CallsSeen

\* With streams only, the service implements BlockingSockets: however often a call is
\* tried, data is taken once and only by a call that says so, a failed call has changed
\* nothing, and a socket and its descriptor part in one step.
ImplementsBlockingSockets == Promised!Spec
-----------------------------------------------------------------------------
(* Liveness, under FairSpec.                                                 *)

\* No receive waits for ever on a connection that has ended, because the peer closed
\* it or because another thread shut it down, which is how ~SocksConnection() wakes
\* the thread it is about to join (sync_recv(), poll_read()).
ReceiveEnds ==
    \A t \in Threads :
        []<>~(call[t].op = "recv" /\ link[call[t].s] = "connected" /\ fin[call[t].s])

\* No connect waits for ever on an attempt that is decided, one way or the other
\* (sync_connect(), poll_connect()).
ConnectEnds ==
    \A t \in Threads :
        []<>~(call[t].op = "connect" /\ link[call[t].s] \in {"connected", "refused"})
=============================================================================
