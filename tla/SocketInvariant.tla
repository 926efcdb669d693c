---------------------------- MODULE SocketInvariant ----------------------------
(***************************************************************************)
(* The inductive invariant of SocketOps, SocketInv.  Its parts say which   *)
(* object and which descriptor a call has in hand, what the flags of an    *)
(* object tell of its descriptor, and how far a connect() has come;        *)
(* SocketProofs proves that every step keeps them, and the properties      *)
(* follow from them.                                                       *)
(***************************************************************************)
EXTENDS SocketProperties

\* Types for SocketOps and ReactorOps, which has more operations and results.
Operations == Waiting \cup Closing \cup NonBlockingOps \cup {"none"}
Results == Codes \cup {"again"}

StateOK ==
    /\ KernelTypeOK
    /\ impl \in [Sockets -> [socket : Fds \cup {NoFd}, state : SUBSET Flags]]
    /\ call \in [Threads -> [op : Operations, obj : Sockets \cup {NoSocket},
                             peer : Sockets \cup {NoSocket}, s : Fds \cup {NoFd},
                             user : BOOLEAN, stream : BOOLEAN, empty : BOOLEAN,
                             at : Steps, ec : Results]]

ClosingSteps == {"linger", "close", "unblock", "reclose", "forget"}

\* Which steps belong to which call, and which calls have a second object.
StepKnown(c) ==
    /\ c.at = "returned" <=> c.op \notin Waiting \cup Closing
    /\ c.at \in ClosingSteps <=> c.op \in Closing
    /\ c.at = "soError" => c.op = "connect"
    /\ c.op \in Waiting \cup Closing =>
          /\ c.obj \in Sockets /\ c.peer \in Sockets
          /\ c.op \in {"accept", "moveAssign"} <=> c.obj # c.peer

StepsKnown == \A t \in Threads : StepKnown(call[t])

Concerns(t, o) == call[t].op \in Changing /\ o \in {call[t].obj, call[t].peer}

\* Calls that change an object exclude each other on it.
Exclusive ==
    \A t, u \in Threads, o \in Sockets : Concerns(t, o) /\ Concerns(u, o) => t = u

\* A call that changes an object works on the descriptor the object has; the peer of
\* an accept() has none.
HasInHand(c) ==
    /\ c.op \in Changing /\ c.at # "forget" => c.s \in Fds /\ c.s = impl[c.obj].socket
    /\ c.op = "accept" => impl[c.peer].socket = NoFd

InHand == \A t \in Threads : HasInHand(call[t])

\* A descriptor that has an owner is open, and the owner is the only one.
OwnersApart ==
    \A f \in Fds, o \in Sockets :
        o \in Owners(f) => link[f] # "closed" /\ \A p \in Owners(f) : p = o

\* The flags tell the linger option, unless the descriptor was made elsewhere, and
\* the kind of the socket.
FlagsTell ==
    \A f \in Fds : \A o \in Owners(f) :
        /\ linger[f] /\ "dup" \notin impl[o].state => "linger" \in impl[o].state
        /\ "stream" \in impl[o].state => link[f] # "datagram"

\* The second lkl_close() finds the socket in blocking mode, in which it is not
\* refused; a destructor finds it without lingering at each step.
ReadyToClose(c) ==
    /\ c.at = "reclose" => ~nonblock[c.s]
    /\ c.op \in {"destroy", "moveAssign"} /\ c.at \in {"close", "unblock", "reclose"} =>
          ~linger[c.s] \/ "dup" \in impl[c.obj].state

CloseReady == \A t \in Threads : ReadyToClose(call[t])

\* What descriptors, objects and calls have to do with each other, without the fate
\* of a connection.
Ownership ==
    /\ StateOK /\ StepsKnown /\ Exclusive /\ InHand
    /\ OwnersApart /\ FlagsTell /\ ModeIsKnown /\ CloseReady

\* How far the attempt of a connect() is.
AttemptKnown(c) ==
    c.op = "connect" =>
        /\ c.stream => link[c.s] # "datagram"
        /\ c.at = "poll" => link[c.s] \in {"connecting", "connected", "refused"}
        /\ c.at = "soError" => link[c.s] \in {"connected", "refused"}

ConnectKnown == \A t \in Threads : AttemptKnown(call[t])

SocketInv == SocketTypeOK /\ Ownership /\ NoDescriptorLost /\ ConnectKnown
-----------------------------------------------------------------------------
(* What the refinement of BlockingSockets needs besides, with streams only.   *)

\* A free number has nothing left to be read.
LinkTold(f) == link[f] # "datagram" /\ (link[f] = "closed" => inbox[f] = 0 /\ ~fin[f])

ObjectTold(o) == impl[o].socket # NoFd => "stream" \in impl[o].state

\* A close that is about to forget its descriptor has not failed but in trouble.
CallTold(c) ==
    /\ c.op \in Waiting => c.stream /\ c.s \in Fds
    /\ c.at = "forget" => c.ec \in {"ok", "other", "silent"} /\ c.s = impl[c.obj].socket

StreamsTold ==
    /\ \A f \in Fds : LinkTold(f)
    /\ \A o \in Sockets : ObjectTold(o)
    /\ \A t \in Threads : CallTold(call[t])

StreamInv == SocketInv /\ StreamsTold
=============================================================================
