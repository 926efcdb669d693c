---------------------------- MODULE BlockingSockets ----------------------------
(***************************************************************************)
(* What the user of stream_socket_service is promised: a socket holds a    *)
(* connection or none, and a call takes effect once, in one step, however  *)
(* many attempts, waits and mode changes the service makes of it.  The     *)
(* blocking modes, the linger option, polling and the second attempt of a  *)
(* close are not seen.                                                     *)
(***************************************************************************)
EXTENDS Integers

CONSTANTS Fds, NoFd, MaxIn, Sockets, NoSocket, Threads

VARIABLES link, inbox, fin,  \* the connection behind each descriptor
          holds,             \* holds[o]: the descriptor of socket o, or NoFd
          calls              \* calls[t]: the call of thread t, or the result of its last

connections == <<link, inbox, fin>>
vars == <<connections, holds, calls>>

Transfers == {"recv", "send"}
Closes == {"close", "destroy", "moveAssign"}
Failures == {"badDescriptor", "aborted", "other", "silent", "already", "alreadyOpen",
             "inProgress", "noBufferSpace"}

Done(ec) == [op |-> "none", obj |-> NoSocket, peer |-> NoSocket, s |-> NoFd,
             asked |-> FALSE, ec |-> ec]

Init ==
    /\ link = [f \in Fds |-> "closed"]
    /\ inbox = [f \in Fds |-> 0]
    /\ fin = [f \in Fds |-> FALSE]
    /\ holds = [o \in Sockets |-> NoFd]
    /\ calls = [t \in Threads |-> Done("ok")]

Idle(t) == calls[t].op = "none"
Returns(t, ec) == calls' = [calls EXCEPT ![t] = Done(ec)]
Becomes(f, state) == link' = [link EXCEPT ![f] = state] /\ UNCHANGED <<inbox, fin>>

\* The peer, or a shutdown of the socket.
Elsewhere(f) ==
    /\ \/ link[f] = "connecting" /\ \E state \in {"connected", "refused"} : Becomes(f, state)
       \/ /\ link[f] = "connected" /\ ~fin[f] /\ inbox[f] < MaxIn
          /\ inbox' = [inbox EXCEPT ![f] = @ + 1] /\ UNCHANGED <<link, fin>>
       \/ /\ link[f] = "connected" /\ ~fin[f]
          /\ fin' = [fin EXCEPT ![f] = TRUE] /\ UNCHANGED <<link, inbox>>
    /\ UNCHANGED <<holds, calls>>

\* open() and assign().
Obtain(t, o, f) ==
    /\ Idle(t) /\ holds[o] = NoFd /\ link[f] = "closed"
    /\ holds' = [holds EXCEPT ![o] = f]
    /\ \/ Becomes(f, "fresh") /\ Returns(t, "ok")
       \/ Becomes(f, "connected") /\ UNCHANGED calls

Move(o, p) ==
    /\ holds[o] = NoFd
    /\ holds' = [holds EXCEPT ![o] = holds[p], ![p] = NoFd]
    /\ UNCHANGED <<connections, calls>>

ListenOn(o) ==
    /\ \E f \in Fds : f = holds[o] /\ link[f] = "fresh" /\ Becomes(f, "listening")
    /\ UNCHANGED <<holds, calls>>

\* A call takes the descriptor of the object with it; a transfer that starts while
\* another thread closes the object may still take the one that is given up.
Takes(op, o) ==
    {holds[o]} \cup {calls[u].s : u \in {u \in Threads :
                         op \in Transfers /\ calls[u].op \in Closes /\ calls[u].obj = o}}

Start(t, op, o, p) ==
    /\ Idle(t) /\ (op \in {"accept", "moveAssign"} <=> o # p)
    /\ \E asked \in BOOLEAN, f \in Takes(op, o) :
          /\ f # NoFd \/ op \in Closes
          /\ calls' = [calls EXCEPT ![t] = [op |-> op, obj |-> o, peer |-> p, s |-> f,
                                            asked |-> asked, ec |-> "ok"]]
    /\ UNCHANGED <<connections, holds>>

\* A call that fails has changed nothing; would_block is for those who asked.
Fail(t) ==
    /\ calls[t].op \notin Closes
    /\ \/ \E ec \in Failures : Returns(t, ec)
       \/ calls[t].asked /\ calls[t].op # "connect" /\ Returns(t, "wouldBlock")
    /\ UNCHANGED <<connections, holds>>

Receive(t) ==
    /\ calls[t].op = "recv"
    /\ \E f \in Fds :
          /\ f = calls[t].s
          /\ \/ link[f] = "connected" /\ inbox[f] > 0 /\ Returns(t, "ok")
                /\ inbox' = [inbox EXCEPT ![f] = @ - 1] /\ UNCHANGED <<link, fin>>
             \/ link[f] = "connected" /\ inbox[f] = 0 /\ fin[f] /\ Returns(t, "eof")
                /\ UNCHANGED connections
    /\ UNCHANGED holds

\* Data to be sent is gone once; a transfer of nothing does nothing.
Transfer(t) ==
    /\ calls[t].op \in Transfers /\ Returns(t, "ok")
    /\ UNCHANGED <<connections, holds>>

\* The attempt, and its outcome, which one call tells.
ConnectStarts(t) ==
    /\ calls[t].op = "connect"
    /\ \E f \in Fds : f = calls[t].s /\ link[f] \in {"fresh", "refused"} /\ Becomes(f, "connecting")
    /\ UNCHANGED <<holds, calls>>

ConnectEnds(t) ==
    /\ calls[t].op = "connect"
    /\ \E f \in Fds :
          /\ f = calls[t].s
          /\ \/ link[f] = "connected" /\ UNCHANGED connections /\ Returns(t, "ok")
             \/ link[f] \in {"fresh", "refused"} /\ Becomes(f, "connected") /\ Returns(t, "ok")
             \/ link[f] = "refused" /\ Becomes(f, "fresh") /\ Returns(t, "refused")
    /\ UNCHANGED holds

Accept(t) ==
    /\ calls[t].op = "accept"
    /\ \E g \in Fds :
          /\ link[calls[t].s] = "listening" /\ link[g] = "closed" /\ Becomes(g, "connected")
          /\ holds' = [holds EXCEPT ![calls[t].peer] = g]
    /\ Returns(t, "ok")

\* Closing gives up the connection and the descriptor in one step ...
GiveUp(t) ==
    /\ calls[t].op \in Closes
    /\ \E f \in Fds :
          /\ f = holds[calls[t].obj]
          /\ link' = [link EXCEPT ![f] = "closed"]
          /\ inbox' = [inbox EXCEPT ![f] = 0]
          /\ fin' = [fin EXCEPT ![f] = FALSE]
    /\ holds' = [holds EXCEPT ![calls[t].obj] = NoFd]
    /\ UNCHANGED calls

\* ... and is over when the object holds nothing, or what was moved to it.
CloseEnds(t) ==
    LET o == calls[t].obj  p == calls[t].peer
    IN  /\ calls[t].op \in Closes /\ holds[o] = NoFd
        /\ holds' = IF calls[t].op = "moveAssign"
                    THEN [holds EXCEPT ![o] = holds[p], ![p] = NoFd] ELSE holds
        /\ \/ Returns(t, "ok")
           \/ calls[t].op = "close" /\ \E ec \in {"other", "silent"} : Returns(t, ec)
        /\ UNCHANGED connections

\* The first disjunct is a stutter: it spares TLC the search for a step where most
\* steps of the service are one.
Next ==
    \/ UNCHANGED vars
    \/ \E f \in Fds : Elsewhere(f)
    \/ \E o \in Sockets, p \in Sockets : Move(o, p)
    \/ \E o \in Sockets : ListenOn(o)
    \/ \E t \in Threads :
          \/ \E o \in Sockets, f \in Fds : Obtain(t, o, f)
          \/ Fail(t) \/ Receive(t) \/ Transfer(t) \/ ConnectStarts(t) \/ ConnectEnds(t)
          \/ Accept(t) \/ GiveUp(t) \/ CloseEnds(t)
          \/ \E o \in Sockets, p \in Sockets,
                op \in Transfers \cup Closes \cup {"connect", "accept"} : Start(t, op, o, p)

Spec == Init /\ [][Next]_vars
=============================================================================
