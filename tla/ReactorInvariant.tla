---------------------------- MODULE ReactorInvariant ----------------------------
(***************************************************************************)
(* The inductive invariant of ReactorOps.  Who owns a descriptor, and what *)
(* the flags tell, is as in SocketOps; that no descriptor is lost is not   *)
(* said, as the one non_blocking_accept() gives is the caller's to close.  *)
(***************************************************************************)
EXTENDS SocketInvariant, ReactorProperties

\* Nothing ends the data of a datagram socket.
DatagramsOpen == \A f \in Fds : link[f] = "datagram" => ~fin[f]

\* There are no datagrams where none are asked for.
StreamsAlone == Kinds \subseteq {"stream"} => \A f \in Fds : link[f] # "datagram"

\* The end of a stream is a result, never kept by a call that goes on, and a call that
\* waits has a descriptor.
CallsKnown ==
    \A t \in Threads :
        /\ call[t].at # "returned" => call[t].ec # "eof"
        /\ call[t].op \in Waiting => call[t].s \in Fds

\* What a call copied from its object still holds.
CopyHolds(c) ==
    c.op \in Waiting =>
        /\ c.obj \in Sockets /\ c.s = impl[c.obj].socket
        /\ c.stream <=> "stream" \in impl[c.obj].state

\* A thread that is alone finds its object as it left it.
AloneCopies == (\A t, u \in Threads : t = u) => \A t \in Threads : CopyHolds(call[t])

ReactorInv == Ownership /\ DatagramsOpen /\ StreamsAlone /\ CallsKnown /\ AloneCopies
=============================================================================
