--------------------------- MODULE ReactorProperties ---------------------------
(***************************************************************************)
(* What the part of the socket service that Boost's reactor drives         *)
(* promises, and what it must not break for the blocking calls.            *)
(***************************************************************************)
EXTENDS SocketProperties, ReactorOps

\* An attempt of op by thread t ends with the result ec.
Attempt(t, op, ec) == call'[t] # call[t] /\ call'[t].op = op /\ call'[t].ec = ec

\* A pending receive goes back to wait only when there was nothing to receive and the
\* call could not wait in the kernel: an error or the end of the stream completes it
\* (non_blocking_recv(), non_blocking_recvfrom(), non_blocking_recvmsg()).  If it went
\* back to wait after an error, nothing would ever complete it.
AgainMeansWaiting ==
    [][\A t \in Threads, op \in {"non_blocking_recv", "non_blocking_recvfrom",
                                 "non_blocking_recvmsg"} :
          Attempt(t, op, "again") =>
              LET f == call'[t].s
              IN  nonblock[f] /\ ~Readable(f) /\ inbox'[f] = inbox[f]]_vars

\* A pending connect completes with success only when the connection stands, and goes
\* back to wait only while it is being made (non_blocking_connect()).
NonBlockingConnectTruth ==
    [][\A t \in Threads :
          /\ Attempt(t, "non_blocking_connect", "ok") =>
                 link[call'[t].s] = "connected"
          /\ Attempt(t, "non_blocking_connect", "again") =>
                 link[call'[t].s] = "connecting"]_vars

\* Zero bytes are the end of a stream only: no call, blocking or pending, says eof for
\* an empty datagram, and on a stream only when the peer or a shutdown ended it and
\* all was read (sync_recv(), non_blocking_recv()).
EofOnlyOnStreams ==
    [][\A t \in Threads :
          call'[t] # call[t] /\ call'[t].ec = "eof" =>
              LET f == IF call'[t].op = "non_blocking_recv" THEN call'[t].s ELSE call[t].s
              IN  link[f] = "connected" /\ fin[f] /\ inbox[f] = 0]_vars
=============================================================================
