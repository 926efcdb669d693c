--------------------------- MODULE ServerRefinement ---------------------------
(***************************************************************************)
(* SocksServer implements ConnectionLife: how the life of a connection is  *)
(* read off its references, its threads and the queue of the io_service.   *)
(***************************************************************************)
EXTENDS ServerInvariant

StageOf(c) ==
    CASE life[c] = "free"                        -> "free"
      [] Destroying(c)                           -> "takenDown"
      [] life[c] = "alive" /\ (StopPending(c) \/ ThreadHolds(c)) -> "stopping"
      [] life[c] = "alive" /\ ~StopPending(c) /\ ~ThreadHolds(c)
            /\ (c \in connections \/ thread["host"][c]) -> "serving"
      [] OTHER                                   -> "waiting"

Life == INSTANCE ConnectionLife WITH
    stage <- [c \in Conns |-> StageOf(c)],
    active <- [c \in Conns |-> {t \in Threads : pc[t][c] \notin {"none"} \cup Ended}],
    leaving <- main \notin {"run", "sleep"}

\* While the server runs, a connection is taken down only after one of its own threads
\* asked for it, its storage is given back only after both threads ended, and once the
\* server is being destroyed none is started (SocksServer::stopConnection(),
\* handleAccept(), ~SocksConnection()).
ImplementsConnectionLife == Life!Spec
=============================================================================
