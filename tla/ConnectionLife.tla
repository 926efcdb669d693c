---------------------------- MODULE ConnectionLife ----------------------------
(***************************************************************************)
(* What SocksServer promises of the life of a connection, whoever holds    *)
(* references to it, whatever is queued, and on whichever thread a step    *)
(* runs: it waits for its client, is served, is stopped because one of its *)
(* own threads asked for it, is taken down, and is gone when its threads   *)
(* are.  Only the end of the server takes down a connection that did not   *)
(* ask, and after it none is started.                                      *)
(***************************************************************************)
CONSTANT Conns

VARIABLES stage,   \* stage[c]: where the connection is in its life
          active,  \* active[c]: its threads that have not ended
          leaving  \* the server is being destroyed

vars == <<stage, active, leaving>>

Threads == {"host", "remote"}
Enters(c, next) == stage' = [stage EXCEPT ![c] = next]

Init ==
    /\ \E first \in Conns : stage = [c \in Conns |-> IF c = first THEN "waiting" ELSE "free"]
    /\ active = [c \in Conns |-> {}]
    /\ leaving = FALSE

\* make_shared() in startAccept(), and what became of the connection before.
Wait(c, dropped) ==
    /\ ~leaving
    /\ stage[c] = "free" /\ \A d \in dropped : stage[d] = "waiting"
    /\ stage' = [d \in Conns |-> IF d = c THEN "waiting"
                                 ELSE IF d \in dropped THEN "takenDown" ELSE stage[d]]
    /\ UNCHANGED <<active, leaving>>

\* The host thread is started, or the process is about to end because it cannot be.
Serve(c) ==
    /\ ~leaving /\ stage[c] = "waiting"
    /\ Enters(c, "serving")
    /\ active' \in {active, [active EXCEPT ![c] = {"host"}]}
    /\ UNCHANGED leaving

\* The remote thread is started by the host thread, which may not know of the end.
Relay(c) ==
    /\ stage[c] = "serving" \/ (leaving /\ stage[c] = "takenDown")
    /\ active[c] = {"host"}
    /\ active' = [active EXCEPT ![c] = Threads]
    /\ UNCHANGED <<stage, leaving>>

\* A thread of the connection asks for its stop.
AskToStop(c) ==
    /\ stage[c] = "serving" /\ active[c] # {}
    /\ Enters(c, "stopping")
    /\ UNCHANGED <<active, leaving>>

ThreadEnds(c) ==
    /\ \E t \in active[c] : active' = [active EXCEPT ![c] = @ \ {t}]
    /\ UNCHANGED <<stage, leaving>>

\* A connection that waits is given up when its accept fails, one that is served when
\* it asked to be, and any at the end.
TakeDown(c) ==
    /\ stage[c] = "stopping" \/ stage[c] = "waiting" \/ (leaving /\ stage[c] = "serving")
    /\ Enters(c, "takenDown")
    /\ UNCHANGED <<active, leaving>>

Gone(c) ==
    /\ stage[c] = "takenDown" /\ active[c] = {}
    /\ Enters(c, "free")
    /\ UNCHANGED <<active, leaving>>

Leave ==
    /\ ~leaving /\ leaving' = TRUE
    /\ UNCHANGED <<stage, active>>

Next ==
    \/ UNCHANGED vars
    \/ \E c \in Conns :
          \/ \E dropped \in SUBSET Conns : Wait(c, dropped)
          \/ Serve(c) \/ Relay(c) \/ AskToStop(c) \/ ThreadEnds(c) \/ TakeDown(c) \/ Gone(c)
    \/ Leave

Spec == Init /\ [][Next]_vars
=============================================================================
