----------------------- MODULE ServerRefinementProofs -----------------------
(***************************************************************************)
(* Proof that SocksServer implements ConnectionLife: every step of the     *)
(* program is a step of the abstract life of one connection, or none.      *)
(***************************************************************************)
EXTENDS ServerRefinement, SocksServerProofs

\* The three things a stage is read off, next to life.
Asked(c) == StopPending(c) \/ ThreadHolds(c)
Started(c) == c \in connections \/ thread["host"][c]
Active(c) == {t \in Threads : pc[t][c] \notin {"none"} \cup Ended}
Leaving == main \notin {"run", "sleep"}

StagesAre ==
    \A c \in Conns :
        /\ life[c] \in {"free", "alive"} \cup Destruction
        /\ life[c] = "free" => StageOf(c) = "free"
        /\ life[c] \in Destruction => StageOf(c) = "takenDown"
        /\ life[c] = "alive" /\ Asked(c) => StageOf(c) = "stopping"
        /\ life[c] = "alive" /\ ~Asked(c) /\ Started(c) => StageOf(c) = "serving"
        /\ life[c] = "alive" /\ ~Asked(c) /\ ~Started(c) => StageOf(c) = "waiting"

LEMMA StageIs == TypeOK => StagesAre
<1> SUFFICES ASSUME TypeOK PROVE StagesAre
  OBVIOUS
<1>1. \A c \in Conns : life[c] \in {"free", "alive"} \cup Destruction
  BY DEF TypeOK
<1>2. \A c \in Conns : Destroying(c) <=> life[c] \in Destruction
  BY DEF Destroying
<1>3. "free" \notin Destruction /\ "alive" \notin Destruction
  BY DEF Destruction
<1> QED
  BY <1>1, <1>2, <1>3 DEF StagesAre, StageOf, Asked, Started

LEMMA StageIsNext == TypeOK' => StagesAre'
  BY StageIs, PTL

-----------------------------------------------------------------------------
(* The steps of the abstract specification, by what they do to the stages,   *)
(* the active threads and Leaving.                                           *)

\* The connection c alone may change, and the server does not leave.
Only(c) ==
    /\ \A d \in Conns : d # c => StageOf(d)' = StageOf(d) /\ Active(d)' = Active(d)
    /\ Leaving' = Leaving

Unseen ==
    /\ \A d \in Conns : StageOf(d)' = StageOf(d) /\ Active(d)' = Active(d)
    /\ Leaving' = Leaving

\* One of the connections enters a stage, one of its threads ends, or nothing is seen.
Enters(c, stages) ==
    /\ Only(c) /\ StageOf(c)' \in stages
    /\ Active(c)' = Active(c)

LEMMA LifeStutters == Unseen => Life!Next
  BY DEF Unseen, Life!Next, Life!vars, Active, Leaving

LEMMA LifeLeaves ==
    ASSUME \A d \in Conns : StageOf(d)' = StageOf(d) /\ Active(d)' = Active(d),
           ~Leaving, Leaving'
    PROVE  Life!Next
  BY DEF Life!Next, Life!Leave, Active, Leaving

LEMMA LifeWaits ==
    ASSUME NEW c \in Conns, NEW dropped \in SUBSET Conns, ~Leaving, ~Leaving',
           StageOf(c) = "free", \A d \in dropped : StageOf(d) = "waiting",
           \A d \in Conns : StageOf(d)' = IF d = c THEN "waiting"
                                          ELSE IF d \in dropped THEN "takenDown" ELSE StageOf(d),
           \A d \in Conns : Active(d)' = Active(d)
    PROVE  Life!Next
<1>1. Life!Wait(c, dropped)
  BY DEF Life!Wait, Active, Leaving
<1> QED
  BY <1>1 DEF Life!Next

LEMMA LifeServes ==
    ASSUME NEW c \in Conns, Only(c), ~Leaving, StageOf(c) = "waiting", StageOf(c)' = "serving",
           Active(c)' = Active(c) \/ Active(c)' = {"host"}
    PROVE  Life!Next
<1>1. Life!Serve(c)
  BY DEF Life!Serve, Life!Enters, Only, Active, Leaving
<1> QED
  BY <1>1 DEF Life!Next

LEMMA LifeRelays ==
    ASSUME NEW c \in Conns, Only(c), StageOf(c)' = StageOf(c),
           StageOf(c) = "serving" \/ (Leaving /\ StageOf(c) = "takenDown"),
           Active(c) = {"host"}, Active(c)' = Threads
    PROVE  Life!Next
<1>1. Life!Relay(c)
  BY DEF Life!Relay, Life!Threads, Only, Active, Leaving, Threads
<1> QED
  BY <1>1 DEF Life!Next

LEMMA LifeAsks ==
    ASSUME NEW c \in Conns, Enters(c, {"stopping"}), StageOf(c) = "serving", Active(c) # {}
    PROVE  Life!Next
<1>1. Life!AskToStop(c)
  BY DEF Life!AskToStop, Life!Enters, Enters, Only, Active, Leaving
<1> QED
  BY <1>1 DEF Life!Next

LEMMA LifeThreadEnds ==
    ASSUME NEW c \in Conns, NEW t \in Active(c), Only(c), StageOf(c)' = StageOf(c),
           Active(c)' = Active(c) \ {t}
    PROVE  Life!Next
<1>1. /\ \A d \in Conns : StageOf(d)' = StageOf(d)
      /\ Leaving' = Leaving
      /\ \A d \in Conns : Active(d)' = IF d = c THEN Active(c) \ {t} ELSE Active(d)
  BY DEF Only
<1>2. [d \in Conns |-> Active(d)]' = [[d \in Conns |-> Active(d)] EXCEPT ![c] = @ \ {t}]
  BY <1>1
<1>3. Life!ThreadEnds(c)
  BY <1>1, <1>2 DEF Life!ThreadEnds, Active, Leaving
<1> QED
  BY <1>3 DEF Life!Next

LEMMA LifeTakesDown ==
    ASSUME NEW c \in Conns, Enters(c, {"takenDown"}),
           StageOf(c) \in {"stopping", "waiting"} \/ (Leaving /\ StageOf(c) = "serving")
    PROVE  Life!Next
<1>1. Life!TakeDown(c)
  BY DEF Life!TakeDown, Life!Enters, Enters, Only, Active, Leaving
<1> QED
  BY <1>1 DEF Life!Next

LEMMA LifeIsGone ==
    ASSUME NEW c \in Conns, Enters(c, {"free"}), StageOf(c) = "takenDown", Active(c) = {}
    PROVE  Life!Next
<1>1. Life!Gone(c)
  BY DEF Life!Gone, Life!Enters, Enters, Only, Active, Leaving
<1> QED
  BY <1>1 DEF Life!Next

-----------------------------------------------------------------------------
(* What the inductive invariant says of the stages.                          *)

\* A thread that is not over is one of a connection that was started.
LEMMA ActiveIsStarted ==
    ASSUME IInv, NEW c \in Conns, NEW t \in Active(c)
    PROVE  life[c] # "free" /\ (life[c] = "alive" => thread["host"][c])
<1>1. thread[t][c] /\ t \in Threads
  BY DEF Active, IInv, Lifetime, ThreadsKnown
<1>2. ASSUME life[c] = "alive", ~thread["host"][c] PROVE FALSE
  <2>1. pc["host"][c] = "none"
    BY <1>2 DEF IInv, Lifetime, ThreadsKnown, Threads
  <2>2. pc["remote"][c] = "none"
    BY <2>1 DEF IInv, HandshakeAlone
  <2> QED
    BY <2>1, <2>2 DEF Active, Threads
<1> QED
  BY <1>1, <1>2 DEF IInv, Lifetime, FreeUnjoined

\* A connection nobody has started waits for its client.
LEMMA FreshIsWaiting ==
    ASSUME IInv, NEW c \in Conns, Fresh(c)
    PROVE  ~Asked(c) /\ ~Started(c) /\ (life[c] = "alive" => StageOf(c) = "waiting")
<1>1. pc["host"][c] = "none" /\ ~ThreadHolds(c) /\ ~Started(c)
  BY DEF Fresh, Threads, ThreadHolds, HasRef, Started
<1>2. ~StopPending(c)
  BY <1>1 DEF IInv, HandshakeAlone
<1> QED
  BY <1>1, <1>2, StageIs DEF IInv, StagesAre, Asked

\* Whoever is neither listed nor fresh is held only for the sake of its stop.
HeldForStop == \A c \in Conns : Held(c) /\ c \notin connections /\ ~Fresh(c) => Asked(c)

LEMMA HeldIsAsked == IInv => HeldForStop
<1> SUFFICES ASSUME IInv, NEW c \in Conns, Held(c), c \notin connections, ~Fresh(c)
             PROVE  Asked(c)
  BY DEF HeldForStop
<1>1. c # acceptor
  BY ConstantsAssumption DEF IInv, AcceptorFresh
<1>2. ASSUME NEW i \in 1..Len(queue), queue[i].conn = c PROVE StopPending(c)
  <2>1. queue[i].kind \notin Unstarted
    BY <1>2 DEF IInv, QueueFresh
  <2>2. queue[i] \in Items /\ queue[i].conn # NoConn
    BY <1>2, QueueElements, ConstantsAssumption DEF IInv
  <2>3. queue[i].kind = "stop"
    BY <2>1, <2>2 DEF Items, Kinds, NoItem, Item, Unstarted, Accepted
  <2> QED
    BY <1>2, <2>3 DEF StopPending
<1> QED
  BY <1>1, <1>2 DEF Held, Queued, Asked, StopPending

LEMMA HeldIsAskedNext == IInv' => HeldForStop'
  BY HeldIsAsked, PTL

\* The stage stays when what it is read off stays.
LEMMA SameStage ==
    ASSUME TypeOK, TypeOK', NEW c \in Conns,
           \/ life'[c] = life[c]
           \/ life[c] \in Destruction /\ life'[c] \in Destruction,
           life[c] = "alive" => (Asked(c)' <=> Asked(c)),
           life[c] = "alive" /\ ~Asked(c) => (Started(c)' <=> Started(c))
    PROVE  StageOf(c)' = StageOf(c)
<1>1. "free" \notin Destruction /\ "alive" \notin Destruction
  BY DEF Destruction
<1> QED
  BY <1>1, StageIs, StageIsNext DEF StagesAre

\* The places a thread passes through while it is active.
LEMMA ActiveMoves ==
    ASSUME NEW c \in Conns, NEW t \in Threads, Elsewhere(t, c)
    PROVE  /\ \A d \in Conns : d # c => Active(d)' = Active(d)
           /\ pc[t][c] \notin {"none"} \cup Ended /\ pc'[t][c] \notin {"none"} \cup Ended =>
                 Active(c)' = Active(c)
           /\ pc[t][c] \notin {"none"} \cup Ended /\ pc'[t][c] \in Ended =>
                 t \in Active(c) /\ Active(c)' = Active(c) \ {t}
<1>1. \A u \in Threads, d \in Conns : u # t \/ d # c => pc'[u][d] = pc[u][d]
  BY DEF Elsewhere
<1> QED
  BY <1>1 DEF Active

-----------------------------------------------------------------------------
(* The steps of the threads and of the destructor.                           *)

\* A destructor that goes from stage to stage, or stops where it is.
LEMMA DestructorUnseen ==
    ASSUME IInv, TypeOK', NEW c \in Conns, life[c] \in Destruction, life'[c] \in Destruction,
           \A d \in Conns : d # c => life'[d] = life[d],
           \A d \in Conns, u \in Threads : d # c => thread'[u][d] = thread[u][d],
           UNCHANGED <<connections, main, stopping, queue, pc>>
    PROVE  Life!Next
<1>1. \A d \in Conns : /\ (Asked(d)' <=> Asked(d)) /\ Active(d)' = Active(d)
                       /\ d # c => (Started(d)' <=> Started(d))
  BY DEF Asked, StopPending, ThreadHolds, Started, Active, Threads
<1>2. life[c] # "alive"
  BY DEF Destruction
<1>3. \A d \in Conns : StageOf(d)' = StageOf(d)
  BY <1>1, <1>2, SameStage DEF IInv
<1>4. Unseen
  BY <1>1, <1>3 DEF Unseen, Leaving
<1> QED
  BY <1>4, LifeStutters

LEMMA ClosesLife ==
    ASSUME IInv, TypeOK', NEW c \in Conns, Closes(c)
    PROVE  Life!Next
<1>1. /\ life[c] \in Destruction /\ life'[c] \in Destruction
      /\ \A d \in Conns : d # c => life'[d] = life[d]
  BY DEF Closes, IInv, TypeOK
<1> QED
  BY <1>1, DestructorUnseen DEF Closes

LEMMA JoinThreadsLife ==
    ASSUME IInv, TypeOK', NEW c \in Conns, JoinThreads(c)
    PROVE  Life!Next
<1>1. UNCHANGED <<connections, main, stopping, queue, pc>>
  BY DEF JoinThreads, Join, serverVars
<1>2. /\ life[c] \in Destruction /\ life'[c] \in Destruction
      /\ \A d \in Conns : d # c => life'[d] = life[d]
  BY DEF JoinThreads, Join, IInv, TypeOK, Destruction
<1>3. \A d \in Conns, u \in Threads : d # c => thread'[u][d] = thread[u][d]
  <2>1. UNCHANGED thread \/ \E t \in Threads : SetJoinable(t, c, FALSE)
    BY DEF JoinThreads, Join, Threads
  <2>2. ASSUME NEW t \in Threads, SetJoinable(t, c, FALSE)
        PROVE  \A u \in Threads, d \in Conns : u # t \/ d # c => thread'[u][d] = thread[u][d]
    BY <2>2, SetJoinableEffect DEF IInv, TypeOK
  <2> QED
    BY <2>1, <2>2
<1> QED
  BY <1>1, <1>2, <1>3, DestructorUnseen

\* Storage is given back only when both threads are over.
LEMMA DestroyMembersLife ==
    ASSUME IInv, TypeOK', NEW c \in Conns, DestroyMembers(c)
    PROVE  Life!Next
<1>1. UNCHANGED <<connections, main, stopping, queue, pc, thread>> /\ life[c] = "members"
  BY DEF DestroyMembers, serverVars
<1>2. CASE UNCHANGED life
  BY <1>1, <1>2, DestructorUnseen DEF Destruction
<1>3. CASE life' = [life EXCEPT ![c] = "free"] /\ \A t \in Threads : ~thread[t][c]
  <2>1. /\ life'[c] = "free" /\ \A d \in Conns : d # c => life'[d] = life[d]
    BY <1>3 DEF IInv, TypeOK
  <2>2. \A d \in Conns : /\ (Asked(d)' <=> Asked(d)) /\ (Started(d)' <=> Started(d))
                         /\ Active(d)' = Active(d)
    BY <1>1 DEF Asked, StopPending, ThreadHolds, Started, Active, Threads
  <2>3. \A d \in Conns : d # c => StageOf(d)' = StageOf(d)
    BY <2>1, <2>2, SameStage DEF IInv
  <2>4. StageOf(c) = "takenDown" /\ StageOf(c)' = "free"
    BY <1>1, <2>1, StageIs, StageIsNext DEF StagesAre, Destruction, IInv
  <2>5. Active(c) = {}
    BY <1>3 DEF IInv, Lifetime, ThreadsKnown, Active
  <2>6. Enters(c, {"free"})
    BY <1>1, <2>2, <2>3, <2>4 DEF Enters, Only, Leaving
  <2> QED
    BY <2>4, <2>5, <2>6, LifeIsGone
<1> QED
  BY <1>2, <1>3 DEF DestroyMembers

\* A thread that goes on, or ends where no stop is asked for.
LEMMA ThreadGoesOn ==
    ASSUME IInv, TypeOK', NEW c \in Conns, NEW t \in Threads, Elsewhere(t, c),
           pc[t][c] \in Handshaking \cup Relaying,
           pc'[t][c] \in Handshaking \cup Relaying \cup Ended,
           UNCHANGED <<connections, main, stopping, queue, life, thread>>
    PROVE  Life!Next
<1>p. pc[t][c] \notin {"none"} \cup Ended \cup HasRef /\ pc'[t][c] \notin {"none"} \cup HasRef
  BY DEF Handshaking, Relaying, Ended, HasRef
<1>1. \A d \in Conns : (Asked(d)' <=> Asked(d)) /\ (Started(d)' <=> Started(d))
  BY <1>p DEF Asked, StopPending, ThreadHolds, Started, Elsewhere
<1>2. \A d \in Conns : StageOf(d)' = StageOf(d)
  BY <1>1, SameStage DEF IInv
<1>3. CASE pc'[t][c] \notin Ended
  <2>1. Unseen
    BY <1>p, <1>2, <1>3, ActiveMoves DEF Unseen, Leaving
  <2> QED
    BY <2>1, LifeStutters
<1>4. CASE pc'[t][c] \in Ended
  <2>1. /\ t \in Active(c) /\ Active(c)' = Active(c) \ {t}
        /\ \A d \in Conns : d # c => Active(d)' = Active(d)
    BY <1>p, <1>4, ActiveMoves
  <2>2. Only(c)
    BY <1>2, <2>1 DEF Only, Leaving
  <2> QED
    BY <1>2, <2>1, <2>2, LifeThreadEnds
<1> QED
  BY <1>3, <1>4

\* A thread that takes a reference of its own to ask for the stop.
LEMMA ThreadAsks ==
    ASSUME IInv, TypeOK', NEW c \in Conns, NEW t \in Threads, Elsewhere(t, c),
           pc[t][c] \in Handshaking \cup Relaying, pc'[t][c] = "post", life[c] = "alive",
           UNCHANGED <<connections, main, stopping, queue, life, thread>>
    PROVE  Life!Next
<1>p. pc[t][c] \notin {"none"} \cup Ended \cup HasRef /\ pc'[t][c] \notin {"none"} \cup Ended
  BY DEF Handshaking, Relaying, Ended, HasRef
<1>1. /\ \A d \in Conns : /\ d # c => (Asked(d)' <=> Asked(d))
                          /\ Started(d)' <=> Started(d)
      /\ Asked(c)'
  BY DEF Asked, StopPending, ThreadHolds, Started, Elsewhere, HasRef
<1>2. \A d \in Conns : d # c => StageOf(d)' = StageOf(d)
  BY <1>1, SameStage DEF IInv
<1>3. t \in Active(c) /\ \A d \in Conns : Active(d)' = Active(d)
  BY <1>p, ActiveMoves DEF Active
<1>4. StageOf(c)' = "stopping"
  BY <1>1, StageIsNext DEF StagesAre
<1>5. Enters(c, {"stopping"})
  BY <1>2, <1>3, <1>4 DEF Enters, Only, Leaving
<1>6. CASE Asked(c)
  <2>1. StageOf(c) = "stopping"
    BY <1>6, StageIs DEF StagesAre, IInv
  <2>2. Unseen
    BY <1>2, <1>3, <1>4, <2>1 DEF Unseen, Leaving
  <2> QED
    BY <2>2, LifeStutters
<1>7. CASE ~Asked(c)
  <2>1. Started(c)
    BY <1>3, ActiveIsStarted DEF Started
  <2>2. StageOf(c) = "serving"
    BY <1>7, <2>1, StageIs DEF StagesAre, IInv
  <2> QED
    BY <1>3, <1>5, <2>2, LifeAsks
<1> QED
  BY <1>6, <1>7

LEMMA SpawnLife ==
    ASSUME IInv, TypeOK', NEW c \in Conns, Spawn(c)
    PROVE  Life!Next
<1>t. "host" \in Threads /\ "remote" \in Threads
  BY DEF Threads
<1>u. UNCHANGED <<connections, main, stopping, queue, life>> /\ pc["host"][c] = "spawn"
  BY DEF Spawn, serverVars
<1>1. CASE Goto("host", c, "catch") /\ UNCHANGED thread
  <2>1. pc'["host"][c] = "catch" /\ Elsewhere("host", c)
    BY <1>1, <1>t, GotoEffect, PlaceTypes DEF IInv, TypeOK, Elsewhere, Handshaking
  <2> QED
    BY <1>1, <1>t, <1>u, <2>1, ThreadGoesOn DEF Handshaking
<1>2. CASE /\ SetJoinable("remote", c, TRUE)
           /\ pc' = [pc EXCEPT !["host"][c] = "read", !["remote"][c] = "read"]
  <2>1. /\ pc'["host"][c] = "read" /\ pc'["remote"][c] = "read"
        /\ \A u \in Threads, d \in Conns : d # c => pc'[u][d] = pc[u][d]
    BY <1>2, <1>t DEF IInv, TypeOK, Threads
  <2>2. \A d \in Conns : thread'["host"][d] = thread["host"][d]
    <3>1. \A u \in Threads, d \in Conns :
             u # "remote" \/ d # c => thread'[u][d] = thread[u][d]
      BY <1>2, <1>t, SetJoinableEffect DEF IInv, TypeOK
    <3> QED
      BY <3>1, <1>t
  <2>3. pc["remote"][c] = "none" /\ ~StopPending(c)
    BY <1>u DEF IInv, HandshakeAlone, Handshaking
  <2>4. \A d \in Conns : (Asked(d)' <=> Asked(d)) /\ (Started(d)' <=> Started(d))
    BY <1>u, <2>1, <2>2, <2>3 DEF Asked, StopPending, ThreadHolds, Started, Threads, HasRef
  <2>5. \A d \in Conns : StageOf(d)' = StageOf(d)
    BY <1>u, <2>4, SameStage DEF IInv
  <2>6. /\ Active(c) = {"host"} /\ Active(c)' = Threads
        /\ \A d \in Conns : d # c => Active(d)' = Active(d)
    BY <1>u, <2>1, <2>3 DEF Active, Threads, Ended
  <2>7. Only(c)
    BY <1>u, <2>5, <2>6 DEF Only, Leaving
  <2>8. ~Asked(c) /\ Started(c)
    <3>1. ~Asked(c)
      BY <1>u, <2>3 DEF Asked, ThreadHolds, HasRef, Threads
    <3>2. thread["host"][c]
      BY <1>u, <1>t DEF IInv, Lifetime, ThreadsKnown, Ended
    <3> QED
      BY <3>1, <3>2 DEF Started
  <2>9. StageOf(c) = "serving" \/ (Leaving /\ StageOf(c) = "takenDown")
    <3>1. life[c] # "free"
      BY <2>6, ActiveIsStarted
    <3>2. ~Leaving => life[c] = "alive"
      BY <1>u DEF IInv, HandshakeListed, Handshaking, Lifetime, RefsMatchLife, Held, Leaving
    <3> QED
      BY <2>8, <3>1, <3>2, StageIs DEF StagesAre, IInv
  <2> QED
    BY <2>5, <2>6, <2>7, <2>9, LifeRelays
<1> QED
  BY <1>1, <1>2 DEF Spawn

LEMMA CatchLife ==
    ASSUME IInv, TypeOK', NEW c \in Conns, Catch(c)
    PROVE  Life!Next
<1>t. "host" \in Threads
  BY DEF Threads
<1>u. /\ UNCHANGED <<connections, main, stopping, queue, life, thread>>
      /\ pc["host"][c] = "catch"
  BY DEF Catch, serverVars
<1>1. CASE life[c] = "alive"
  <2>1. pc'["host"][c] = "post" /\ Elsewhere("host", c)
    BY <1>1, <1>t, GotoEffect, PlaceTypes DEF Catch, IInv, TypeOK, Elsewhere, HasRef
  <2> QED
    BY <1>1, <1>t, <1>u, <2>1, ThreadAsks DEF Handshaking
<1>2. CASE life[c] # "alive"
  BY <1>2, <1>t, <1>u, ThreadGoesOn DEF Catch, Elsewhere, Handshaking
<1> QED
  BY <1>1, <1>2

LEMMA StopLife ==
    ASSUME IInv, TypeOK', NEW c \in Conns, NEW t \in Threads, Stop(t, c)
    PROVE  Life!Next
<1>1. /\ pc[t][c] \in Relaying
      /\ pc'[t][c] = IF life[c] = "alive" THEN "post" ELSE "done"
      /\ Elsewhere(t, c)
  BY GotoEffect, PlaceTypes DEF Stop, IInv, TypeOK, Elsewhere, HasRef, Ended, Relaying
<1>2. UNCHANGED <<connections, main, stopping, queue, life, thread>>
  BY DEF Stop, serverVars
<1> QED
  BY <1>1, <1>2, ThreadAsks, ThreadGoesOn DEF Ended

LEMMA MovesOnLife ==
    ASSUME IInv, TypeOK', NEW c \in Conns, NEW t \in Threads, MovesOn(t, c)
    PROVE  Life!Next
  BY ThreadGoesOn DEF MovesOn, Ended

\* The reference of the thread moves into the handler.
LEMMA PostLife ==
    ASSUME IInv, TypeOK', NEW c \in Conns, NEW t \in Threads, Post(t, c)
    PROVE  Life!Next
<1>u. UNCHANGED <<connections, main, stopping, life, thread>> /\ pc[t][c] = "post"
  BY DEF Post, serverVars
<1>1. CASE ServerAlive
  <2>1. queue' = Append(queue, Item("stop", c, t)) /\ Item("stop", c, t) \in Items
    BY <1>1, ItemTypes DEF Post, Kinds
  <2>2. pc'[t][c] = "release" /\ Elsewhere(t, c)
    BY <1>1, GotoEffect, PlaceTypes DEF Post, IInv, TypeOK, Elsewhere, HasRef
  <2>3. \A d \in Conns : /\ ThreadHolds(d)' <=> ThreadHolds(d)
                         /\ Started(d)' <=> Started(d)
                         /\ Active(d)' = Active(d)
    <3>1. \A d \in Conns : Active(d)' = Active(d)
      BY <1>u, <2>2, ActiveMoves DEF Ended
    <3> QED
      BY <1>u, <2>2, <3>1 DEF ThreadHolds, HasRef, Started, Elsewhere
  <2>4. \A d \in Conns : d # c => (StopPending(d)' <=> StopPending(d))
    <3>1. /\ Len(queue) \in Nat /\ Len(queue') = Len(queue) + 1
          /\ \A i \in 1..Len(queue) : queue'[i] = queue[i]
          /\ queue'[Len(queue) + 1].conn = c
      BY <2>1, Enqueue DEF IInv, Item
    <3> QED
      BY <1>u, <3>1 DEF StopPending
  <2>5. ThreadHolds(c)
    BY <1>u DEF ThreadHolds, HasRef
  <2>6. \A d \in Conns : Asked(d)' <=> Asked(d)
    BY <2>3, <2>4, <2>5 DEF Asked
  <2>7. \A d \in Conns : StageOf(d)' = StageOf(d)
    BY <1>u, <2>3, <2>6, SameStage DEF IInv
  <2>8. Unseen
    BY <1>u, <2>3, <2>7 DEF Unseen, Leaving
  <2> QED
    BY <2>8, LifeStutters
<1>2. CASE ~ServerAlive
  <2>1. UNCHANGED <<queue, pc>>
    BY <1>2 DEF Post
  <2>2. \A d \in Conns : /\ (Asked(d)' <=> Asked(d)) /\ (Started(d)' <=> Started(d))
                         /\ Active(d)' = Active(d)
    BY <1>u, <2>1 DEF Asked, StopPending, ThreadHolds, Started, Active
  <2>3. \A d \in Conns : StageOf(d)' = StageOf(d)
    BY <1>u, <2>2, SameStage DEF IInv
  <2>4. Unseen
    BY <1>u, <2>2, <2>3 DEF Unseen, Leaving
  <2> QED
    BY <2>4, LifeStutters
<1> QED
  BY <1>1, <1>2

\* The thread gives up its reference, and with it the object when it is the last.
LEMMA ReleaseLife ==
    ASSUME IInv, IInv', NEW c \in Conns, NEW t \in Threads, Release(t, c)
    PROVE  Life!Next
<1>u. UNCHANGED <<connections, main, stopping, queue, thread>> /\ pc[t][c] = "release"
  BY DEF Release, serverVars
<1>p. /\ Elsewhere(t, c)
      /\ pc'[t][c] = IF Held(c)' THEN "done" ELSE "destroying"
  BY GotoEffect, PlaceTypes DEF Release, IInv, TypeOK, Elsewhere, Ended
<1>l. /\ life[c] = "alive" /\ Asked(c)
      /\ life'[c] = IF Held(c)' THEN "alive" ELSE "shutRemote"
      /\ \A d \in Conns : d # c => life'[d] = life[d]
  <2>1. ThreadHolds(c) /\ Held(c)
    BY <1>u DEF ThreadHolds, Held, HasRef
  <2>2. life[c] = "alive"
    BY <2>1 DEF IInv, Lifetime, RefsMatchLife
  <2> QED
    BY <2>1, <2>2 DEF Release, AfterDrop, Asked, IInv, TypeOK
<1>1. \A d \in Conns : d # c => /\ StageOf(d)' = StageOf(d)
                                /\ Active(d)' = Active(d)
  <2>1. \A d \in Conns : d # c => /\ Asked(d)' <=> Asked(d)
                                  /\ Started(d)' <=> Started(d)
    BY <1>u, <1>p DEF Asked, StopPending, ThreadHolds, Started, Elsewhere
  <2> QED
    BY <1>l, <1>p, <2>1, SameStage, ActiveMoves DEF IInv
<1>2. StageOf(c) = "stopping"
  BY <1>l, StageIs DEF StagesAre, IInv
<1>3. CASE Held(c)'
  <2>1. ~Fresh(c)' /\ (c \in connections' => StopPending(c)')
    BY <1>p, <1>3 DEF Fresh, IInv, StopKept
  <2>2. Asked(c)'
    BY <1>3, <2>1, HeldIsAskedNext DEF HeldForStop, Asked
  <2>3. StageOf(c)' = "stopping"
    BY <1>3, <1>l, <2>2, StageIsNext DEF StagesAre, IInv
  <2>4. t \in Active(c) /\ Active(c)' = Active(c) \ {t}
    BY <1>u, <1>p, <1>3, ActiveMoves DEF Ended
  <2>5. Only(c)
    BY <1>u, <1>1 DEF Only, Leaving
  <2> QED
    BY <1>2, <2>3, <2>4, <2>5, LifeThreadEnds
<1>4. CASE ~Held(c)'
  <2>1. StageOf(c)' = "takenDown"
    BY <1>4, <1>l, StageIsNext DEF StagesAre, IInv, Destruction
  <2>2. Active(c)' = Active(c)
    BY <1>u, <1>p, <1>4, ActiveMoves DEF Ended
  <2>3. Enters(c, {"takenDown"})
    BY <1>u, <1>1, <2>1, <2>2 DEF Enters, Only, Leaving
  <2> QED
    BY <1>2, <2>3, LifeTakesDown
<1> QED
  BY <1>3, <1>4

-----------------------------------------------------------------------------
(* The steps of the main thread.                                             *)

\* Steps that only move handlers: no stop comes or goes.
LEMMA ServerUnseen ==
    ASSUME IInv, TypeOK', UNCHANGED <<connections, life, thread, pc>>, Leaving' = Leaving,
           \A d \in Conns : StopPending(d)' <=> StopPending(d)
    PROVE  Life!Next
<1>1. \A d \in Conns : /\ (Asked(d)' <=> Asked(d)) /\ (Started(d)' <=> Started(d))
                       /\ Active(d)' = Active(d)
  BY DEF Asked, ThreadHolds, Started, Active
<1>2. \A d \in Conns : StageOf(d)' = StageOf(d)
  BY <1>1, SameStage DEF IInv
<1>3. Unseen
  BY <1>1, <1>2 DEF Unseen
<1> QED
  BY <1>3, LifeStutters

\* Handlers of other kinds join the queue.
LEMMA StopsStay ==
    ASSUME TypeOK, NEW e \in Items, e.kind # "stop", queue' = Append(queue, e),
           UNCHANGED stopping
    PROVE  \A d \in Conns : StopPending(d)' <=> StopPending(d)
<1>1. /\ Len(queue) \in Nat /\ Len(queue') = Len(queue) + 1
      /\ \A i \in 1..Len(queue) : queue'[i] = queue[i]
      /\ queue'[Len(queue) + 1] = e
  BY Enqueue
<1> QED
  BY <1>1 DEF StopPending

LEMMA AcceptDoneLife ==
    ASSUME IInv, TypeOK', AcceptDone
    PROVE  Life!Next
<1>1. acceptor \in Conns
  BY DEF AcceptDone, IInv, TypeOK
<1>2. \E e \in Items : e.kind # "stop" /\ queue' = Append(queue, e)
  <2>1. \E kind \in {"accept", "acceptError"} : queue' = Append(queue, Item(kind, acceptor, "main"))
    BY DEF AcceptDone
  <2>2. \A kind \in {"accept", "acceptError"} :
           /\ Item(kind, acceptor, "main") \in Items
           /\ Item(kind, acceptor, "main").kind # "stop"
    BY <1>1 DEF Item, Items, Kinds
  <2> QED
    BY <2>1, <2>2
<1>3. \A d \in Conns : StopPending(d)' <=> StopPending(d)
  BY <1>2, StopsStay DEF AcceptDone, IInv
<1> QED
  BY <1>3, ServerUnseen DEF AcceptDone, Leaving

LEMMA SignalLife ==
    ASSUME IInv, TypeOK', Signal
    PROVE  Life!Next
<1>1. \A d \in Conns : StopPending(d)' <=> StopPending(d)
  BY StopsStay, ItemTypes DEF Signal, IInv, NoItem, Item
<1> QED
  BY <1>1, ServerUnseen DEF Signal, Leaving

\* startAccept(): the dropped connection, if any, still waited for its client.
LEMMA StartAcceptLife ==
    ASSUME IInv, TypeOK', NEW h, NEW dropped, dropped = {} \/ (dropped = {h} /\ h \in Conns),
           StartAccept(dropped), main = "run",
           \A d \in dropped : Fresh(d) /\ life[d] = "alive",
           UNCHANGED <<connections, main, stopping, thread>>,
           \A d \in Conns : StopPending(d)' <=> StopPending(d)
    PROVE  Life!Next
<1>s. /\ acceptor' \in Conns \cup {NoConn}
      /\ \A t \in Threads, d \in Conns :
            /\ d # acceptor' => pc'[t][d] = pc[t][d]
            /\ d = acceptor' => pc'[t][d] = "none" /\ pc[t][d] \in {"none"} \cup Ended
      /\ \A d \in Conns :
            /\ d = acceptor' => /\ life[d] = "free" /\ life'[d] = "alive"
                                /\ ~Held(d) /\ ~StopPending(d)
                                /\ \A t \in Threads : ~thread[t][d]
            /\ d # acceptor' => life'[d] = IF d \in dropped THEN "shutRemote" ELSE life[d]
  BY StartAcceptEffect
<1>d. dropped \in SUBSET Conns
  OBVIOUS
<1>1. \A d \in Conns : /\ d # acceptor' => (Asked(d)' <=> Asked(d))
                       /\ Started(d)' <=> Started(d)
                       /\ Active(d)' = Active(d)
  <2>1. \A d \in Conns : d # acceptor' => (ThreadHolds(d)' <=> ThreadHolds(d))
    BY <1>s DEF ThreadHolds
  <2>2. \A d \in Conns : Active(d)' = Active(d)
    BY <1>s DEF Active
  <2> QED
    BY <2>1, <2>2 DEF Asked, Started
<1>2. \A d \in dropped : /\ d # acceptor' /\ StageOf(d) = "waiting" /\ StageOf(d)' = "takenDown"
  <2> SUFFICES ASSUME NEW d \in dropped
               PROVE  d # acceptor' /\ StageOf(d) = "waiting" /\ StageOf(d)' = "takenDown"
    OBVIOUS
  <2>1. d \in Conns /\ d # acceptor' /\ life'[d] = "shutRemote"
    BY <1>s, <1>d
  <2> QED
    BY <2>1, FreshIsWaiting, StageIsNext DEF StagesAre, Destruction
<1>3. \A d \in Conns : d # acceptor' /\ d \notin dropped => StageOf(d)' = StageOf(d)
  BY <1>s, <1>1, SameStage DEF IInv
<1>4. CASE acceptor' \in Conns
  <2>1. StageOf(acceptor') = "free"
    BY <1>s, <1>4, StageIs DEF StagesAre, IInv
  <2>2. \A d \in Conns : d = acceptor' => StageOf(d)' = "waiting"
    <3> SUFFICES ASSUME NEW d \in Conns, d = acceptor' PROVE StageOf(d)' = "waiting"
      OBVIOUS
    <3>1. ~Asked(d)' /\ ~Started(d)' /\ life'[d] = "alive"
      BY <1>s DEF Asked, ThreadHolds, HasRef, Started, Held, Threads
    <3> QED
      BY <3>1, StageIsNext DEF StagesAre
  <2>3. ~Leaving /\ ~Leaving'
    BY DEF Leaving
  <2> DEFINE c == acceptor'
  <2>4. PICK k \in Conns : k = c
    BY <1>4
  <2>5. \A d \in Conns : StageOf(d)' = IF d = k THEN "waiting"
                                       ELSE IF d \in dropped THEN "takenDown" ELSE StageOf(d)
    BY <1>2, <1>3, <2>2, <2>4
  <2>6. StageOf(k) = "free"
    BY <1>s, <2>4, StageIs DEF StagesAre, IInv
  <2>7. \A d \in dropped : StageOf(d) = "waiting"
    BY <1>2
  <2>8. \A d \in Conns : Active(d)' = Active(d)
    BY <1>1
  <2> HIDE DEF c
  <2> QED
    BY <1>d, <2>3, <2>5, <2>6, <2>7, <2>8, LifeWaits
<1>5. CASE acceptor' = NoConn
  <2>1. \A d \in Conns : d # acceptor'
    BY <1>5, ConstantsAssumption
  <2>2. Leaving' = Leaving
    BY DEF Leaving
  <2>3. CASE dropped = {}
    <3>1. Unseen
      BY <1>1, <1>3, <2>1, <2>2, <2>3 DEF Unseen
    <3> QED
      BY <3>1, LifeStutters
  <2>4. CASE dropped = {h} /\ h \in Conns
    <3>1. StageOf(h) = "waiting" /\ Enters(h, {"takenDown"})
      BY <1>1, <1>2, <1>3, <2>1, <2>2, <2>4 DEF Enters, Only
    <3> QED
      BY <2>4, <3>1, LifeTakesDown
  <2> QED
    BY <2>3, <2>4
<1> QED
  BY <1>s, <1>4, <1>5

\* A handler that is no stop leaves the queue.
LEMMA StopsStayBehind ==
    ASSUME IInv, queue # <<>>, queue' = Tail(queue), Head(queue).kind # "stop",
           UNCHANGED stopping
    PROVE  \A d \in Conns : StopPending(d)' <=> StopPending(d)
<1>1. \A d : StopQueued(d)' <=> StopQueued(d)
  BY DequeueKeeps
<1> QED
  BY <1>1 DEF StopPending, StopQueued

\* One leaves and another joins.
LEMMA StopsStayAround ==
    ASSUME IInv, queue # <<>>, NEW e \in Items, e.kind # "stop", Head(queue).kind # "stop",
           queue' = Append(Tail(queue), e), UNCHANGED stopping
    PROVE  \A d \in Conns : StopPending(d)' <=> StopPending(d)
<1>1. /\ Tail(queue) \in Seq(Items) /\ Head(queue) = queue[1]
      /\ Len(queue) \in Nat \ {0}
      /\ Len(Tail(queue)) = Len(queue) - 1
      /\ \A i \in 1..Len(Tail(queue)) : Tail(queue)[i] = queue[i + 1]
  BY TailElements DEF IInv, TypeOK
<1>2. /\ Len(queue') = Len(Tail(queue)) + 1
      /\ \A i \in 1..Len(Tail(queue)) : queue'[i] = Tail(queue)[i]
      /\ queue'[Len(Tail(queue)) + 1] = e
  BY <1>1, AppendElements
<1>3. /\ Len(queue) \in Nat \ {0} /\ Len(queue') = Len(queue)
      /\ \A i \in 1..(Len(queue) - 1) : queue'[i] = queue[i + 1]
      /\ queue'[Len(queue)].kind # "stop"
      /\ queue[1].kind # "stop"
  BY <1>1, <1>2
<1>n. PICK n \in Nat \ {0} : Len(queue) = n
  BY <1>3
<1>i. \A i \in 1..n : /\ i = 1 \/ (i - 1 \in 1..(n - 1) /\ i - 1 \in 1..n)
                      /\ i = n \/ (i \in 1..(n - 1) /\ i + 1 \in 1..n)
  BY <1>n
<1>4. ASSUME NEW d, StopQueued(d) PROVE StopQueued(d)'
  <2>1. PICK i \in 1..n : queue[i].kind = "stop" /\ queue[i].conn = d
    BY <1>4, <1>n DEF StopQueued
  <2>2. i - 1 \in 1..(n - 1) /\ i - 1 \in 1..n
    BY <1>3, <1>i, <2>1
  <2>3. queue'[i - 1] = queue[i]
    BY <1>3, <1>n, <2>2
  <2> QED
    BY <1>3, <1>n, <2>1, <2>2, <2>3 DEF StopQueued
<1>5. ASSUME NEW d, StopQueued(d)' PROVE StopQueued(d)
  <2>1. PICK i \in 1..n : queue'[i].kind = "stop" /\ queue'[i].conn = d
    BY <1>3, <1>5, <1>n DEF StopQueued
  <2>2. i \in 1..(n - 1) /\ i + 1 \in 1..n
    BY <1>3, <1>n, <1>i, <2>1
  <2>3. queue'[i] = queue[i + 1]
    BY <1>3, <1>n, <2>2
  <2> QED
    BY <1>n, <2>1, <2>2, <2>3 DEF StopQueued
<1> QED
  BY <1>4, <1>5 DEF StopPending, StopQueued

LEMMA AcceptHandlersLife ==
    ASSUME IInv, TypeOK', ResumeAccept \/ HandleAccept \/ HandleAcceptError
    PROVE  Life!Next
<1>1. CASE ResumeAccept
  <2>1. \A d \in Conns : StopPending(d)' <=> StopPending(d)
    BY <1>1 DEF ResumeAccept, StopPending
  <2> QED
    BY <1>1, <2>1, StartAcceptLife DEF ResumeAccept
<1>2. CASE HandleAccept
  <2>1. /\ Head(queue).kind = "accept" /\ queue # <<>>
        /\ queue' = Append(Tail(queue), Item("start", Head(queue).conn, "main"))
        /\ main = "run" /\ StartAccept({})
        /\ UNCHANGED <<connections, main, stopping, thread>>
    BY <1>2 DEF HandleAccept, Ready
  <2>2. Head(queue).conn \in Conns
    BY <2>1, TailElements, ItemTypes DEF IInv, TypeOK
  <2>3. /\ Item("start", Head(queue).conn, "main") \in Items
        /\ Item("start", Head(queue).conn, "main").kind # "stop"
    BY <2>2, ItemTypes DEF Kinds, Item
  <2>4. \A d \in Conns : StopPending(d)' <=> StopPending(d)
    BY <2>1, <2>3, StopsStayAround
  <2> QED
    BY <2>1, <2>4, StartAcceptLife
<1>3. CASE HandleAcceptError
  <2>1. /\ Head(queue).kind = "acceptError" /\ queue # <<>> /\ queue' = Tail(queue)
        /\ main = "run" /\ StartAccept({Head(queue).conn})
        /\ UNCHANGED <<connections, main, stopping, thread>>
    BY <1>3 DEF HandleAcceptError, Ready
  <2>2. /\ Head(queue).conn \in Conns /\ Fresh(Head(queue).conn)
        /\ Queued(Head(queue).conn)
    BY <2>1, DequeueKeeps DEF Unstarted, Accepted
  <2>3. life[Head(queue).conn] = "alive"
    BY <2>2 DEF IInv, Lifetime, RefsMatchLife, Held
  <2>4. \A d \in Conns : StopPending(d)' <=> StopPending(d)
    BY <2>1, StopsStayBehind
  <2> QED
    BY <2>1, <2>2, <2>3, <2>4, StartAcceptLife
<1> QED
  BY <1>1, <1>2, <1>3

\* The lambda posted by handleAccept(): the connection is listed and served.
LEMMA RunStartLife ==
    ASSUME IInv, TypeOK', RunStart
    PROVE  Life!Next
<1>t. "host" \in Threads
  BY DEF Threads
<1>1. /\ main = "run" /\ queue # <<>> /\ Head(queue).kind = "start" /\ queue' = Tail(queue)
      /\ UNCHANGED <<main, stopping, life>>
      /\ connections' = connections \cup {Head(queue).conn}
      /\ \/ SetJoinable("host", Head(queue).conn, TRUE) /\ Goto("host", Head(queue).conn, "request")
         \/ UNCHANGED <<thread, pc>>
  BY DEF RunStart, Ready
<1>2. /\ Head(queue).conn \in Conns /\ Fresh(Head(queue).conn) /\ Queued(Head(queue).conn)
  BY <1>1, DequeueKeeps DEF Unstarted
<1>3. PICK c \in Conns : c = Head(queue).conn
  BY <1>2
<1>4. Fresh(c) /\ life[c] = "alive"
  BY <1>2, <1>3 DEF IInv, Lifetime, RefsMatchLife, Held
<1>5. \A d \in Conns : StopPending(d)' <=> StopPending(d)
  BY <1>1, StopsStayBehind
<1>6. /\ \A t \in Threads, d \in Conns : t # "host" \/ d # c => /\ pc'[t][d] = pc[t][d]
                                                               /\ thread'[t][d] = thread[t][d]
      /\ pc'["host"][c] \in {"request", "none"}
  <2>1. CASE UNCHANGED <<thread, pc>>
    BY <1>4, <1>t, <2>1 DEF Fresh
  <2>2. CASE SetJoinable("host", c, TRUE) /\ Goto("host", c, "request")
    <3>1. /\ pc'["host"][c] = "request"
          /\ \A t \in Threads, d \in Conns : t # "host" \/ d # c => pc'[t][d] = pc[t][d]
      BY <2>2, <1>t, GotoEffect, PlaceTypes DEF IInv, TypeOK, Handshaking
    <3>2. \A t \in Threads, d \in Conns : t # "host" \/ d # c => thread'[t][d] = thread[t][d]
      BY <2>2, <1>t, SetJoinableEffect DEF IInv, TypeOK
    <3> QED
      BY <3>1, <3>2
  <2> QED
    BY <1>1, <1>3, <2>1, <2>2
<1>7. pc["host"][c] = "none" /\ pc["remote"][c] = "none" /\ pc'["remote"][c] = "none"
  BY <1>4, <1>6 DEF Fresh, Threads
<1>8. \A d \in Conns : /\ Asked(d)' <=> Asked(d)
                       /\ d # c => (Started(d)' <=> Started(d)) /\ Active(d)' = Active(d)
  <2>1. \A d \in Conns : ThreadHolds(d)' <=> ThreadHolds(d)
    BY <1>6, <1>7 DEF ThreadHolds, HasRef, Threads
  <2>2. \A d \in Conns : d # c => (Started(d)' <=> Started(d)) /\ Active(d)' = Active(d)
    BY <1>1, <1>3, <1>6, <1>t DEF Started, Active
  <2> QED
    BY <1>5, <2>1, <2>2 DEF Asked
<1>9. \A d \in Conns : d # c => StageOf(d)' = StageOf(d)
  BY <1>1, <1>8, SameStage DEF IInv
<1>10. StageOf(c) = "waiting" /\ StageOf(c)' = "serving"
  <2>1. StageOf(c) = "waiting" /\ ~Asked(c)
    BY <1>4, FreshIsWaiting
  <2>2. Started(c)'
    BY <1>1, <1>3 DEF Started
  <2> QED
    BY <1>1, <1>4, <1>8, <2>1, <2>2, StageIsNext DEF StagesAre
<1>11. Active(c)' = Active(c) \/ Active(c)' = {"host"}
  BY <1>6, <1>7 DEF Active, Threads, Ended
<1>12. ~Leaving /\ Only(c)
  BY <1>1, <1>8, <1>9 DEF Leaving, Only
<1> QED
  BY <1>10, <1>11, <1>12, LifeServes

\* The stop handler from the queue into its sleep.
LEMMA RunStopLife ==
    ASSUME IInv, TypeOK', RunStop
    PROVE  Life!Next
<1>1. /\ main = "run" /\ main' = "sleep" /\ queue # <<>> /\ queue' = Tail(queue)
      /\ Head(queue).kind = "stop" /\ stopping' = Head(queue)
      /\ UNCHANGED <<connections, life, thread, pc>>
  BY DEF RunStop, Ready
<1>2. \A d \in Conns : StopPending(d)' <=> StopPending(d)
  <2>1. \A d \in Conns : stopping.conn # d
    BY <1>1, ConstantsAssumption DEF IInv, MainStages, NoItem, Item
  <2>2. /\ \A d : StopQueued(d)' => StopQueued(d)
        /\ \A d : StopQueued(d) => StopQueued(d)' \/ Head(queue).conn = d
    BY <1>1, DequeueKeeps
  <2>3. StopQueued(Head(queue).conn)
    BY <1>1, Dequeue DEF IInv, StopQueued
  <2> QED
    BY <1>1, <2>1, <2>2, <2>3 DEF StopPending, StopQueued
<1> QED
  BY <1>1, <1>2, ServerUnseen DEF Leaving

\* One reference of the main thread goes; the object goes with it, or is held for
\* the sake of its stop, as it was before.
LEMMA DropLife ==
    ASSUME IInv, IInv', NEW c \in Conns, Held(c), life' = AfterDrop(c),
           c \notin connections',
           \A d \in Conns : d # c => /\ d \in connections' <=> d \in connections
                                     /\ StopPending(d)' <=> StopPending(d),
           Held(c)' => Asked(c),
           Asked(c) \/ Fresh(c) \/ Leaving,
           UNCHANGED <<thread, pc>>, Leaving' = Leaving
    PROVE  Life!Next
<1>1. /\ life[c] = "alive"
      /\ life'[c] = IF Held(c)' THEN "alive" ELSE "shutRemote"
      /\ \A d \in Conns : d # c => life'[d] = life[d]
  <2>1. life[c] = "alive"
    BY DEF IInv, Lifetime, RefsMatchLife
  <2> QED
    BY <2>1 DEF AfterDrop, IInv, TypeOK
<1>2. \A d \in Conns : /\ Active(d)' = Active(d)
                       /\ d # c => (Asked(d)' <=> Asked(d)) /\ (Started(d)' <=> Started(d))
  BY DEF Active, Asked, ThreadHolds, Started
<1>3. \A d \in Conns : d # c => StageOf(d)' = StageOf(d)
  BY <1>1, <1>2, SameStage DEF IInv
<1>4. Only(c)
  BY <1>2, <1>3 DEF Only
<1>5. CASE Held(c)'
  <2>1. ~Fresh(c)'
    BY <1>5 DEF Asked, ThreadHolds, HasRef, Fresh, IInv, HandshakeAlone, Threads
  <2>2. Asked(c)'
    BY <1>5, <2>1, HeldIsAskedNext DEF HeldForStop
  <2>3. StageOf(c) = "stopping" /\ StageOf(c)' = "stopping"
    BY <1>1, <1>5, <2>2, StageIs, StageIsNext DEF StagesAre, IInv
  <2>4. Unseen
    BY <1>2, <1>3, <2>3 DEF Unseen
  <2> QED
    BY <2>4, LifeStutters
<1>6. CASE ~Held(c)'
  <2>1. StageOf(c)' = "takenDown"
    BY <1>1, <1>6, StageIsNext DEF StagesAre, IInv, Destruction
  <2>2. StageOf(c) \in {"stopping", "waiting"} \/ (Leaving /\ StageOf(c) = "serving")
    BY <1>1, StageIs, FreshIsWaiting DEF StagesAre, IInv
  <2>3. Enters(c, {"takenDown"})
    BY <1>2, <1>4, <2>1 DEF Enters
  <2> QED
    BY <2>2, <2>3, LifeTakesDown
<1> QED
  BY <1>5, <1>6

LEMMA RemoveLife ==
    ASSUME IInv, IInv', Remove
    PROVE  Life!Next
<1>1. PICK c \in Conns : c = stopping.conn /\ life' = AfterDrop(c)
  BY DEF Remove
<1>2. /\ main = "sleep" /\ main' = "run" /\ stopping' = NoItem
      /\ connections' = connections \ {c} /\ UNCHANGED <<queue, thread, pc, acceptor>>
  BY <1>1 DEF Remove
<1>3. Held(c) /\ Asked(c) /\ ~Fresh(c)
  BY <1>1 DEF Held, Asked, StopPending, Fresh
<1>4. \A d \in Conns : d # c => /\ d \in connections' <=> d \in connections
                                /\ StopPending(d)' <=> StopPending(d)
  BY <1>1, <1>2, ConstantsAssumption DEF StopPending, NoItem, Item
<1>5. c \notin connections' /\ Leaving' = Leaving
  BY <1>2 DEF Leaving
<1> QED
  BY <1>1, <1>2, <1>3, <1>4, <1>5, DropLife

LEMMA ClearOneLife ==
    ASSUME IInv, IInv', ClearOne
    PROVE  Life!Next
<1>1. PICK c \in connections : connections' = connections \ {c} /\ life' = AfterDrop(c)
  BY DEF ClearOne
<1>2. main = "clear" /\ UNCHANGED <<main, stopping, queue, thread, pc, acceptor>>
  BY DEF ClearOne
<1>3. c \in Conns /\ Held(c) /\ ~Fresh(c) /\ Leaving /\ Leaving' = Leaving
  BY <1>2 DEF Held, Fresh, IInv, TypeOK, Leaving
<1>4. c # acceptor /\ \A i \in 1..Len(queue) : queue[i].conn = c => queue[i].kind \notin Unstarted
  BY <1>3, ConstantsAssumption DEF IInv, AcceptorFresh, QueueFresh
<1>5. Held(c)' => Asked(c)
  <2>1. ASSUME NEW i \in 1..Len(queue), queue[i].conn = c PROVE StopPending(c)
    <3>1. queue[i] \in Items /\ queue[i].conn # NoConn
      BY <1>3, <2>1, QueueElements, ConstantsAssumption DEF IInv
    <3>2. queue[i].kind = "stop"
      BY <1>4, <2>1, <3>1 DEF Items, Kinds, NoItem, Item, Unstarted, Accepted
    <3> QED
      BY <2>1, <3>2 DEF StopPending
  <2>2. Held(c)' => stopping.conn = c \/ Queued(c) \/ ThreadHolds(c)
    BY <1>1, <1>2, <1>4 DEF Held, Queued, ThreadHolds
  <2> QED
    BY <2>1, <2>2 DEF Queued, Asked, StopPending
<1>6. \A d \in Conns : d # c => /\ d \in connections' <=> d \in connections
                                /\ StopPending(d)' <=> StopPending(d)
  BY <1>1, <1>2 DEF StopPending
<1> QED
  BY <1>1, <1>2, <1>3, <1>5, <1>6, DropLife

\* ~io_service(): the handlers left in the queue let go of what they hold.
LEMMA DrainOneLife ==
    ASSUME IInv, IInv', DrainOne
    PROVE  Life!Next
<1>1. /\ main = "drain" /\ queue # <<>> /\ queue' = Tail(queue)
      /\ UNCHANGED <<connections, acceptor, main, stopping, thread, pc>>
      /\ connections = {} /\ acceptor = NoConn /\ stopping = NoItem
  BY DEF DrainOne, IInv, MainStages
<1>2. CASE Head(queue).conn = NoConn /\ UNCHANGED life
  <2>1. Head(queue).kind # "stop"
    BY <1>1, <1>2, DequeueKeeps, ConstantsAssumption
  <2>2. \A d \in Conns : StopPending(d)' <=> StopPending(d)
    BY <1>1, <2>1, StopsStayBehind
  <2> QED
    BY <1>1, <1>2, <2>2, ServerUnseen DEF Leaving, IInv
<1>3. CASE \E c \in Conns : c = Head(queue).conn /\ life' = AfterDrop(c)
  <2>1. PICK c \in Conns : c = Head(queue).conn /\ life' = AfterDrop(c)
    BY <1>3
  <2>2. Held(c) /\ Leaving /\ Leaving' = Leaving /\ c \notin connections'
    BY <1>1, <2>1, Dequeue DEF Held, Leaving, IInv
  <2>3. \A d \in Conns : d # c => /\ d \in connections' <=> d \in connections
                                  /\ StopPending(d)' <=> StopPending(d)
    <3>1. \A d \in Conns : d # c => (StopQueued(d)' <=> StopQueued(d))
      BY <1>1, <2>1, DequeueKeeps
    <3> QED
      BY <1>1, <3>1 DEF StopPending, StopQueued
  <2>4. Held(c)' => Asked(c)
    <3>1. CASE Head(queue).kind = "stop"
      <4>1. StopQueued(c)
        BY <1>1, <2>1, <3>1, Dequeue DEF IInv, StopQueued
      <4> QED
        BY <4>1 DEF Asked, StopPending, StopQueued
    <3>2. CASE Head(queue).kind \in Unstarted
      <4>1. Fresh(c) /\ ~Queued(c)'
        BY <1>1, <2>1, <3>2, DequeueKeeps
      <4> QED
        BY <1>1, <4>1, ConstantsAssumption
           DEF Held, ThreadHolds, Fresh, HasRef, NoItem, Item
    <3>3. Head(queue).kind \in Kinds
      BY <1>1, <2>1, Dequeue, ConstantsAssumption DEF IInv, Items, NoItem, Item
    <3> QED
      BY <3>1, <3>2, <3>3 DEF Kinds, Unstarted, Accepted
  <2> QED
    BY <1>1, <2>1, <2>2, <2>3, <2>4, DropLife
<1> QED
  BY <1>2, <1>3 DEF DrainOne

\* The signal: the server is being destroyed from here on.
LEMMA RunSignalLife ==
    ASSUME IInv, TypeOK', RunSignal
    PROVE  Life!Next
<1>1. /\ main = "run" /\ main' = "clear" /\ queue # <<>> /\ Head(queue).kind = "signal"
      /\ UNCHANGED <<connections, stopping, life, thread, pc>>
      /\ queue' = IF acceptor = NoConn THEN Tail(queue)
                  ELSE Append(Tail(queue), Item("acceptError", acceptor, "main"))
  BY DEF RunSignal, Ready
<1>2. \A d \in Conns : StopPending(d)' <=> StopPending(d)
  <2>1. CASE acceptor = NoConn
    BY <1>1, <2>1, StopsStayBehind
  <2>2. CASE acceptor # NoConn
    <3>1. /\ Item("acceptError", acceptor, "main") \in Items
          /\ Item("acceptError", acceptor, "main").kind # "stop"
      BY <2>2, ItemTypes DEF IInv, TypeOK, Kinds, Item
    <3> QED
      BY <1>1, <2>2, <3>1, StopsStayAround
  <2> QED
    BY <2>1, <2>2
<1>3. \A d \in Conns : /\ (Asked(d)' <=> Asked(d)) /\ (Started(d)' <=> Started(d))
                       /\ Active(d)' = Active(d)
  BY <1>1, <1>2 DEF Asked, ThreadHolds, Started, Active
<1>4. \A d \in Conns : StageOf(d)' = StageOf(d)
  BY <1>1, <1>3, SameStage DEF IInv
<1>5. ~Leaving /\ Leaving'
  BY <1>1 DEF Leaving
<1> QED
  BY <1>3, <1>4, <1>5, LifeLeaves

LEMMA MainEndsLife ==
    ASSUME IInv, TypeOK', ClearDone \/ Halt \/ Exit
    PROVE  Life!Next
<1>1. /\ UNCHANGED <<connections, life, thread, pc, queue, stopping>>
      /\ Leaving' = Leaving
  BY DEF ClearDone, Halt, Exit, serverVars, Leaving
<1> QED
  BY <1>1, ServerUnseen DEF StopPending

-----------------------------------------------------------------------------
(* The theorem.                                                              *)

LEMMA LifeInit == Init => Life!Init
<1> SUFFICES ASSUME Init PROVE Life!Init
  OBVIOUS
<1>1. IInv /\ TypeOK
  BY InvInit DEF IInv
<1>2. PICK first \in Conns : first = acceptor
  BY DEF Init
<1>3. life[first] = "alive" /\ \A d \in Conns : d # first => life[d] = "free"
  BY <1>2 DEF Init
<1>4. Fresh(first)
  BY <1>1, <1>2, ConstantsAssumption DEF IInv, AcceptorFresh
<1>5. \A d \in Conns : StageOf(d) = IF d = first THEN "waiting" ELSE "free"
  BY <1>1, <1>3, <1>4, FreshIsWaiting, StageIs DEF StagesAre
<1>6. \A d \in Conns : Active(d) = {}
  BY DEF Init, Active
<1>7. ~Leaving
  BY DEF Init, Leaving
<1> QED
  BY <1>5, <1>6, <1>7 DEF Life!Init, Active, Leaving

LEMMA LifeStep == IInv /\ [Next]_vars => Life!Next
<1> SUFFICES ASSUME IInv, [Next]_vars PROVE Life!Next
  OBVIOUS
<1>t. TypeOK /\ IInv' /\ TypeOK'
  BY InvStep DEF IInv
<1>1. CASE UNCHANGED vars
  BY <1>1, <1>t, ServerUnseen DEF vars, serverVars, StopPending, Leaving
<1>2. CASE ServerStep
  BY <1>t, <1>2, AcceptDoneLife, SignalLife, AcceptHandlersLife, RunStartLife, RunStopLife,
     RemoveLife, RunSignalLife, ClearOneLife, MainEndsLife, DrainOneLife DEF ServerStep
<1>3. ASSUME NEW c \in Conns,
             \/ Closes(c) \/ JoinThreads(c) \/ DestroyMembers(c) \/ Spawn(c) \/ Catch(c)
             \/ \E t \in Threads : MovesOn(t, c) \/ Stop(t, c) \/ Post(t, c) \/ Release(t, c)
      PROVE  Life!Next
  BY <1>t, <1>3, ClosesLife, JoinThreadsLife, DestroyMembersLife, SpawnLife, CatchLife,
     MovesOnLife, StopLife, PostLife, ReleaseLife
<1> QED
  BY <1>t, <1>1, <1>2, <1>3, StepCases

\* SocksServer implements ConnectionLife, whatever the sleep of stopConnection() is
\* worth: while the server runs a connection that is served is taken down only after
\* one of its threads asked for it, storage is given back only after both its threads
\* ended, and no connection is made or started once the server is being destroyed.
THEOREM LivesAsPromised == Spec => ImplementsConnectionLife
<1>1. IInv /\ [Next]_vars => [Life!Next]_(Life!vars)
  BY LifeStep
<1> QED
  BY <1>1, LifeInit, Invariant, PTL DEF Spec, ImplementsConnectionLife, Life!Spec
=============================================================================
