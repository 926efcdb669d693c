-------------------------- MODULE SocksServerProofs --------------------------
(***************************************************************************)
(* Theorems about the server for any sets of connections and descriptors.  *)
(*                                                                         *)
(* The properties are consequences of one inductive invariant, IInv of     *)
(* ServerInvariant: it holds initially (InvInit), every step keeps it (one *)
(* lemma for each step, InvStep), and each property follows from it.       *)
(***************************************************************************)
EXTENDS ServerInvariant, TLAPS

-----------------------------------------------------------------------------
(* Queues: what Append and Tail keep, element by element.                    *)

LEMMA AppendElements ==
    ASSUME NEW S, NEW q \in Seq(S), NEW e \in S
    PROVE  /\ Append(q, e) \in Seq(S)
           /\ Len(Append(q, e)) = Len(q) + 1
           /\ \A i \in 1..Len(q) : Append(q, e)[i] = q[i]
           /\ Append(q, e)[Len(q) + 1] = e
  OBVIOUS

LEMMA TailElements ==
    ASSUME NEW S, NEW q \in Seq(S), q # <<>>
    PROVE  /\ Head(q) = q[1] /\ Head(q) \in S
           /\ Tail(q) \in Seq(S)
           /\ Len(q) \in Nat \ {0}
           /\ Len(Tail(q)) = Len(q) - 1
           /\ \A i \in 1..Len(Tail(q)) : Tail(q)[i] = q[i + 1]
  OBVIOUS

-----------------------------------------------------------------------------
(* Types.                                                                    *)

LEMMA ItemTypes ==
    /\ NoItem \in Items
    /\ \A kind \in Kinds, c \in Conns, t \in Threads \cup {"main"} :
          Item(kind, c, t) \in Items
    /\ \A i \in Items : i.kind # "signal" => i.kind \in Kinds /\ i.conn \in Conns
    /\ \A i \in Items : i.conn \in Conns \cup {NoConn}
    /\ \A i \in Items : i.conn = NoConn => i = NoItem
  BY ConstantsAssumption DEF NoItem, Item, Items, Kinds, Threads

\* The per-thread, per-connection maps sock, thread, pc and fd, updated at one
\* place.
LEMMA Update ==
    ASSUME NEW S, NEW f \in [Threads -> [Conns -> S]],
           NEW t \in Threads, NEW c \in Conns, NEW v \in S
    PROVE  LET g == [f EXCEPT ![t][c] = v] IN
           /\ g \in [Threads -> [Conns -> S]]
           /\ g[t][c] = v
           /\ \A u \in Threads, d \in Conns : u # t \/ d # c => g[u][d] = f[u][d]
  OBVIOUS

LEMMA PlaceTypes ==
    /\ Handshaking \subseteq Places
    /\ Relaying \subseteq Places
    /\ HasRef \subseteq Places
    /\ Ended \subseteq Places
    /\ {"none", "destroying"} \subseteq Places
  BY DEF Places

LEMMA GotoEffect ==
    ASSUME pc \in [Threads -> [Conns -> Places]],
           NEW t \in Threads, NEW c \in Conns, NEW v \in Places, Goto(t, c, v)
    PROVE  /\ pc' \in [Threads -> [Conns -> Places]]
           /\ pc'[t][c] = v
           /\ \A u \in Threads, d \in Conns : u # t \/ d # c => pc'[u][d] = pc[u][d]
  BY Update DEF Goto

LEMMA SetSocketEffect ==
    ASSUME sock \in [Threads -> [Conns -> (Fds \cup {NoFd})]],
           NEW t \in Threads, NEW c \in Conns, NEW v \in (Fds \cup {NoFd}), SetSocket(t, c, v)
    PROVE  /\ sock' \in [Threads -> [Conns -> (Fds \cup {NoFd})]]
           /\ sock'[t][c] = v
           /\ \A u \in Threads, d \in Conns : u # t \/ d # c => sock'[u][d] = sock[u][d]
  BY Update DEF SetSocket

LEMMA SetFdEffect ==
    ASSUME fd \in [Threads -> [Conns -> (Fds \cup {NoFd})]],
           NEW t \in Threads, NEW c \in Conns, NEW v \in (Fds \cup {NoFd}), SetFd(t, c, v)
    PROVE  /\ fd' \in [Threads -> [Conns -> (Fds \cup {NoFd})]]
           /\ fd'[t][c] = v
           /\ \A u \in Threads, d \in Conns : u # t \/ d # c => fd'[u][d] = fd[u][d]
  BY Update DEF SetFd

LEMMA SetJoinableEffect ==
    ASSUME thread \in [Threads -> [Conns -> BOOLEAN]],
           NEW t \in Threads, NEW c \in Conns, NEW v \in BOOLEAN, SetJoinable(t, c, v)
    PROVE  /\ thread' \in [Threads -> [Conns -> BOOLEAN]]
           /\ thread'[t][c] = v
           /\ \A u \in Threads, d \in Conns : u # t \/ d # c => thread'[u][d] = thread[u][d]
  BY Update DEF SetJoinable

LEMMA TypeStep == TypeOK /\ [Next]_vars => TypeOK'
<1> SUFFICES ASSUME TypeOK, [Next]_vars PROVE TypeOK'
  OBVIOUS
<1> USE ItemTypes DEF TypeOK, serverVars
<1>t. "host" \in Threads /\ "remote" \in Threads
  BY DEF Threads
<1>1. CASE UNCHANGED vars
  BY <1>1 DEF vars
<1>2. CASE AcceptDone
  <2>1. /\ Item("accept", acceptor, "main") \in Items
        /\ Item("acceptError", acceptor, "main") \in Items
    BY <1>2 DEF AcceptDone, Kinds
  <2>2. queue' \in Seq(Items)
    <3>1. CASE queue' = Append(queue, Item("accept", acceptor, "main"))
      BY <2>1, <3>1, AppendElements
    <3>2. CASE queue' = Append(queue, Item("acceptError", acceptor, "main"))
      BY <2>1, <3>2, AppendElements
    <3> QED
      BY <1>2, <3>1, <3>2 DEF AcceptDone
  <2>3. sock' \in [Threads -> [Conns -> Fds \cup {NoFd}]]
    BY <1>2, <1>t, SetSocketEffect DEF AcceptDone
  <2> QED
    BY <1>2, <2>2, <2>3 DEF AcceptDone
<1>3. CASE ResumeAccept
  BY <1>3, PlaceTypes, SMTT(30) DEF ResumeAccept, StartAccept
<1>4. CASE Signal
  BY <1>4, AppendElements DEF Signal
<1>5. CASE HandleAccept
  <2>1. Item("start", Head(queue).conn, "main") \in Items
    BY <1>5, TailElements DEF HandleAccept, Ready, Kinds
  <2>2. queue' \in Seq(Items)
    BY <1>5, <2>1, TailElements, AppendElements DEF HandleAccept, Ready
  <2> QED
    BY <1>5, <2>2, PlaceTypes DEF HandleAccept, StartAccept
<1>6. CASE HandleAcceptError
  BY <1>6, TailElements, PlaceTypes DEF HandleAcceptError, Ready, StartAccept, Destruction
<1>7. CASE RunStart
  <2>1. Head(queue).conn \in Conns
    BY <1>7, TailElements DEF RunStart, Ready
  <2>2. pc' \in [Threads -> [Conns -> Places]]
    BY <1>7, <1>t, <2>1, GotoEffect, PlaceTypes DEF RunStart, Handshaking
  <2>3. thread' \in [Threads -> [Conns -> BOOLEAN]]
    BY <1>7, <1>t, <2>1, SetJoinableEffect DEF RunStart
  <2> QED
    BY <1>7, <2>1, <2>2, <2>3, TailElements DEF RunStart, Ready, Fates
<1>8. CASE RunStop
  BY <1>8, TailElements DEF RunStop, Ready, Stages
<1>9. CASE Remove
  BY <1>9 DEF Remove, AfterDrop, Stages, Destruction
<1>10. CASE RunSignal
  <2>1. acceptor # NoConn => Item("acceptError", acceptor, "main") \in Items
    BY DEF Kinds
  <2> QED
    BY <1>10, <2>1, TailElements, AppendElements DEF RunSignal, Ready, Stages
<1>11. CASE ClearOne
  BY <1>11 DEF ClearOne, AfterDrop, Destruction
<1>12. CASE ClearDone \/ Halt \/ Exit
  BY <1>12 DEF ClearDone, Halt, Exit, Stages, Fates
<1>13. CASE DrainOne
  BY <1>13, TailElements DEF DrainOne, AfterDrop, Destruction
<1>14. ASSUME NEW c \in Conns, Handshake(c) PROVE TypeOK'
  <2>1. CASE ReadRequest(c) \/ Connect(c) \/ Refuse(c) \/ Reply(c)
    <3>1. \E place \in Handshaking : Goto("host", c, place)
      BY <2>1 DEF ReadRequest, Connect, Refuse, Reply, Handshaking
    <3> QED
      BY <2>1, <3>1, <1>t, GotoEffect, PlaceTypes DEF ReadRequest, Connect, Refuse, Reply
  <2>2. CASE OpenRemote(c)
    <3>1. \E place \in Handshaking : Goto("host", c, place)
      BY <2>2 DEF OpenRemote, Handshaking
    <3>2. sock' \in [Threads -> [Conns -> Fds \cup {NoFd}]]
      BY <2>2, <1>t, SetSocketEffect DEF OpenRemote
    <3> QED
      BY <2>2, <3>1, <3>2, <1>t, GotoEffect, PlaceTypes DEF OpenRemote
  <2>3. CASE Spawn(c)
    <3>1. CASE Goto("host", c, "catch") /\ UNCHANGED thread
      BY <2>3, <3>1, <1>t, GotoEffect, PlaceTypes DEF Spawn, Handshaking
    <3>2. CASE /\ SetJoinable("remote", c, TRUE)
               /\ pc' = [pc EXCEPT !["host"][c] = "read", !["remote"][c] = "read"]
      <4>1. "read" \in Places
        BY DEF Places, Relaying
      <4>2. pc' \in [Threads -> [Conns -> Places]]
        <5>1. [pc EXCEPT !["host"][c] = "read"] \in [Threads -> [Conns -> Places]]
          BY <4>1, <1>t, Update
        <5>2. pc' = [[pc EXCEPT !["host"][c] = "read"] EXCEPT !["remote"][c] = "read"]
          BY <3>2
        <5> QED
          BY <4>1, <5>1, <5>2, <1>t, Update
      <4> QED
        BY <2>3, <3>2, <4>2, <1>t, SetJoinableEffect DEF Spawn
    <3> QED
      BY <2>3, <3>1, <3>2 DEF Spawn
  <2>4. CASE Catch(c)
    BY <2>4, <1>t, GotoEffect, PlaceTypes DEF Catch, HasRef, Fates
  <2> QED
    BY <1>14, <2>1, <2>2, <2>3, <2>4 DEF Handshake
<1>15. ASSUME NEW c \in Conns, NEW t \in Threads, Relay(t, c) PROVE TypeOK'
  <2>o. Other(t) \in Threads
    BY <1>t DEF Other
  <2>1. CASE FetchSource(t, c) \/ FetchSink(t, c)
    <3>1. \E place \in Relaying : Goto(t, c, place)
      BY <2>1 DEF FetchSource, FetchSink, Relaying
    <3>2. fd' \in [Threads -> [Conns -> Fds \cup {NoFd}]]
      BY <2>1, <2>o, SetFdEffect DEF FetchSource, FetchSink
    <3> QED
      BY <2>1, <3>1, <3>2, GotoEffect, PlaceTypes DEF FetchSource, FetchSink
  <2>2. CASE Read(t, c) \/ Write(t, c)
    <3>1. \E place \in Relaying \cup Ended : Goto(t, c, place)
      BY <2>2 DEF Read, Write, Relaying, Ended
    <3>2. fd' \in [Threads -> [Conns -> Fds \cup {NoFd}]]
      BY <2>2, SetFdEffect DEF Read, Write
    <3> QED
      BY <2>2, <3>1, <3>2, GotoEffect, PlaceTypes DEF Read, Write
  <2>3. CASE Stop(t, c)
    BY <2>3, GotoEffect, PlaceTypes DEF Stop, HasRef, Ended
  <2>4. CASE Post(t, c)
    <3>1. Item("stop", c, t) \in Items
      BY DEF Kinds
    <3>2. queue' \in Seq(Items)
      <4>1. Append(queue, Item("stop", c, t)) \in Seq(Items)
        BY <3>1, AppendElements
      <4> QED
        BY <2>4, <4>1 DEF Post
    <3>3. pc' \in [Threads -> [Conns -> Places]]
      BY <2>4, GotoEffect, PlaceTypes DEF Post, HasRef
    <3> QED
      BY <2>4, <3>2, <3>3 DEF Post, Fates
  <2>5. CASE Release(t, c)
    BY <2>5, GotoEffect, PlaceTypes DEF Release, AfterDrop, Ended, Destruction
  <2> QED
    BY <1>15, <2>1, <2>2, <2>3, <2>4, <2>5 DEF Relay
<1>16. ASSUME NEW c \in Conns, Destructor(c) PROVE TypeOK'
  <2>l. life' \in [Conns -> {"free", "alive"} \cup Destruction]
    BY <1>16 DEF Destructor, CloseSockets, ShutSocket, CloseSocket, JoinThreads, Join,
                 DestroyMembers, Destruction
  <2>1. CASE CloseSockets(c)
    <3>1. sock' \in [Threads -> [Conns -> Fds \cup {NoFd}]]
      BY <2>1, <1>t, SetSocketEffect DEF CloseSockets, ShutSocket, CloseSocket
    <3> QED
      BY <2>1, <2>l, <3>1 DEF CloseSockets, ShutSocket, CloseSocket
  <2>2. CASE JoinThreads(c)
    <3>1. thread' \in [Threads -> [Conns -> BOOLEAN]]
      BY <2>2, <1>t, SetJoinableEffect DEF JoinThreads, Join
    <3> QED
      BY <2>2, <2>l, <3>1 DEF JoinThreads, Join
  <2>3. CASE DestroyMembers(c)
    <3>1. sock' \in [Threads -> [Conns -> Fds \cup {NoFd}]]
      BY <2>3 DEF DestroyMembers
    <3> QED
      BY <2>3, <2>l, <3>1 DEF DestroyMembers, Fates
  <2> QED
    BY <1>16, <2>1, <2>2, <2>3 DEF Destructor
<1> QED
  BY <1>1, <1>2, <1>3, <1>4, <1>5, <1>6, <1>7, <1>8, <1>9, <1>10, <1>11, <1>12,
     <1>13, <1>14, <1>15, <1>16 DEF Next, MainStep, ConnectionNext, Finished

LEMMA TypeInit == Init => TypeOK
<1> SUFFICES ASSUME Init PROVE TypeOK
  OBVIOUS
<1>1. queue \in Seq(Items) /\ stopping \in Items /\ acceptor \in Conns
  BY ItemTypes DEF Init
<1>2. main \in Stages /\ fate \in Fates /\ signalled \in BOOLEAN /\ connections \subseteq Conns
  BY DEF Init, Stages, Fates
<1>3. life \in [Conns -> {"free", "alive"} \cup Destruction]
  BY DEF Init
<1>4. /\ sock \in [Threads -> [Conns -> Fds \cup {NoFd}]]
      /\ fd \in [Threads -> [Conns -> Fds \cup {NoFd}]]
      /\ thread \in [Threads -> [Conns -> BOOLEAN]]
  BY DEF Init
<1>5. pc \in [Threads -> [Conns -> Places]]
  BY PlaceTypes DEF Init
<1> QED
  BY <1>1, <1>2, <1>3, <1>4, <1>5 DEF TypeOK

\* Every variable keeps to its type.
THEOREM TypeCorrect == Spec => []TypeOK
  BY TypeInit, TypeStep, PTL DEF Spec

-----------------------------------------------------------------------------
(* The steps that matter to the invariant.  Most steps of a thread only move *)
(* it on, and most stages of the destructor only touch a socket.             *)

Elsewhere(t, c) ==
    \A u \in Threads, d \in Conns : u # t \/ d # c => pc'[u][d] = pc[u][d]

MovesOn(t, c) ==
    /\ \/ t = "host" /\ pc[t][c] \in Handshaking /\ pc'[t][c] \in Handshaking
       \/ pc[t][c] \in Relaying /\ pc'[t][c] \in Relaying \cup {"failed"}
    /\ Elsewhere(t, c)
    /\ UNCHANGED <<connections, acceptor, main, stopping, queue, fate, life, thread>>

Closes(c) ==
    /\ life[c] \in Destruction
    /\ \E stage \in Destruction \ {"joinRemote", "members"} :
          life' = [life EXCEPT ![c] = stage]
    /\ UNCHANGED <<connections, acceptor, main, stopping, queue, fate, thread, pc>>

ServerStep ==
    \/ AcceptDone \/ ResumeAccept \/ Signal
    \/ HandleAccept \/ HandleAcceptError \/ RunStart \/ RunStop \/ Remove
    \/ RunSignal \/ ClearOne \/ ClearDone \/ Halt \/ DrainOne \/ Exit

LEMMA StepCases ==
    ASSUME TypeOK, [Next]_vars
    PROVE  \/ UNCHANGED vars
           \/ fate = "running" /\ ServerStep
           \/ /\ fate = "running"
              /\ \E c \in Conns :
                    \/ Closes(c) \/ JoinThreads(c) \/ DestroyMembers(c)
                    \/ Spawn(c) \/ Catch(c)
                    \/ \E t \in Threads : MovesOn(t, c) \/ Stop(t, c) \/ Post(t, c) \/ Release(t, c)
<1>t. "host" \in Threads /\ "remote" \in Threads
  BY DEF Threads
<1>1. ASSUME NEW c \in Conns, Handshake(c)
      PROVE  MovesOn("host", c) \/ Spawn(c) \/ Catch(c)
  <2>1. CASE ReadRequest(c) \/ OpenRemote(c) \/ Connect(c) \/ Refuse(c) \/ Reply(c)
    <3>1. /\ pc["host"][c] \in Handshaking
          /\ \E place \in Handshaking : Goto("host", c, place)
      BY <2>1 DEF ReadRequest, OpenRemote, Connect, Refuse, Reply, Handshaking
    <3>2. UNCHANGED <<connections, acceptor, main, stopping, queue, fate, life, thread>>
      BY <2>1 DEF ReadRequest, OpenRemote, Connect, Refuse, Reply, serverVars
    <3>3. pc'["host"][c] \in Handshaking /\ Elsewhere("host", c)
      BY <3>1, <1>t, GotoEffect, PlaceTypes DEF TypeOK, Elsewhere
    <3> QED
      BY <3>1, <3>2, <3>3 DEF MovesOn
  <2> QED
    BY <1>1, <2>1 DEF Handshake
<1>2. ASSUME NEW c \in Conns, NEW t \in Threads, Relay(t, c)
      PROVE  MovesOn(t, c) \/ Stop(t, c) \/ Post(t, c) \/ Release(t, c)
  <2>1. CASE FetchSource(t, c) \/ Read(t, c) \/ FetchSink(t, c) \/ Write(t, c)
    <3>1. /\ pc[t][c] \in Relaying
          /\ \E place \in Relaying \cup {"failed"} : Goto(t, c, place)
      BY <2>1 DEF FetchSource, Read, FetchSink, Write, Relaying
    <3>2. UNCHANGED <<connections, acceptor, main, stopping, queue, fate, life, thread>>
      BY <2>1 DEF FetchSource, Read, FetchSink, Write, serverVars
    <3>3. pc'[t][c] \in Relaying \cup {"failed"} /\ Elsewhere(t, c)
      BY <3>1, GotoEffect, PlaceTypes DEF TypeOK, Elsewhere, Ended
    <3> QED
      BY <3>1, <3>2, <3>3 DEF MovesOn
  <2> QED
    BY <1>2, <2>1 DEF Relay
<1>3. ASSUME NEW c \in Conns, CloseSockets(c) PROVE Closes(c)
  BY <1>3 DEF CloseSockets, ShutSocket, CloseSocket, Closes, Destruction, serverVars
<1> QED
  BY <1>1, <1>2, <1>3, <1>t DEF Next, Running, MainStep, ServerStep, ConnectionNext,
     Destructor, Finished

-----------------------------------------------------------------------------
(* The invariant holds initially and is kept by every step.                  *)

\* The elements of the queue.
LEMMA QueueElements ==
    ASSUME TypeOK
    PROVE  /\ Len(queue) \in Nat
           /\ \A i \in 1..Len(queue) :
                 /\ queue[i] \in Items
                 /\ queue[i].kind # "signal" => queue[i].conn \in Conns
<1>1. \A i \in 1..Len(queue) : queue[i] \in Items
  BY DEF TypeOK
<1> QED
  BY <1>1, ItemTypes DEF TypeOK

LEMMA InvInit == Init => IInv
<1> SUFFICES ASSUME Init PROVE IInv
  OBVIOUS
<1>1. TypeOK
  BY TypeInit
<1>2. /\ \A c \in Conns : ~Queued(c) /\ ~ThreadHolds(c) /\ ~StopPending(c)
      /\ \A c \in Conns : stopping.conn # c /\ c \notin connections
  BY ConstantsAssumption DEF Init, Queued, ThreadHolds, StopPending, NoItem, Item, HasRef
<1>3. MainStages /\ QueueFresh /\ StopKept /\ Outcomes
  BY DEF Init, MainStages, QueueFresh, StopKept, Outcomes, NoJoinableThreadLeft,
         EscapeOnlyAtShutdown, DestroyedOnMain, OnOwnThread
<1>4. AcceptorFresh
  BY <1>2 DEF Init, AcceptorFresh, Fresh
<1>5. Lifetime /\ JoinStages
  BY <1>2 DEF Init, Lifetime, RefsMatchLife, Held, ThreadsKnown, FreeUnjoined, JoinStages
<1>6. HandshakeAlone /\ HandshakeListed /\ ReleaseBacked
  BY <1>2 DEF Init, HandshakeAlone, HandshakeListed, ReleaseBacked, Handshaking, Threads
<1> QED
  BY <1>1, <1>3, <1>4, <1>5, <1>6 DEF IInv

LEMMA InvMovesOn ==
    ASSUME IInv, TypeOK', NEW c \in Conns, NEW t \in Threads, MovesOn(t, c)
    PROVE  IInv'
<1> USE DEF MovesOn, Elsewhere, Handshaking, Relaying
<1>1. MainStages' /\ HandshakeListed'
  BY DEF IInv, MainStages, HandshakeListed, Threads
<1>2. \A d \in Conns : (ThreadHolds(d)' <=> ThreadHolds(d)) /\ (OnOwnThread(d)' <=> OnOwnThread(d))
  BY DEF ThreadHolds, OnOwnThread, HasRef
<1>3. Lifetime'
  BY <1>2 DEF IInv, Lifetime, RefsMatchLife, Held, Queued, ThreadsKnown, FreeUnjoined, Ended
<1>4. \A d : Fresh(d) /\ d \in Conns => Fresh(d)'
  BY DEF Fresh
<1>5. AcceptorFresh'
  BY <1>4 DEF IInv, AcceptorFresh, Queued, TypeOK
<1>6. QueueFresh'
  BY <1>4, QueueElements DEF IInv, QueueFresh, Unstarted, Accepted
<1>7. JoinStages' /\ Outcomes'
  BY <1>2 DEF IInv, JoinStages, Outcomes, DestroyedOnMain, NoJoinableThreadLeft, EscapeOnlyAtShutdown
<1>8. HandshakeAlone'
  BY DEF IInv, HandshakeAlone, StopPending, Threads
<1>9. StopKept' /\ ReleaseBacked'
  <2>1. \A d \in Conns : StopPending(d)' <=> StopPending(d)
    BY DEF StopPending
  <2>2. \A u \in Threads, d \in Conns :
           pc'[u][d] \in {"release", "done"} => pc'[u][d] = pc[u][d]
    OBVIOUS
  <2> QED
    BY <2>1, <2>2 DEF IInv, StopKept, ReleaseBacked, TypeOK
<1> QED
  BY <1>1, <1>3, <1>5, <1>6, <1>7, <1>8, <1>9 DEF IInv

LEMMA InvCloses ==
    ASSUME IInv, TypeOK', NEW c \in Conns, Closes(c)
    PROVE  IInv'
<1> USE DEF Closes
<1>1. MainStages' /\ HandshakeListed' /\ AcceptorFresh' /\ QueueFresh'
  BY DEF IInv, MainStages, HandshakeListed, AcceptorFresh, QueueFresh, Fresh, Queued
<1>2. HandshakeAlone' /\ StopKept' /\ ReleaseBacked' /\ Outcomes'
  BY DEF IInv, HandshakeAlone, StopKept, ReleaseBacked, StopPending, Outcomes,
         DestroyedOnMain, OnOwnThread, NoJoinableThreadLeft, EscapeOnlyAtShutdown
<1>3. \A d \in Conns :
         /\ life'[d] = "alive" <=> life[d] = "alive"
         /\ life'[d] = "free" <=> life[d] = "free"
         /\ life'[d] \in {"joinRemote", "members"} => life'[d] = life[d]
  BY DEF IInv, TypeOK, Destruction
<1>4. Lifetime' /\ JoinStages'
  BY <1>3 DEF IInv, Lifetime, RefsMatchLife, Held, Queued, ThreadHolds, ThreadsKnown,
         FreeUnjoined, JoinStages, OnOwnThread
<1> QED
  BY <1>1, <1>2, <1>4 DEF IInv

LEMMA InvJoinThreads ==
    ASSUME IInv, TypeOK', NEW c \in Conns, JoinThreads(c)
    PROVE  IInv'
<1>u. UNCHANGED <<connections, acceptor, main, stopping, queue, fate, pc>>
  BY DEF JoinThreads, Join, serverVars
<1>t. \A u \in Threads, d \in Conns :
         /\ ~thread[u][d] => ~thread'[u][d]
         /\ ~thread'[u][d] => ~thread[u][d] \/ pc[u][d] \in Ended
  <2>1. CASE UNCHANGED thread
    BY <2>1
  <2>2. ASSUME NEW t \in Threads, SetJoinable(t, c, FALSE), pc[t][c] \in Ended
        PROVE  \A u \in Threads, d \in Conns :
                  /\ ~thread[u][d] => ~thread'[u][d]
                  /\ ~thread'[u][d] => ~thread[u][d] \/ pc[u][d] \in Ended
    <3>1. /\ ~thread'[t][c]
          /\ \A u \in Threads, d \in Conns : u # t \/ d # c => thread'[u][d] = thread[u][d]
      BY <2>2, SetJoinableEffect DEF IInv, TypeOK
    <3> QED
      BY <2>2, <3>1
  <2> QED
    BY <2>1, <2>2 DEF JoinThreads, Join, Threads
<1>l. \A d \in Conns :
         /\ life'[d] = "alive" <=> life[d] = "alive"
         /\ life'[d] = "free" <=> life[d] = "free"
  BY DEF IInv, TypeOK, Destruction, JoinThreads, Join
<1>d. \A d \in Conns : d # c => \A u \in Threads : thread'[u][d] = thread[u][d]
  <2>1. UNCHANGED thread \/ \E t \in Threads : SetJoinable(t, c, FALSE)
    BY DEF JoinThreads, Join, Threads
  <2>2. ASSUME NEW t \in Threads, SetJoinable(t, c, FALSE)
        PROVE  \A d \in Conns : d # c => \A u \in Threads : thread'[u][d] = thread[u][d]
    <3>1. thread \in [Threads -> [Conns -> BOOLEAN]]
      BY DEF IInv, TypeOK
    <3>2. \A u \in Threads, d \in Conns : u # t \/ d # c => thread'[u][d] = thread[u][d]
      BY <2>2, <3>1, SetJoinableEffect
    <3> QED
      BY <3>2
  <2> QED
    BY <2>1, <2>2
<1>c. life'[c] # "alive"
  BY <1>l DEF JoinThreads, Join
<1>1. MainStages' /\ HandshakeListed' /\ AcceptorFresh' /\ QueueFresh'
  BY <1>u, <1>t, QueueElements
     DEF IInv, TypeOK, MainStages, HandshakeListed, AcceptorFresh, QueueFresh, Fresh, Queued, Unstarted, Accepted
<1>2. HandshakeAlone' /\ StopKept' /\ ReleaseBacked' /\ Outcomes'
  BY <1>u DEF IInv, HandshakeAlone, StopKept, ReleaseBacked, StopPending, Outcomes,
         DestroyedOnMain, OnOwnThread, NoJoinableThreadLeft, EscapeOnlyAtShutdown
<1>3. Lifetime'
  <2>1. RefsMatchLife'
    BY <1>u, <1>l DEF IInv, Lifetime, RefsMatchLife, Held, Queued, ThreadHolds
  <2>2. ThreadsKnown' /\ FreeUnjoined'
    BY <1>u, <1>t, <1>l, <1>d, <1>c DEF IInv, Lifetime, ThreadsKnown, FreeUnjoined
  <2> QED
    BY <2>1, <2>2 DEF Lifetime
<1>4. JoinStages'
  <2>1. \A d \in Conns : d # c => life'[d] = life[d]
    BY DEF IInv, TypeOK, JoinThreads, Join
  <2>3. life'[c] = "joinRemote" => ~thread'["host"][c]
    BY <1>t, SetJoinableEffect DEF IInv, TypeOK, JoinThreads, Join, Threads
  <2>4. life'[c] = "members" => OnOwnThread(c) \/ \A t \in Threads : ~thread'[t][c]
    <3>1. CASE Join("host", c, "joinHost", "joinRemote")
      BY <3>1 DEF Join, OnOwnThread, Threads, IInv, TypeOK
    <3>2. CASE Join("remote", c, "joinRemote", "members")
      <4>1. life[c] = "joinRemote" /\ ~thread["host"][c]
        BY <3>2 DEF Join, IInv, JoinStages
      <4>2. pc["remote"][c] = "destroying" \/ ~thread'["remote"][c]
        BY <3>2, SetJoinableEffect DEF Join, IInv, TypeOK, Threads
      <4> QED
        BY <4>1, <4>2, <1>t DEF OnOwnThread, Threads
    <3> QED
      BY <3>1, <3>2 DEF JoinThreads
  <2> QED
    BY <2>1, <2>3, <2>4, <1>t, <1>u DEF IInv, JoinStages, OnOwnThread, Threads
<1> QED
  BY <1>1, <1>2, <1>3, <1>4 DEF IInv

LEMMA InvDestroyMembers ==
    ASSUME IInv, TypeOK', NEW c \in Conns, DestroyMembers(c), fate = "running"
    PROVE  IInv'
<1>u. UNCHANGED <<connections, acceptor, main, stopping, queue, thread, pc>>
  BY DEF DestroyMembers, serverVars
<1>1. MainStages' /\ HandshakeListed' /\ AcceptorFresh' /\ QueueFresh'
  BY <1>u DEF IInv, MainStages, HandshakeListed, AcceptorFresh, QueueFresh, Fresh, Queued
<1>2. HandshakeAlone' /\ StopKept' /\ ReleaseBacked'
  BY <1>u DEF IInv, HandshakeAlone, StopKept, ReleaseBacked, StopPending
<1>3. \A d \in Conns :
         /\ life'[d] = "alive" <=> life[d] = "alive"
         /\ life'[d] = "free" => life[d] = "free" \/ (d = c /\ \A t \in Threads : ~thread[t][c])
         /\ life'[d] \in {"joinRemote", "members"} => life'[d] = life[d]
  <2>1. \/ UNCHANGED life
        \/ life' = [life EXCEPT ![c] = "free"] /\ \A t \in Threads : ~thread[t][c]
    BY DEF DestroyMembers
  <2>2. life[c] = "members" /\ life \in [Conns -> {"free", "alive"} \cup Destruction]
    BY DEF DestroyMembers, IInv, TypeOK
  <2> QED
    BY <2>1, <2>2
<1>4. Lifetime' /\ JoinStages'
  BY <1>u, <1>3 DEF IInv, Lifetime, RefsMatchLife, Held, Queued, ThreadHolds, ThreadsKnown,
         FreeUnjoined, JoinStages, OnOwnThread
<1>5. Outcomes'
  <2>1. CASE \E t \in Threads : thread[t][c]
    <3>1. OnOwnThread(c) /\ fate' = "joinableThread"
      BY <2>1 DEF IInv, JoinStages, DestroyMembers
    <3> QED
      BY <1>u, <3>1 DEF IInv, Outcomes, DestroyedOnMain, NoJoinableThreadLeft,
         EscapeOnlyAtShutdown, OnOwnThread
  <2>2. CASE ~\E t \in Threads : thread[t][c]
    BY <1>u, <2>2 DEF DestroyMembers, IInv, Outcomes, DestroyedOnMain, NoJoinableThreadLeft,
       EscapeOnlyAtShutdown, OnOwnThread
  <2> QED
    BY <2>1, <2>2
<1> QED
  BY <1>1, <1>2, <1>4, <1>5 DEF IInv

LEMMA InvSpawn ==
    ASSUME IInv, TypeOK', NEW c \in Conns, Spawn(c)
    PROVE  IInv'
<1>t. "host" \in Threads /\ "remote" \in Threads
  BY DEF Threads
<1>1. CASE Goto("host", c, "catch") /\ UNCHANGED thread
  <2>1. MovesOn("host", c)
    <3>1. pc'["host"][c] = "catch" /\ Elsewhere("host", c)
      BY <1>1, <1>t, GotoEffect, PlaceTypes DEF IInv, TypeOK, Elsewhere, Handshaking
    <3> QED
      BY <1>1, <3>1 DEF Spawn, MovesOn, Handshaking, serverVars
  <2> QED
    BY <1>t, <2>1, InvMovesOn
<1>2. CASE /\ SetJoinable("remote", c, TRUE)
           /\ pc' = [pc EXCEPT !["host"][c] = "read", !["remote"][c] = "read"]
  <2>u. UNCHANGED <<connections, acceptor, main, stopping, queue, fate, life>>
    BY DEF Spawn, serverVars
  <2>p. /\ pc["host"][c] = "spawn" /\ pc["remote"][c] = "none"
        /\ pc'["host"][c] = "read" /\ pc'["remote"][c] = "read"
        /\ \A t \in Threads, d \in Conns : d # c => pc'[t][d] = pc[t][d]
    BY <1>2, <1>t DEF Spawn, IInv, TypeOK, HandshakeAlone, Handshaking, Threads
  <2>t. /\ thread["host"][c] /\ thread'["host"][c] /\ thread'["remote"][c]
        /\ \A t \in Threads, d \in Conns : d # c => thread'[t][d] = thread[t][d]
    <3>1. thread["host"][c]
      BY <1>t, <2>p DEF IInv, Lifetime, ThreadsKnown, Ended
    <3>2. /\ thread'["remote"][c]
          /\ \A t \in Threads, d \in Conns : t # "remote" \/ d # c => thread'[t][d] = thread[t][d]
      BY <1>2, <1>t, SetJoinableEffect DEF IInv, TypeOK
    <3> QED
      BY <1>t, <3>1, <3>2
  <2>1. \A d \in Conns :
           /\ ThreadHolds(d)' <=> ThreadHolds(d)
           /\ OnOwnThread(d)' <=> OnOwnThread(d)
           /\ Fresh(d) => Fresh(d)'
           /\ StopPending(d)' <=> StopPending(d)
    BY <2>u, <2>p, <2>t DEF ThreadHolds, OnOwnThread, HasRef, Threads, Fresh, StopPending
  <2>2. MainStages' /\ HandshakeListed' /\ AcceptorFresh' /\ QueueFresh'
    <3>1. MainStages' /\ HandshakeListed'
      BY <2>u, <2>p, <1>t DEF IInv, MainStages, HandshakeListed, Handshaking
    <3>2. AcceptorFresh'
      BY <2>u, <2>1 DEF IInv, TypeOK, AcceptorFresh, Queued
    <3>3. QueueFresh'
      BY <2>u, <2>1, QueueElements DEF IInv, QueueFresh, Unstarted, Accepted
    <3> QED
      BY <3>1, <3>2, <3>3
  <2>3. HandshakeAlone' /\ StopKept'
    BY <2>u, <2>p, <2>1, <1>t DEF IInv, TypeOK, HandshakeAlone, StopKept, Handshaking, Threads
  <2>4. ReleaseBacked' /\ Outcomes'
    BY <2>u, <2>p, <2>1 DEF IInv, ReleaseBacked, Outcomes, DestroyedOnMain,
       NoJoinableThreadLeft, EscapeOnlyAtShutdown, Threads
  <2>5. Lifetime' /\ JoinStages'
    BY <2>u, <2>p, <2>t, <2>1 DEF IInv, Lifetime, RefsMatchLife, Held, Queued, ThreadsKnown,
       FreeUnjoined, JoinStages, Threads, OnOwnThread, Ended
  <2> QED
    BY <2>2, <2>3, <2>4, <2>5 DEF IInv
<1> QED
  BY <1>1, <1>2 DEF Spawn

\* A thread that takes a reference, or ends because there is none.
LEMMA InvTakesReference ==
    ASSUME IInv, TypeOK', NEW c \in Conns, NEW t \in Threads, Elsewhere(t, c),
           pc[t][c] \in Handshaking \cup Relaying,
           pc[t][c] \in Handshaking => t = "host",
           \/ life[c] = "alive" /\ pc'[t][c] = "post"
           \/ life[c] # "alive" /\ pc'[t][c] = "done",
           UNCHANGED <<connections, acceptor, main, stopping, queue, fate, life, thread>>
    PROVE  IInv'
<1> USE DEF Elsewhere, Handshaking, Relaying
<1>1. MainStages' /\ HandshakeListed'
  BY DEF IInv, MainStages, HandshakeListed, Threads
<1>2. \A d \in Conns :
         /\ d # c => (ThreadHolds(d)' <=> ThreadHolds(d))
         /\ ThreadHolds(d) => ThreadHolds(d)'
         /\ life[d] # "alive" => (ThreadHolds(d)' <=> ThreadHolds(d))
         /\ OnOwnThread(d)' <=> OnOwnThread(d)
         /\ Fresh(d) => Fresh(d)'
         /\ StopPending(d)' <=> StopPending(d)
  BY DEF ThreadHolds, OnOwnThread, HasRef, Fresh, StopPending
<1>3. Lifetime'
  BY <1>2 DEF IInv, Lifetime, RefsMatchLife, Held, Queued, ThreadsKnown, FreeUnjoined, Ended
<1>4. AcceptorFresh' /\ QueueFresh'
  BY <1>2, QueueElements DEF IInv, TypeOK, AcceptorFresh, QueueFresh, Queued, Unstarted, Accepted
<1>5. JoinStages' /\ Outcomes'
  BY <1>2 DEF IInv, JoinStages, Outcomes, DestroyedOnMain, NoJoinableThreadLeft, EscapeOnlyAtShutdown
<1>6. HandshakeAlone'
  BY <1>2 DEF IInv, HandshakeAlone, Threads
<1>7. StopKept' /\ ReleaseBacked'
  <2>1. \A u \in Threads, d \in Conns :
           /\ pc'[u][d] = "release" => pc[u][d] = "release"
           /\ pc'[u][d] = "done" => pc[u][d] = "done" \/ d \notin connections
    BY DEF IInv, Lifetime, RefsMatchLife, Held
  <2> QED
    BY <1>2, <2>1 DEF IInv, TypeOK, StopKept, ReleaseBacked
<1> QED
  BY <1>1, <1>3, <1>4, <1>5, <1>6, <1>7 DEF IInv

LEMMA InvCatch ==
    ASSUME IInv, TypeOK', NEW c \in Conns, Catch(c), fate = "running"
    PROVE  IInv'
<1>t. "host" \in Threads
  BY DEF Threads
<1>u. UNCHANGED <<connections, acceptor, main, stopping, queue, life, thread>>
  BY DEF Catch, serverVars
<1>1. CASE life[c] = "alive"
  <2>1. pc'["host"][c] = "post" /\ Elsewhere("host", c)
    BY <1>1, <1>t, GotoEffect, PlaceTypes DEF Catch, IInv, TypeOK, Elsewhere, HasRef
  <2> QED
    BY <1>1, <1>t, <1>u, <2>1, InvTakesReference DEF Catch, Handshaking
<1>2. CASE life[c] # "alive"
  <2>1. main \notin {"run", "sleep"}
    BY <1>2 DEF Catch, IInv, HandshakeListed, Handshaking, Lifetime, RefsMatchLife, Held
  <2>2. UNCHANGED pc /\ fate' = "badWeakPtr"
    BY <1>2 DEF Catch
  <2>3. MainStages' /\ HandshakeListed' /\ AcceptorFresh' /\ QueueFresh'
    BY <1>u, <2>2 DEF IInv, MainStages, HandshakeListed, AcceptorFresh, QueueFresh, Fresh, Queued
  <2>4. HandshakeAlone' /\ StopKept' /\ ReleaseBacked' /\ JoinStages'
    BY <1>u, <2>2 DEF IInv, HandshakeAlone, StopKept, ReleaseBacked, StopPending, JoinStages, OnOwnThread
  <2>5. Lifetime' /\ Outcomes'
    BY <1>u, <2>1, <2>2 DEF IInv, Lifetime, RefsMatchLife, Held, Queued, ThreadHolds, ThreadsKnown,
       FreeUnjoined, Outcomes, DestroyedOnMain, OnOwnThread, NoJoinableThreadLeft, EscapeOnlyAtShutdown
  <2> QED
    BY <2>3, <2>4, <2>5 DEF IInv
<1> QED
  BY <1>1, <1>2

LEMMA InvStop ==
    ASSUME IInv, TypeOK', NEW c \in Conns, NEW t \in Threads, Stop(t, c)
    PROVE  IInv'
<1>1. /\ pc'[t][c] = IF life[c] = "alive" THEN "post" ELSE "done"
      /\ Elsewhere(t, c)
  BY GotoEffect, PlaceTypes DEF Stop, IInv, TypeOK, Elsewhere, HasRef, Ended
<1> QED
  BY <1>1, InvTakesReference DEF Stop, serverVars, Relaying, Handshaking

\* A queue that grows by one handler, and one that loses its head.
LEMMA Enqueue ==
    ASSUME TypeOK, NEW e \in Items, queue' = Append(queue, e)
    PROVE  /\ Len(queue) \in Nat
           /\ Len(queue') = Len(queue) + 1
           /\ \A i \in 1..Len(queue) : queue'[i] = queue[i]
           /\ queue'[Len(queue) + 1] = e
           /\ \A d : Queued(d)' <=> Queued(d) \/ d = e.conn
<1>1. /\ Len(queue) \in Nat
      /\ Len(queue') = Len(queue) + 1
      /\ \A i \in 1..Len(queue) : queue'[i] = queue[i]
      /\ queue'[Len(queue) + 1] = e
  BY AppendElements DEF TypeOK
<1> QED
  BY <1>1 DEF Queued

LEMMA Dequeue ==
    ASSUME TypeOK, queue # <<>>, queue' = Tail(queue)
    PROVE  /\ Len(queue) \in Nat \ {0}
           /\ Len(queue') = Len(queue) - 1
           /\ \A i \in 1..Len(queue') : queue'[i] = queue[i + 1]
           /\ Head(queue) = queue[1] /\ Head(queue) \in Items
           /\ \A d : Queued(d) <=> Queued(d)' \/ d = Head(queue).conn
<1>1. /\ Len(queue) \in Nat \ {0}
      /\ Len(queue') = Len(queue) - 1
      /\ \A i \in 1..Len(queue') : queue'[i] = queue[i + 1]
      /\ Head(queue) = queue[1] /\ Head(queue) \in Items
  BY TailElements DEF TypeOK
<1>2. \A i \in 2..Len(queue) : i - 1 \in 1..Len(queue') /\ queue'[i - 1] = queue[i]
  BY <1>1
<1>3. ASSUME NEW d, Queued(d) PROVE Queued(d)' \/ d = Head(queue).conn
  <2>1. PICK i \in 1..Len(queue) : queue[i].conn = d
    BY <1>3 DEF Queued
  <2>2. CASE i = 1
    BY <1>1, <2>1, <2>2
  <2>3. CASE i # 1
    <3>1. i - 1 \in 1..Len(queue') /\ queue'[i - 1].conn = d
      BY <1>1, <1>2, <2>1, <2>3
    <3> QED
      BY <3>1 DEF Queued
  <2> QED
    BY <2>2, <2>3
<1>4. ASSUME NEW d, Queued(d)' PROVE Queued(d)
  <2>1. PICK i \in 1..Len(queue') : queue'[i].conn = d
    BY <1>4 DEF Queued
  <2>2. i + 1 \in 1..Len(queue) /\ queue[i + 1].conn = d
    BY <1>1, <2>1
  <2> QED
    BY <2>2 DEF Queued
<1>5. Queued(Head(queue).conn)
  BY <1>1 DEF Queued
<1> QED
  BY <1>1, <1>3, <1>4, <1>5

LEMMA InvPost ==
    ASSUME IInv, TypeOK', NEW c \in Conns, NEW t \in Threads, Post(t, c), fate = "running"
    PROVE  IInv'
<1>u. UNCHANGED <<connections, acceptor, main, stopping, life, thread>>
  BY DEF Post, serverVars
<1>1. CASE ServerAlive
  <2>e. queue' = Append(queue, Item("stop", c, t)) /\ Item("stop", c, t) \in Items
    BY <1>1, ItemTypes DEF Post, Kinds
  <2>q. /\ Len(queue) \in Nat
        /\ Len(queue') = Len(queue) + 1
        /\ \A i \in 1..Len(queue) : queue'[i] = queue[i]
        /\ queue'[Len(queue) + 1] = Item("stop", c, t)
        /\ \A d : Queued(d)' <=> Queued(d) \/ d = c
    BY <2>e, Enqueue DEF IInv, Item
  <2>p. pc[t][c] = "post" /\ pc'[t][c] = "release" /\ Elsewhere(t, c) /\ UNCHANGED fate
    BY <1>1, GotoEffect, PlaceTypes DEF Post, IInv, TypeOK, HasRef, Elsewhere
  <2>1. \A d \in Conns :
           /\ ThreadHolds(d)' <=> ThreadHolds(d)
           /\ OnOwnThread(d)' <=> OnOwnThread(d)
           /\ Fresh(d) => Fresh(d)' /\ d # c
    BY <1>u, <2>p DEF ThreadHolds, OnOwnThread, HasRef, Fresh, Elsewhere
  <2>2. \A d \in Conns : StopPending(d)' <=> StopPending(d) \/ d = c
    BY <1>u, <2>q DEF StopPending, Item
  <2>3. MainStages' /\ HandshakeListed' /\ JoinStages' /\ Outcomes'
    BY <1>u, <2>p, <2>1 DEF IInv, MainStages, HandshakeListed, JoinStages, Outcomes, Elsewhere,
       DestroyedOnMain, NoJoinableThreadLeft, EscapeOnlyAtShutdown, Handshaking, Threads
  <2>4. Lifetime'
    <3>1. RefsMatchLife'
      BY <1>u, <2>q, <2>p, <2>1 DEF IInv, Lifetime, RefsMatchLife, Held, ThreadHolds, HasRef
    <3> QED
      BY <1>u, <2>p, <3>1 DEF IInv, Lifetime, ThreadsKnown, FreeUnjoined, Ended, Elsewhere
  <2>5. AcceptorFresh'
    BY <1>u, <2>q, <2>1 DEF IInv, TypeOK, AcceptorFresh
  <2>6. QueueFresh'
    BY <1>u, <2>q, <2>1, QueueElements DEF IInv, QueueFresh, Unstarted, Accepted, Item
  <2>7. HandshakeAlone'
    BY <2>p, <2>2 DEF IInv, HandshakeAlone, Elsewhere, Handshaking, Threads
  <2>8. StopKept'
    BY <1>u, <2>p, <2>2 DEF IInv, TypeOK, StopKept, Elsewhere
  <2>9. ReleaseBacked'
    BY <1>u, <2>p, <2>q DEF IInv, ReleaseBacked, Elsewhere
  <2> QED
    BY <2>3, <2>4, <2>5, <2>6, <2>7, <2>8, <2>9 DEF IInv
<1>2. CASE ~ServerAlive
  <2>1. UNCHANGED <<queue, pc>> /\ fate' = "danglingServer"
    BY <1>2 DEF Post
  <2>3. MainStages' /\ HandshakeListed' /\ AcceptorFresh' /\ QueueFresh'
    BY <1>u, <2>1 DEF IInv, MainStages, HandshakeListed, AcceptorFresh, QueueFresh, Fresh, Queued
  <2>4. HandshakeAlone' /\ StopKept' /\ ReleaseBacked' /\ JoinStages'
    BY <1>u, <2>1 DEF IInv, HandshakeAlone, StopKept, ReleaseBacked, StopPending, JoinStages, OnOwnThread
  <2>5. Lifetime' /\ Outcomes'
    BY <1>u, <2>1 DEF IInv, Lifetime, RefsMatchLife, Held, Queued, ThreadHolds, ThreadsKnown,
       FreeUnjoined, Outcomes, DestroyedOnMain, OnOwnThread, NoJoinableThreadLeft, EscapeOnlyAtShutdown
  <2> QED
    BY <2>3, <2>4, <2>5 DEF IInv
<1> QED
  BY <1>1, <1>2

LEMMA InvRelease ==
    ASSUME IInv, TypeOK', NEW c \in Conns, NEW t \in Threads, Release(t, c)
    PROVE  IInv'
<1>u. UNCHANGED <<connections, acceptor, main, stopping, queue, fate, thread>>
  BY DEF Release, serverVars
<1>p. /\ pc[t][c] = "release" /\ Elsewhere(t, c)
      /\ pc'[t][c] = IF Held(c)' THEN "done" ELSE "destroying"
  BY GotoEffect, PlaceTypes DEF Release, IInv, TypeOK, Elsewhere, Ended
<1>l. /\ life[c] = "alive"
      /\ life'[c] = IF Held(c)' THEN "alive" ELSE "shutRemote"
      /\ \A d \in Conns : d # c => life'[d] = life[d]
  <2>1. life[c] = "alive"
    BY <1>p DEF IInv, Lifetime, RefsMatchLife, Held, ThreadHolds, HasRef
  <2> QED
    BY <2>1 DEF Release, AfterDrop, IInv, TypeOK
<1>1. \A d \in Conns :
         /\ d # c => (ThreadHolds(d)' <=> ThreadHolds(d))
         /\ OnOwnThread(d) => OnOwnThread(d)'
         /\ Fresh(d) => Fresh(d)'
         /\ StopPending(d)' <=> StopPending(d)
         /\ Queued(d)' <=> Queued(d)
  BY <1>u, <1>p DEF ThreadHolds, OnOwnThread, HasRef, Fresh, StopPending, Queued, Elsewhere
<1>2. Lifetime'
  <2>1. RefsMatchLife'
    <3>1. \A d \in Conns : d # c => (Held(d)' <=> Held(d))
      BY <1>u, <1>1 DEF Held
    <3>2. \A d \in Conns : d # c => (life'[d] = "alive" <=> Held(d)')
      BY <1>l, <3>1 DEF IInv, Lifetime, RefsMatchLife
    <3>3. life'[c] = "alive" <=> Held(c)'
      BY <1>l
    <3> QED
      BY <3>2, <3>3 DEF RefsMatchLife
  <2>2. ThreadsKnown' /\ FreeUnjoined'
    BY <1>u, <1>p, <1>l DEF IInv, Lifetime, ThreadsKnown, FreeUnjoined, Elsewhere, Ended
  <2> QED
    BY <2>1, <2>2 DEF Lifetime
<1>3. MainStages' /\ HandshakeListed'
  BY <1>u, <1>p DEF IInv, MainStages, HandshakeListed, Elsewhere, Handshaking, Threads
<1>4. AcceptorFresh'
  BY <1>u, <1>1 DEF IInv, TypeOK, AcceptorFresh
<1>5. QueueFresh'
  BY <1>u, <1>1, QueueElements DEF IInv, QueueFresh, Unstarted, Accepted
<1>6. HandshakeAlone'
  BY <1>p, <1>1 DEF IInv, HandshakeAlone, Elsewhere, Handshaking, Threads
<1>7. JoinStages'
  BY <1>u, <1>l, <1>1 DEF IInv, JoinStages, Threads
<1>8. StopKept' /\ ReleaseBacked'
  BY <1>u, <1>p, <1>1, ZenonT(30) DEF IInv, TypeOK, StopKept, ReleaseBacked, Elsewhere
<1>9. Outcomes'
  <2>1. PromptRelease /\ main # "drain" => Held(c)'
    <3> SUFFICES ASSUME PromptRelease, main # "drain" PROVE Held(c)'
      OBVIOUS
    <3>1. \/ stopping = Item("stop", c, t)
          \/ \E i \in 1..Len(queue) : queue[i] = Item("stop", c, t)
      BY <1>p DEF IInv, ReleaseBacked
    <3>2. stopping'.conn = c \/ Queued(c)'
      BY <1>u, <3>1 DEF Queued, Item
    <3> QED
      BY <3>2 DEF Held
  <2>2. PromptRelease => DestroyedOnMain'
    BY <1>u, <1>p, <2>1 DEF IInv, Outcomes, DestroyedOnMain, OnOwnThread, Elsewhere
  <2> QED
    BY <1>u, <2>2 DEF IInv, Outcomes, NoJoinableThreadLeft, EscapeOnlyAtShutdown
<1> QED
  BY <1>2, <1>3, <1>4, <1>5, <1>6, <1>7, <1>8, <1>9 DEF IInv

-----------------------------------------------------------------------------
(* The steps of the main thread.                                             *)

StopQueued(d) == \E i \in 1..Len(queue) : queue[i].kind = "stop" /\ queue[i].conn = d
Contains(x) == \E i \in 1..Len(queue) : queue[i] = x

\* The head of the queue leaves it.
LEMMA DequeueKeeps ==
    ASSUME IInv, queue # <<>>, queue' = Tail(queue)
    PROVE  /\ \A i \in 1..Len(queue'), d \in Conns :
                 queue'[i].kind \in Unstarted /\ queue'[i].conn = d =>
                     /\ Fresh(d) /\ d # Head(queue).conn
                     /\ \A j \in 1..Len(queue') : j # i => queue'[j].conn # d
           /\ \A i \in 1..Len(queue') : queue'[i].kind \in Accepted =>
                 /\ acceptor = NoConn /\ Head(queue).kind \notin Accepted
                 /\ \A j \in 1..Len(queue') : queue'[j].kind \in Accepted => j = i
           /\ Head(queue).kind \in Unstarted =>
                 /\ Fresh(Head(queue).conn)
                 /\ \A d : d = Head(queue).conn => ~Queued(d)'
           /\ Head(queue).kind \in Accepted => acceptor = NoConn
           /\ Head(queue) \in Items
           /\ Head(queue).kind # "signal" => Head(queue).conn \in Conns
           /\ \A d : StopQueued(d)' => StopQueued(d)
           /\ \A d : StopQueued(d) => StopQueued(d)' \/ (Head(queue).kind = "stop" /\ Head(queue).conn = d)
           /\ \A x : Contains(x) => Contains(x)' \/ x = Head(queue)
           /\ \A d : Queued(d) <=> Queued(d)' \/ d = Head(queue).conn
<1>1. /\ Len(queue) \in Nat \ {0}
      /\ Len(queue') = Len(queue) - 1
      /\ \A i \in 1..Len(queue') : queue'[i] = queue[i + 1] /\ i + 1 \in 1..Len(queue)
      /\ Head(queue) = queue[1] /\ Head(queue) \in Items /\ 1 \in 1..Len(queue)
      /\ \A d : Queued(d) <=> Queued(d)' \/ d = Head(queue).conn
  BY Dequeue DEF IInv
<1>2. \A i \in 1..Len(queue) : i = 1 \/ (i - 1 \in 1..Len(queue') /\ queue'[i - 1] = queue[i])
  BY <1>1
<1>f. /\ \A i \in 1..Len(queue), d \in Conns :
            queue[i].kind \in Unstarted /\ queue[i].conn = d =>
                Fresh(d) /\ \A j \in 1..Len(queue) : j # i => queue[j].conn # d
      /\ \A i \in 1..Len(queue) : queue[i].kind \in Accepted =>
            /\ acceptor = NoConn
            /\ \A j \in 1..Len(queue) : queue[j].kind \in Accepted => j = i
  BY DEF IInv, QueueFresh
<1>3. \A i \in 1..Len(queue'), d \in Conns :
         queue'[i].kind \in Unstarted /\ queue'[i].conn = d =>
             /\ Fresh(d) /\ d # Head(queue).conn
             /\ \A j \in 1..Len(queue') : j # i => queue'[j].conn # d
  BY <1>1, <1>f
<1>4. \A i \in 1..Len(queue') : queue'[i].kind \in Accepted =>
         /\ acceptor = NoConn /\ Head(queue).kind \notin Accepted
         /\ \A j \in 1..Len(queue') : queue'[j].kind \in Accepted => j = i
  BY <1>1, <1>f
<1>5. Head(queue).kind # "signal" => Head(queue).conn \in Conns
  BY <1>1, QueueElements DEF IInv
<1>6. Head(queue).kind \in Unstarted =>
         /\ Fresh(Head(queue).conn)
         /\ \A d : d = Head(queue).conn => ~Queued(d)'
  BY <1>1, <1>5, <1>f DEF Queued, Unstarted, Accepted
<1>7. Head(queue).kind \in Accepted => acceptor = NoConn
  BY <1>1, <1>f
<1>8. \A d : StopQueued(d)' => StopQueued(d)
  BY <1>1 DEF StopQueued
<1>9. \A d : StopQueued(d) => StopQueued(d)' \/ (Head(queue).kind = "stop" /\ Head(queue).conn = d)
  BY <1>1, <1>2 DEF StopQueued
<1>10. \A x : Contains(x) => Contains(x)' \/ x = Head(queue)
  BY <1>1, <1>2 DEF Contains
<1> QED
  BY <1>1, <1>3, <1>4, <1>5, <1>6, <1>7, <1>8, <1>9, <1>10

\* A step after which a handler left the queue and all that was fresh still is.
LEMMA DequeueFresh ==
    ASSUME IInv, TypeOK', queue # <<>>, queue' = Tail(queue),
           \A d \in Conns : Fresh(d) /\ d # Head(queue).conn => Fresh(d)',
           acceptor' = acceptor \/ Head(queue).kind \in Accepted
    PROVE  QueueFresh'
<1>1. /\ \A i \in 1..Len(queue'), d \in Conns :
            queue'[i].kind \in Unstarted /\ queue'[i].conn = d =>
                Fresh(d)' /\ \A j \in 1..Len(queue') : j # i => queue'[j].conn # d
      /\ \A i \in 1..Len(queue') : queue'[i].kind \in Accepted =>
            /\ acceptor = NoConn /\ Head(queue).kind \notin Accepted
            /\ \A j \in 1..Len(queue') : queue'[j].kind \in Accepted => j = i
  BY DequeueKeeps
<1> QED
  BY <1>1 DEF QueueFresh

\* A step that gives up a reference of the main thread to c.
LEMMA Drops ==
    ASSUME IInv, NEW c \in Conns, Held(c), UNCHANGED <<thread, pc>>, life' = AfterDrop(c),
           \A d \in Conns : d # c => (Held(d)' <=> Held(d))
    PROVE  /\ Lifetime' /\ JoinStages'
           /\ \A d \in Conns : (ThreadHolds(d)' <=> ThreadHolds(d)) /\ (OnOwnThread(d)' <=> OnOwnThread(d))
<1>1. life[c] = "alive"
  BY DEF IInv, Lifetime, RefsMatchLife
<1>2. /\ life'[c] = IF Held(c)' THEN "alive" ELSE "shutRemote"
      /\ \A d \in Conns : d # c => life'[d] = life[d]
  BY <1>1 DEF AfterDrop, IInv, TypeOK
<1>3. RefsMatchLife'
  <2>1. \A d \in Conns : d # c => (life'[d] = "alive" <=> Held(d)')
    BY <1>2 DEF IInv, Lifetime, RefsMatchLife
  <2> QED
    BY <1>2, <2>1 DEF RefsMatchLife
<1>4. \A d \in Conns : life'[d] = life[d] \/ (life[d] = "alive" /\ life'[d] = "shutRemote")
  BY <1>1, <1>2
<1>5. ThreadsKnown' /\ FreeUnjoined'
  BY <1>4 DEF IInv, Lifetime, ThreadsKnown, FreeUnjoined
<1>6. JoinStages'
  BY <1>4 DEF IInv, JoinStages, OnOwnThread
<1> QED
  BY <1>3, <1>5, <1>6 DEF Lifetime, ThreadHolds, OnOwnThread

\* A completed accept: its handler takes over the reference of the acceptor.
LEMMA InvAcceptDone ==
    ASSUME IInv, TypeOK', AcceptDone
    PROVE  IInv'
<1>u. /\ UNCHANGED <<connections, main, stopping, fate, life, thread, pc>>
      /\ main = "run" /\ acceptor \in Conns /\ acceptor' = NoConn
  BY DEF AcceptDone, IInv, TypeOK
<1>e. \E kind \in {"accept", "acceptError"} :
         queue' = Append(queue, Item(kind, acceptor, "main"))
  BY DEF AcceptDone
<1>q. \E kind \in {"accept", "acceptError"} :
         /\ Len(queue) \in Nat
         /\ Len(queue') = Len(queue) + 1
         /\ \A i \in 1..Len(queue) : queue'[i] = queue[i]
         /\ queue'[Len(queue) + 1] = Item(kind, acceptor, "main")
         /\ \A d : Queued(d)' <=> Queued(d) \/ d = acceptor
  <2>1. PICK kind \in {"accept", "acceptError"} :
           queue' = Append(queue, Item(kind, acceptor, "main"))
    BY <1>e
  <2>2. Item(kind, acceptor, "main") \in Items /\ Item(kind, acceptor, "main").conn = acceptor
    BY <1>u, ItemTypes DEF Kinds, Item
  <2> QED
    BY <2>1, <2>2, Enqueue DEF IInv
<1>1. \A d : /\ StopPending(d)' <=> StopPending(d)
             /\ \A t : Contains(Item("stop", d, t))' <=> Contains(Item("stop", d, t))
  BY <1>u, <1>q DEF StopPending, Contains, Item
<1>2. Fresh(acceptor) /\ ~Queued(acceptor)
  BY <1>u, ConstantsAssumption DEF IInv, AcceptorFresh
<1>3. MainStages' /\ HandshakeListed' /\ AcceptorFresh' /\ JoinStages'
  BY <1>u DEF IInv, MainStages, HandshakeListed, AcceptorFresh, JoinStages, OnOwnThread
<1>4. QueueFresh'
  <2>1. \A d : Fresh(d)' <=> Fresh(d)
    BY <1>u DEF Fresh
  <2>2. \A i \in 1..Len(queue) : queue[i].conn # acceptor
    BY <1>2 DEF Queued
  <2> QED
    <3>1. \A i \in 1..Len(queue), d \in Conns :
             queue[i].kind \in Unstarted /\ queue[i].conn = d =>
                 Fresh(d) /\ \A j \in 1..Len(queue) : j # i => queue[j].conn # d
      BY DEF IInv, QueueFresh
    <3>2. \A i \in 1..Len(queue) : queue[i].kind \notin Accepted
      BY <1>u, ConstantsAssumption DEF IInv, QueueFresh
    <3>3. /\ queue'[Len(queue) + 1].conn = acceptor
          /\ \A i \in 1..Len(queue') : i = Len(queue) + 1 \/ i \in 1..Len(queue)
      BY <1>q DEF Item
    <3>4. \A i \in 1..Len(queue'), d \in Conns :
             queue'[i].kind \in Unstarted /\ queue'[i].conn = d =>
                 Fresh(d)' /\ \A j \in 1..Len(queue') : j # i => queue'[j].conn # d
      BY <1>q, <1>2, <2>1, <2>2, <3>1, <3>3
    <3>5. \A i, j \in 1..Len(queue') :
             queue'[i].kind \in Accepted /\ queue'[j].kind \in Accepted => i = j
      BY <1>q, <3>2, <3>3
    <3> QED
      BY <1>u, <3>4, <3>5 DEF QueueFresh
<1>5. Lifetime'
  <2>1. \A d \in Conns : Held(d)' <=> Held(d)
    BY <1>u, <1>q, ConstantsAssumption DEF Held, ThreadHolds
  <2> QED
    BY <1>u, <2>1 DEF IInv, Lifetime, RefsMatchLife, ThreadsKnown, FreeUnjoined
<1>6. HandshakeAlone' /\ StopKept' /\ Outcomes'
  BY <1>u, <1>1 DEF IInv, HandshakeAlone, StopKept, Outcomes, DestroyedOnMain, OnOwnThread,
     NoJoinableThreadLeft, EscapeOnlyAtShutdown
<1>7. ReleaseBacked'
  BY <1>u, <1>1 DEF IInv, ReleaseBacked, Contains
<1> QED
  BY <1>3, <1>4, <1>5, <1>6, <1>7 DEF IInv

LEMMA InvSignal ==
    ASSUME IInv, TypeOK', Signal
    PROVE  IInv'
<1>u. UNCHANGED <<connections, acceptor, main, stopping, fate, life, thread, pc>>
  BY DEF Signal
<1>q. /\ Len(queue) \in Nat
      /\ Len(queue') = Len(queue) + 1
      /\ \A i \in 1..Len(queue) : queue'[i] = queue[i]
      /\ queue'[Len(queue) + 1] = NoItem
      /\ NoItem.kind = "signal" /\ NoItem.conn = NoConn
      /\ \A d : Queued(d)' <=> Queued(d) \/ d = NoConn
  <2>1. NoItem.kind = "signal" /\ NoItem.conn = NoConn
    BY DEF NoItem, Item
  <2> QED
    BY <2>1, ItemTypes, Enqueue DEF IInv, Signal
<1>1. \A d : /\ StopPending(d)' <=> StopPending(d)
             /\ \A t : Contains(Item("stop", d, t))' <=> Contains(Item("stop", d, t))
  BY <1>u, <1>q DEF StopPending, Contains, Item
<1>2. MainStages' /\ HandshakeListed' /\ JoinStages'
  BY <1>u DEF IInv, MainStages, HandshakeListed, JoinStages, OnOwnThread
<1>3. AcceptorFresh'
  BY <1>u, <1>q DEF IInv, AcceptorFresh, Fresh
<1>4. QueueFresh'
  <2>1. \A d : Fresh(d)' <=> Fresh(d)
    BY <1>u DEF Fresh
  <2>2. \A i \in 1..Len(queue) : queue[i].kind \in Unstarted => queue[i].conn # NoConn
    BY QueueElements, ConstantsAssumption DEF IInv, Unstarted, Accepted
  <2> QED
    <3>1. \A i \in 1..Len(queue') : IF i = Len(queue) + 1 THEN queue'[i].kind \notin Unstarted
                                     ELSE i \in 1..Len(queue) /\ queue'[i] = queue[i]
      BY <1>q DEF Unstarted, Accepted
    <3>2. Accepted \subseteq Unstarted
      BY DEF Unstarted
    <3>3. queue'[Len(queue) + 1].conn \notin Conns
      BY <1>q, ConstantsAssumption
    <3> QED
      BY <1>u, <2>1, <3>1, <3>2, <3>3 DEF IInv, QueueFresh
<1>5. Lifetime'
  <2>1. \A d \in Conns : Held(d)' <=> Held(d)
    BY <1>u, <1>q, ConstantsAssumption DEF Held, ThreadHolds
  <2> QED
    BY <1>u, <2>1 DEF IInv, Lifetime, RefsMatchLife, ThreadsKnown, FreeUnjoined
<1>6. HandshakeAlone' /\ StopKept' /\ Outcomes'
  BY <1>u, <1>1 DEF IInv, HandshakeAlone, StopKept, Outcomes, DestroyedOnMain, OnOwnThread,
     NoJoinableThreadLeft, EscapeOnlyAtShutdown
<1>7. ReleaseBacked'
  BY <1>u, <1>1 DEF IInv, ReleaseBacked, Contains
<1> QED
  BY <1>2, <1>3, <1>4, <1>5, <1>6, <1>7 DEF IInv

\* startAccept(): new storage becomes the acceptor's, dropped references go.
LEMMA StartAcceptEffect ==
    ASSUME IInv, NEW dropped, StartAccept(dropped)
    PROVE  /\ acceptor' \in Conns \cup {NoConn}
           /\ \A t \in Threads, d \in Conns :
                 /\ d # acceptor' => pc'[t][d] = pc[t][d]
                 /\ d = acceptor' => pc'[t][d] = "none" /\ pc[t][d] \in {"none"} \cup Ended
           /\ \A d \in Conns :
                 /\ d = acceptor' => /\ life[d] = "free" /\ life'[d] = "alive"
                                     /\ ~Held(d) /\ ~StopPending(d)
                                     /\ \A t \in Threads : ~thread[t][d]
                 /\ d # acceptor' => life'[d] = IF d \in dropped THEN "shutRemote" ELSE life[d]
<1>1. CASE \E c \in Conns : /\ life[c] = "free" /\ acceptor' = c
                            /\ pc' = [t \in Threads |-> [pc[t] EXCEPT ![c] = "none"]]
                            /\ life' = [d \in Conns |-> IF d = c THEN "alive"
                                                       ELSE IF d \in dropped THEN "shutRemote"
                                                       ELSE life[d]]
  <2>1. PICK c \in Conns : /\ life[c] = "free" /\ acceptor' = c
                           /\ pc' = [t \in Threads |-> [pc[t] EXCEPT ![c] = "none"]]
                           /\ life' = [d \in Conns |-> IF d = c THEN "alive"
                                                      ELSE IF d \in dropped THEN "shutRemote"
                                                      ELSE life[d]]
    BY <1>1
  <2>2. /\ \A t \in Threads : ~thread[t][c] /\ pc[t][c] \in {"none"} \cup Ended
        /\ ~Held(c)
    BY <2>1 DEF IInv, Lifetime, FreeUnjoined, ThreadsKnown, RefsMatchLife
  <2>3. ~StopPending(c)
    BY <2>2 DEF Held, Queued, StopPending
  <2>4. \A t \in Threads, d \in Conns : pc'[t][d] = IF d = c THEN "none" ELSE pc[t][d]
    BY <2>1 DEF IInv, TypeOK
  <2>5. \A d \in Conns : life'[d] = IF d = c THEN "alive"
                                    ELSE IF d \in dropped THEN "shutRemote" ELSE life[d]
    BY <2>1
  <2> QED
    BY <2>1, <2>2, <2>3, <2>4, <2>5
<1>2. CASE /\ acceptor' = NoConn /\ UNCHANGED pc
           /\ life' = [d \in Conns |-> IF d \in dropped THEN "shutRemote" ELSE life[d]]
  BY <1>2, ConstantsAssumption
<1> QED
  BY <1>1, <1>2 DEF StartAccept

\* What startAccept() leaves of the parts that do not speak of the queue.
LEMMA StartAcceptKeeps ==
    ASSUME IInv, TypeOK', NEW dropped, StartAccept(dropped), main = "run",
           UNCHANGED <<connections, main, stopping, fate, thread>>,
           \A d \in dropped : life[d] = "alive" /\ Fresh(d) /\ d # NoConn,
           \A d \in Conns : StopPending(d)' => StopPending(d),
           \A d \in Conns : StopPending(d) => StopPending(d)'
    PROVE  /\ MainStages' /\ HandshakeListed' /\ JoinStages' /\ Outcomes'
           /\ HandshakeAlone' /\ StopKept'
           /\ ThreadsKnown' /\ FreeUnjoined'
           /\ \A d \in Conns : Fresh(d) => Fresh(d)'
           /\ acceptor' # NoConn => Fresh(acceptor)'
           /\ \A d \in Conns : ThreadHolds(d)' <=> ThreadHolds(d)
           /\ \A d \in Conns, t \in Threads : pc'[t][d] = "release" => pc[t][d] = "release"
<1>s. /\ acceptor' \in Conns \cup {NoConn}
      /\ \A t \in Threads, d \in Conns :
            /\ d # acceptor' => pc'[t][d] = pc[t][d]
            /\ d = acceptor' => pc'[t][d] = "none" /\ pc[t][d] \in {"none"} \cup Ended
      /\ \A d \in Conns :
            /\ d = acceptor' => /\ life[d] = "free" /\ life'[d] = "alive"
                                /\ ~Held(d) /\ ~StopPending(d)
                                /\ \A t \in Threads : ~thread[t][d]
            /\ d # acceptor' => life'[d] = IF d \in dropped THEN "shutRemote" ELSE life[d]
  BY StartAcceptEffect
<1>1. MainStages' /\ HandshakeListed'
  BY <1>s DEF IInv, MainStages, HandshakeListed, Threads, Handshaking
<1>2. \A d \in Conns :
         /\ ThreadHolds(d)' <=> ThreadHolds(d)
         /\ OnOwnThread(d)' <=> OnOwnThread(d)
         /\ Fresh(d) => Fresh(d)'
  BY <1>s DEF ThreadHolds, OnOwnThread, HasRef, Ended, Fresh
<1>3. acceptor' # NoConn => Fresh(acceptor)'
  BY <1>s DEF Fresh, Held
<1>4. JoinStages' /\ Outcomes'
  BY <1>s, <1>2 DEF IInv, JoinStages, Outcomes, DestroyedOnMain, NoJoinableThreadLeft,
     EscapeOnlyAtShutdown, Fresh, Threads
<1>5. HandshakeAlone'
  BY <1>s DEF IInv, HandshakeAlone, Threads
<1>6. StopKept'
  BY <1>s DEF IInv, TypeOK, StopKept
<1>7. ThreadsKnown' /\ FreeUnjoined'
  BY <1>s DEF IInv, Lifetime, ThreadsKnown, FreeUnjoined
<1>8. \A d \in Conns, t \in Threads : pc'[t][d] = "release" => pc[t][d] = "release"
  BY <1>s
<1> QED
  BY <1>1, <1>2, <1>3, <1>4, <1>5, <1>6, <1>7, <1>8

LEMMA InvResumeAccept ==
    ASSUME IInv, TypeOK', ResumeAccept
    PROVE  IInv'
<1>u. /\ UNCHANGED <<connections, queue, main, stopping, fate, thread>>
      /\ main = "run" /\ acceptor = NoConn /\ StartAccept({})
  BY DEF ResumeAccept
<1>1. \A d : (StopPending(d)' <=> StopPending(d)) /\ (Queued(d)' <=> Queued(d))
  BY <1>u DEF StopPending, Queued
<1>2. /\ MainStages' /\ HandshakeListed' /\ JoinStages' /\ Outcomes'
      /\ HandshakeAlone' /\ StopKept' /\ ThreadsKnown' /\ FreeUnjoined'
      /\ \A d \in Conns : Fresh(d) => Fresh(d)'
      /\ acceptor' # NoConn => Fresh(acceptor)'
      /\ \A d \in Conns : ThreadHolds(d)' <=> ThreadHolds(d)
      /\ \A d \in Conns, t \in Threads : pc'[t][d] = "release" => pc[t][d] = "release"
  BY <1>u, <1>1, StartAcceptKeeps
<1>3. \A d \in Conns :
         /\ d = acceptor' => life'[d] = "alive" /\ ~Held(d)
         /\ d # acceptor' => life'[d] = life[d]
  BY <1>u, StartAcceptEffect
<1>4. AcceptorFresh'
  BY <1>1, <1>2, <1>3 DEF TypeOK, AcceptorFresh, Held
<1>5. QueueFresh'
  <2>1. \A i \in 1..Len(queue) : queue[i].kind \notin Accepted
    BY DEF ResumeAccept, Accepted
  <2> QED
    BY <1>u, <1>2, <2>1 DEF IInv, QueueFresh
<1>6. Lifetime'
  BY <1>u, <1>1, <1>2, <1>3, ConstantsAssumption DEF IInv, Lifetime, RefsMatchLife, Held
<1>7. ReleaseBacked'
  BY <1>u, <1>2 DEF IInv, ReleaseBacked
<1> QED
  BY <1>2, <1>4, <1>5, <1>6, <1>7 DEF IInv

LEMMA InvHandleAccept ==
    ASSUME IInv, TypeOK', HandleAccept
    PROVE  IInv'
<1> DEFINE h == Head(queue).conn
           n == Len(queue)
<1>u. /\ UNCHANGED <<connections, main, stopping, fate, thread>>
      /\ main = "run" /\ StartAccept({}) /\ queue # <<>> /\ Head(queue).kind = "accept"
      /\ queue' = Append(Tail(queue), Item("start", h, "main"))
  BY DEF HandleAccept, Ready
<1>h. n \in Nat \ {0} /\ Head(queue) = queue[1] /\ h \in Conns
  BY <1>u, TailElements, ItemTypes DEF IInv, TypeOK
<1>q. /\ Len(queue') = n
      /\ \A i \in 1..(n - 1) : queue'[i] = queue[i + 1]
      /\ queue'[n] = Item("start", h, "main")
  <2>1. Item("start", h, "main") \in Items
    BY <1>h, ItemTypes DEF Kinds
  <2>2. /\ Tail(queue) \in Seq(Items) /\ Len(Tail(queue)) = n - 1
        /\ \A i \in 1..(n - 1) : Tail(queue)[i] = queue[i + 1]
    BY <1>u, TailElements DEF IInv, TypeOK
  <2> QED
    BY <1>u, <1>h, <2>1, <2>2, AppendElements
<1>i. \A i \in 1..n : IF i = 1 THEN queue[i].conn = queue'[n].conn /\ n \in 1..n
                      ELSE i - 1 \in 1..n /\ queue'[i - 1] = queue[i]
  BY <1>h, <1>q DEF Item
<1>j. \A i \in 1..n : IF i = n THEN queue[1].conn = queue'[i].conn /\ 1 \in 1..n
                      ELSE i + 1 \in 1..n /\ queue'[i] = queue[i + 1]
  BY <1>h, <1>q DEF Item
<1>1. \A d : /\ StopPending(d)' <=> StopPending(d)
             /\ Queued(d)' <=> Queued(d)
             /\ \A t : Contains(Item("stop", d, t)) => Contains(Item("stop", d, t))'
  <2>1. queue[1].kind # "stop" /\ queue'[n].kind # "stop"
    BY <1>u, <1>h, <1>q DEF Item
  <2>2. \A d : StopQueued(d)' <=> StopQueued(d)
    BY <1>i, <1>j, <1>q, <2>1, SMTT(30) DEF StopQueued
  <2>3. \A d : Queued(d)' <=> Queued(d)
    <3>1. ASSUME NEW d, Queued(d) PROVE Queued(d)'
      <4>1. PICK i \in 1..n : queue[i].conn = d
        BY <3>1 DEF Queued
      <4>2. \E j \in 1..n : queue'[j].conn = d
        BY <1>i, <4>1
      <4> QED
        BY <1>q, <4>2 DEF Queued
    <3>2. ASSUME NEW d, Queued(d)' PROVE Queued(d)
      <4>1. PICK i \in 1..n : queue'[i].conn = d
        BY <1>q, <3>2 DEF Queued
      <4>2. \E j \in 1..n : queue[j].conn = d
        BY <1>j, <4>1
      <4> QED
        BY <4>2 DEF Queued
    <3> QED
      BY <3>1, <3>2
  <2>4. \A d, t : Contains(Item("stop", d, t)) => Contains(Item("stop", d, t))'
    BY <1>i, <1>q, <2>1 DEF Contains, Item
  <2> QED
    BY <1>u, <2>2, <2>3, <2>4 DEF StopPending, StopQueued
<1>2. /\ MainStages' /\ HandshakeListed' /\ JoinStages' /\ Outcomes'
      /\ HandshakeAlone' /\ StopKept' /\ ThreadsKnown' /\ FreeUnjoined'
      /\ \A d \in Conns : Fresh(d) => Fresh(d)'
      /\ acceptor' # NoConn => Fresh(acceptor)'
      /\ \A d \in Conns : ThreadHolds(d)' <=> ThreadHolds(d)
      /\ \A d \in Conns, t \in Threads : pc'[t][d] = "release" => pc[t][d] = "release"
  BY <1>u, <1>1, StartAcceptKeeps
<1>3. \A d \in Conns :
         /\ d = acceptor' => life'[d] = "alive" /\ ~Held(d)
         /\ d # acceptor' => life'[d] = life[d]
  BY <1>u, StartAcceptEffect
<1>a. acceptor = NoConn \/ acceptor \in Conns
  BY DEF IInv, TypeOK
<1>4. AcceptorFresh'
  BY <1>1, <1>2, <1>3 DEF TypeOK, AcceptorFresh, Held
<1>5. QueueFresh'
  <2>1. ASSUME NEW i \in 1..n, NEW d \in Conns, queue'[i].kind \in Unstarted, queue'[i].conn = d
        PROVE  Fresh(d)' /\ \A j \in 1..n : j # i => queue'[j].conn # d
    <3>1. PICK k \in 1..n : /\ queue[k].kind \in Unstarted /\ queue[k].conn = d
                            /\ k = IF i = n THEN 1 ELSE i + 1
      BY <1>u, <1>h, <1>j, <2>1 DEF Unstarted, Accepted
    <3>2. Fresh(d) /\ \A j \in 1..n : j # k => queue[j].conn # d
      BY <3>1 DEF IInv, QueueFresh
    <3>3. ASSUME NEW j \in 1..n, j # i PROVE queue'[j].conn # d
      <4>1. PICK m \in 1..n : queue[m].conn = queue'[j].conn /\ m = IF j = n THEN 1 ELSE j + 1
        BY <1>h, <1>j
      <4>2. m # k
        BY <1>h, <3>1, <3>3, <4>1
      <4> QED
        BY <3>2, <4>1, <4>2
    <3> QED
      BY <1>2, <3>2, <3>3
  <2>2. \A i \in 1..n : queue'[i].kind \notin Accepted
    <3>1. \A i \in 1..n : queue[i].kind \in Accepted => i = 1
      BY <1>u, <1>h DEF IInv, QueueFresh, Accepted
    <3> QED
      BY <1>h, <1>j, <1>q, <3>1 DEF Accepted, Item
  <2> QED
    BY <1>q, <2>1, <2>2 DEF QueueFresh
<1>6. Lifetime'
  <2>a. acceptor = NoConn
    BY <1>u, <1>h DEF IInv, QueueFresh, Accepted
  <2>1. \A d \in Conns : d # acceptor' => (Held(d)' <=> Held(d))
    BY <1>u, <1>1, <1>2, <2>a, ConstantsAssumption DEF Held
  <2> QED
    BY <1>u, <1>2, <1>3, <2>1 DEF IInv, Lifetime, RefsMatchLife, Held
<1>7. ReleaseBacked'
  BY <1>u, <1>1, <1>2 DEF IInv, ReleaseBacked, Contains
<1> QED
  BY <1>2, <1>4, <1>5, <1>6, <1>7 DEF IInv

LEMMA InvHandleAcceptError ==
    ASSUME IInv, TypeOK', HandleAcceptError
    PROVE  IInv'
<1> DEFINE h == Head(queue).conn
<1>u. /\ UNCHANGED <<connections, main, stopping, fate, thread>>
      /\ main = "run" /\ StartAccept({h}) /\ queue # <<>> /\ queue' = Tail(queue)
      /\ Head(queue).kind = "acceptError"
  BY DEF HandleAcceptError, Ready
<1>h. /\ h \in Conns /\ Fresh(h) /\ acceptor = NoConn
      /\ \A d : d = h => ~Queued(d)'
      /\ \A d : Queued(d) <=> Queued(d)' \/ d = h
      /\ \A d : StopQueued(d)' <=> StopQueued(d)
      /\ \A x : Contains(x) => Contains(x)' \/ x = Head(queue)
  BY <1>u, DequeueKeeps DEF Unstarted, Accepted
<1>1. \A d : StopPending(d)' <=> StopPending(d)
  BY <1>u, <1>h DEF StopPending, StopQueued
<1>2. Held(h) /\ life[h] = "alive"
  BY <1>h DEF Held, IInv, Lifetime, RefsMatchLife
<1>3. /\ MainStages' /\ HandshakeListed' /\ JoinStages' /\ Outcomes'
      /\ HandshakeAlone' /\ StopKept' /\ ThreadsKnown' /\ FreeUnjoined'
      /\ \A d \in Conns : Fresh(d) => Fresh(d)'
      /\ acceptor' # NoConn => Fresh(acceptor)'
      /\ \A d \in Conns : ThreadHolds(d)' <=> ThreadHolds(d)
      /\ \A d \in Conns, t \in Threads : pc'[t][d] = "release" => pc[t][d] = "release"
  <2>1. \A d \in {h} : life[d] = "alive" /\ Fresh(d) /\ d # NoConn
    BY <1>h, <1>2, ConstantsAssumption
  <2> QED
    BY <1>u, <1>1, <2>1, StartAcceptKeeps
<1>4. \A d \in Conns :
         /\ d = acceptor' => life'[d] = "alive" /\ ~Held(d)
         /\ d # acceptor' => life'[d] = IF d = h THEN "shutRemote" ELSE life[d]
  BY <1>u, StartAcceptEffect
<1>5. AcceptorFresh'
  BY <1>h, <1>3, <1>4 DEF TypeOK, AcceptorFresh, Held
<1>6. QueueFresh'
  BY <1>u, <1>3, DequeueFresh DEF Accepted
<1>7. Lifetime'
  <2>1. \A d \in Conns : d # acceptor' /\ d # h => (Held(d)' <=> Held(d))
    BY <1>u, <1>h, <1>3, ConstantsAssumption DEF Held
  <2>2. h # acceptor' /\ \A d : d = h => ~Held(d)'
    <3>1. h # acceptor' /\ ~ThreadHolds(h) /\ h \notin connections /\ h # stopping.conn
      BY <1>h, <1>2, <1>4 DEF Fresh, ThreadHolds, HasRef
    <3> QED
      BY <1>u, <1>h, <1>3, <3>1 DEF Held
  <2>3. \A d \in Conns : d = acceptor' => Held(d)'
    BY DEF Held
  <2>4. RefsMatchLife'
    BY <1>4, <2>1, <2>2, <2>3 DEF IInv, Lifetime, RefsMatchLife
  <2> QED
    BY <1>3, <2>4 DEF Lifetime
<1>8. ReleaseBacked'
  <2>1. \A t, d : Item("stop", d, t) # Head(queue)
    BY <1>u DEF Item
  <2> QED
    BY <1>u, <1>h, <1>3, <2>1 DEF IInv, ReleaseBacked, Contains
<1> QED
  BY <1>3, <1>5, <1>6, <1>7, <1>8 DEF IInv

LEMMA InvRunStop ==
    ASSUME IInv, TypeOK', RunStop
    PROVE  IInv'
<1> DEFINE h == Head(queue)
<1>u. /\ UNCHANGED <<connections, acceptor, fate, life, thread, pc>>
      /\ main = "run" /\ main' = "sleep" /\ stopping' = h
      /\ queue # <<>> /\ queue' = Tail(queue) /\ h.kind = "stop"
  BY DEF RunStop, Ready
<1>h. /\ h.conn \in Conns
      /\ \A d : Queued(d) <=> Queued(d)' \/ d = h.conn
      /\ \A d : StopQueued(d)' => StopQueued(d)
      /\ \A d : StopQueued(d) => StopQueued(d)' \/ h.conn = d
      /\ \A x : Contains(x) => Contains(x)' \/ x = h
  BY <1>u, DequeueKeeps
<1>s. stopping.conn = NoConn
  BY <1>u DEF IInv, MainStages, NoItem, Item
<1>1. \A d \in Conns : StopPending(d)' <=> StopPending(d)
  <2>1. StopQueued(h.conn)
    BY <1>u, DequeueKeeps, Dequeue DEF StopQueued, IInv
  <2> QED
    BY <1>u, <1>h, <1>s, <2>1, ConstantsAssumption DEF StopPending, StopQueued
<1>2. \A d \in Conns : Fresh(d) /\ d # h.conn => Fresh(d)'
  BY <1>u DEF Fresh
<1>3. MainStages' /\ HandshakeListed' /\ JoinStages' /\ Outcomes'
  BY <1>u DEF IInv, MainStages, HandshakeListed, JoinStages, OnOwnThread, Outcomes,
     DestroyedOnMain, NoJoinableThreadLeft, EscapeOnlyAtShutdown
<1>4. AcceptorFresh'
  BY <1>u, <1>h, <1>2 DEF IInv, TypeOK, AcceptorFresh
<1>5. QueueFresh'
  BY <1>u, <1>2, DequeueFresh
<1>6. Lifetime'
  <2>1. \A d \in Conns : Held(d)' <=> Held(d)
    BY <1>u, <1>h, <1>s, ConstantsAssumption DEF Held, ThreadHolds
  <2> QED
    BY <1>u, <2>1 DEF IInv, Lifetime, RefsMatchLife, ThreadsKnown, FreeUnjoined
<1>7. HandshakeAlone' /\ StopKept'
  BY <1>u, <1>1 DEF IInv, TypeOK, HandshakeAlone, StopKept
<1>8. ReleaseBacked'
  <2>1. \A d \in Conns : stopping # Item("stop", d, "host") /\ stopping # Item("stop", d, "remote")
    BY <1>s, ConstantsAssumption DEF Item
  <2> QED
    BY <1>u, <1>h, <2>1 DEF IInv, ReleaseBacked, Contains, Threads
<1> QED
  BY <1>3, <1>4, <1>5, <1>6, <1>7, <1>8 DEF IInv

LEMMA InvRemove ==
    ASSUME IInv, TypeOK', Remove
    PROVE  IInv'
<1>u. /\ UNCHANGED <<acceptor, queue, fate, thread, pc>>
      /\ main = "sleep" /\ main' = "run" /\ stopping' = NoItem
  BY DEF Remove
<1>c. PICK c \in Conns : /\ c = stopping.conn /\ life' = AfterDrop(c)
                         /\ connections' = connections \ {c}
                         /\ PromptRelease => pc[stopping.by][c] # "release"
  BY DEF Remove
<1>n. NoItem.conn = NoConn
  BY DEF NoItem, Item
<1>1. /\ \A d \in Conns : StopPending(d)' => StopPending(d)
      /\ \A d \in Conns : d # c /\ StopPending(d) => StopPending(d)'
      /\ StopPending(c)
  BY <1>u, <1>c, <1>n, ConstantsAssumption DEF StopPending
<1>2. /\ Lifetime' /\ JoinStages'
      /\ \A d \in Conns : OnOwnThread(d)' <=> OnOwnThread(d)
  <2>1. Held(c) /\ \A d \in Conns : d # c => (Held(d)' <=> Held(d))
    BY <1>u, <1>c, <1>n, ConstantsAssumption DEF Held, Queued, ThreadHolds
  <2> QED
    BY <1>u, <1>c, <2>1, Drops
<1>3. MainStages'
  BY <1>u DEF MainStages
<1>4. HandshakeListed' /\ HandshakeAlone' /\ StopKept'
  BY <1>u, <1>c, <1>1 DEF IInv, TypeOK, HandshakeListed, HandshakeAlone, StopKept
<1>5. \A d \in Conns : Fresh(d) => Fresh(d)'
  BY <1>u, <1>c, <1>n, ConstantsAssumption DEF Fresh
<1>6. AcceptorFresh' /\ QueueFresh'
  BY <1>u, <1>5 DEF IInv, TypeOK, AcceptorFresh, QueueFresh, Queued
<1>7. ReleaseBacked'
  <2>1. ASSUME NEW t \in Threads, NEW d \in Conns, PromptRelease, pc[t][d] = "release"
        PROVE  stopping # Item("stop", d, t)
    BY <1>c, <2>1 DEF Item
  <2> QED
    BY <1>u, <2>1 DEF IInv, ReleaseBacked
<1>8. Outcomes'
  BY <1>u, <1>2 DEF IInv, Outcomes, DestroyedOnMain, NoJoinableThreadLeft, EscapeOnlyAtShutdown
<1> QED
  BY <1>2, <1>3, <1>4, <1>6, <1>7, <1>8 DEF IInv

LEMMA InvRunStart ==
    ASSUME IInv, TypeOK', RunStart, fate = "running"
    PROVE  IInv'
<1>t. "host" \in Threads /\ "remote" \in Threads
  BY DEF Threads
<1>c. PICK c \in Conns : c = Head(queue).conn
  BY DequeueKeeps DEF RunStart, Ready
<1>u. /\ UNCHANGED <<acceptor, main, stopping, life>>
      /\ main = "run" /\ connections' = connections \cup {c}
      /\ queue # <<>> /\ queue' = Tail(queue) /\ Head(queue).kind = "start"
  BY <1>c DEF RunStart, Ready
<1>h. /\ Fresh(c) /\ ~Queued(c)'
      /\ \A d : Queued(d) <=> Queued(d)' \/ d = c
      /\ \A d : StopQueued(d)' <=> StopQueued(d)
      /\ \A x : Contains(x) => Contains(x)' \/ x = Head(queue)
  BY <1>c, <1>u, DequeueKeeps DEF Unstarted, Accepted
<1>1. \A d : StopPending(d)' <=> StopPending(d)
  BY <1>u, <1>h DEF StopPending, StopQueued
<1>p. /\ \A t \in Threads : pc[t][c] = "none" /\ ~thread[t][c]
      /\ \A t \in Threads, d \in Conns : d # c => pc'[t][d] = pc[t][d] /\ thread'[t][d] = thread[t][d]
      /\ pc'["remote"][c] = "none" /\ ~thread'["remote"][c]
      /\ \/ pc'["host"][c] = "request" /\ thread'["host"][c]
         \/ pc'["host"][c] = "none" /\ ~thread'["host"][c]
      /\ fate' \in {"running", "threadLimit"}
  <2>1. \A t \in Threads : pc[t][c] = "none" /\ ~thread[t][c]
    BY <1>h DEF Fresh
  <2>2. CASE SetJoinable("host", c, TRUE) /\ Goto("host", c, "request") /\ UNCHANGED fate
    <3>1. /\ pc'["host"][c] = "request"
          /\ \A t \in Threads, d \in Conns : t # "host" \/ d # c => pc'[t][d] = pc[t][d]
      BY <1>t, <2>2, GotoEffect, PlaceTypes DEF IInv, TypeOK, Handshaking
    <3>2. /\ thread'["host"][c]
          /\ \A t \in Threads, d \in Conns : t # "host" \/ d # c => thread'[t][d] = thread[t][d]
      BY <1>t, <2>2, SetJoinableEffect DEF IInv, TypeOK
    <3> QED
      BY <1>t, <2>1, <2>2, <3>1, <3>2
  <2>3. CASE fate' = "threadLimit" /\ UNCHANGED <<thread, pc>>
    BY <1>t, <2>1, <2>3
  <2> QED
    BY <1>c, <2>2, <2>3 DEF RunStart
<1>2. \A d \in Conns : /\ ThreadHolds(d)' <=> ThreadHolds(d)
                       /\ OnOwnThread(d)' <=> OnOwnThread(d)
                       /\ Fresh(d) /\ d # c => Fresh(d)'
  BY <1>u, <1>p DEF ThreadHolds, OnOwnThread, HasRef, Fresh, Threads
<1>3. MainStages'
  BY <1>u DEF IInv, MainStages
<1>l. life[c] = "alive"
  BY <1>h DEF IInv, Lifetime, RefsMatchLife, Held
<1>4. HandshakeListed' /\ JoinStages'
  <2>1. HandshakeListed'
    BY <1>u, <1>p, <1>t DEF IInv, HandshakeListed, Handshaking
  <2>2. JoinStages'
    BY <1>u, <1>p, <1>2, <1>t, <1>l DEF IInv, JoinStages
  <2> QED
    BY <2>1, <2>2
<1>5. Outcomes'
  BY <1>u, <1>p, <1>2 DEF IInv, Outcomes, DestroyedOnMain, NoJoinableThreadLeft, EscapeOnlyAtShutdown
<1>6. AcceptorFresh'
  BY <1>u, <1>h, <1>2 DEF IInv, TypeOK, AcceptorFresh, Queued
<1>7. QueueFresh'
  BY <1>c, <1>u, <1>2, DequeueFresh
<1>8. Lifetime'
  <2>1. \A d \in Conns : Held(d)' <=> Held(d)
    BY <1>u, <1>h, <1>2 DEF Held
  <2>2. c \in Conns /\ life[c] # "free"
    BY <1>h DEF IInv, Lifetime, RefsMatchLife, Held
  <2> QED
    BY <1>u, <1>p, <1>t, <2>1, <2>2 DEF IInv, Lifetime, RefsMatchLife, ThreadsKnown, FreeUnjoined, Threads
<1>9. HandshakeAlone' /\ StopKept'
  <2>1. ~StopPending(c)
    BY <1>p, <1>t DEF IInv, HandshakeAlone
  <2> QED
    BY <1>u, <1>p, <1>1, <2>1, <1>t DEF IInv, TypeOK, HandshakeAlone, StopKept, Threads
<1>10. ReleaseBacked'
  <2>1. \A t, d : Item("stop", d, t) # Head(queue)
    BY <1>u DEF Item
  <2> QED
    <3>1. \A t \in Threads, d \in Conns : pc'[t][d] = "release" => pc[t][d] = "release"
      BY <1>p DEF Threads
    <3>2. \A t \in Threads, d \in Conns : Contains(Item("stop", d, t)) => Contains(Item("stop", d, t))'
      BY <1>h, <2>1
    <3> QED
      BY <1>u, <3>1, <3>2 DEF IInv, ReleaseBacked, Contains
<1> QED
  BY <1>3, <1>4, <1>5, <1>6, <1>7, <1>8, <1>9, <1>10 DEF IInv

\* The end of the accept loop: the pending accept's reference moves to a handler.
LEMMA CancelAccept ==
    ASSUME IInv, TypeOK', RunSignal
    PROVE  /\ QueueFresh'
           /\ \A d \in Conns : (Queued(d)' <=> Queued(d) \/ d = acceptor)
           /\ \A d \in Conns : (StopQueued(d)' <=> StopQueued(d))
           /\ \A t \in Threads, d \in Conns : Contains(Item("stop", d, t)) => Contains(Item("stop", d, t))'
<1> DEFINE n == Len(queue)
           e == Item("acceptError", acceptor, "main")
<1>u. /\ UNCHANGED <<connections, stopping, thread, pc>>
      /\ queue # <<>> /\ Head(queue).kind = "signal" /\ acceptor' = NoConn
      /\ queue' = IF acceptor = NoConn THEN Tail(queue) ELSE Append(Tail(queue), e)
  BY DEF RunSignal, Ready
<1>h. /\ n \in Nat \ {0} /\ Head(queue) = queue[1] /\ queue[1].conn = NoConn
      /\ Tail(queue) \in Seq(Items) /\ Len(Tail(queue)) = n - 1
      /\ \A i \in 1..(n - 1) : Tail(queue)[i] = queue[i + 1]
  <2>1. Head(queue) \in Items
    BY <1>u, TailElements DEF IInv, TypeOK
  <2>2. Head(queue).conn = NoConn
    BY <1>u, <2>1 DEF Items, Kinds, NoItem, Item
  <2> QED
    BY <1>u, <2>2, TailElements DEF IInv, TypeOK
<1>f. \A d : Fresh(d)' <=> Fresh(d)
  BY <1>u DEF Fresh
<1>1. CASE acceptor = NoConn
  <2>1. queue' = Tail(queue) /\ acceptor' = acceptor
    BY <1>u, <1>1
  <2>2. QueueFresh'
    BY <1>u, <1>f, <2>1, DequeueFresh
  <2>3. /\ \A d : Queued(d) <=> Queued(d)' \/ d = NoConn
        /\ \A d : StopQueued(d)' <=> StopQueued(d)
        /\ \A x : Contains(x) => Contains(x)' \/ x = Head(queue)
    BY <1>u, <1>h, <2>1, DequeueKeeps
  <2>4. \A t, d : Item("stop", d, t) # Head(queue)
    BY <1>u DEF Item
  <2> QED
    BY <1>1, <2>2, <2>3, <2>4, ConstantsAssumption
<1>2. CASE acceptor # NoConn
  <2>a. acceptor \in Conns /\ Fresh(acceptor) /\ ~Queued(acceptor)
    BY <1>2 DEF IInv, TypeOK, AcceptorFresh
  <2>e. e \in Items /\ e.conn = acceptor /\ e.kind = "acceptError"
    BY <2>a, ItemTypes DEF Kinds, Item
  <2>q. /\ Len(queue') = n /\ queue'[n] = e
        /\ \A i \in 1..(n - 1) : queue'[i] = queue[i + 1]
    BY <1>2, <1>u, <1>h, <2>e, AppendElements
  <2>i. \A i \in 1..n : i = 1 \/ (i - 1 \in 1..n /\ queue'[i - 1] = queue[i])
    BY <1>h, <2>q
  <2>j. \A i \in 1..n : i = n \/ (i + 1 \in 1..n /\ queue'[i] = queue[i + 1])
    <3>1. n \in Nat
      BY <1>h
    <3>2. ASSUME NEW i \in 1..n, i # n PROVE i \in 1..(n - 1) /\ i + 1 \in 1..n
      <4> HIDE DEF n
      <4> QED
        BY <3>1, <3>2
    <3> QED
      BY <2>q, <3>2
  <2>n. n \in 1..n /\ 1 \in 1..n
    BY <1>h
  <2>1. \A d \in Conns : (Queued(d)' <=> Queued(d) \/ d = acceptor)
    <3>1. ASSUME NEW d \in Conns, Queued(d) \/ d = acceptor PROVE Queued(d)'
      <4>1. \E k \in 1..n : queue'[k].conn = d
        BY <1>h, <2>i, <2>n, <2>q, <2>e, <3>1, ConstantsAssumption DEF Queued
      <4> QED
        BY <2>q, <4>1 DEF Queued
    <3>2. ASSUME NEW d \in Conns, Queued(d)' PROVE Queued(d) \/ d = acceptor
      <4>1. PICK k \in 1..n : queue'[k].conn = d
        BY <2>q, <3>2 DEF Queued
      <4> QED
        BY <2>j, <2>q, <2>e, <4>1 DEF Queued
    <3> QED
      BY <3>1, <3>2
  <2>2. \A d \in Conns : (StopQueued(d)' <=> StopQueued(d))
    <3>1. ASSUME NEW d \in Conns, StopQueued(d) PROVE StopQueued(d)'
      <4>1. PICK k \in 1..n : queue[k].kind = "stop" /\ queue[k].conn = d
        BY <3>1 DEF StopQueued
      <4>2. k - 1 \in 1..Len(queue') /\ queue'[k - 1] = queue[k]
        BY <1>u, <1>h, <2>i, <2>q, <4>1
      <4> QED
        BY <4>1, <4>2 DEF StopQueued
    <3>2. ASSUME NEW d \in Conns, StopQueued(d)' PROVE StopQueued(d)
      <4>1. PICK k \in 1..n : queue'[k].kind = "stop" /\ queue'[k].conn = d
        BY <2>q, <3>2 DEF StopQueued
      <4>2. k + 1 \in 1..n /\ queue'[k] = queue[k + 1]
        BY <2>e, <2>j, <2>q, <4>1
      <4> QED
        BY <4>1, <4>2 DEF StopQueued
    <3> QED
      BY <3>1, <3>2
  <2>3. ASSUME NEW t \in Threads, NEW d \in Conns, Contains(Item("stop", d, t))
        PROVE  Contains(Item("stop", d, t))'
    <3>1. PICK k \in 1..n : queue[k] = Item("stop", d, t)
      BY <2>3 DEF Contains
    <3>2. queue[k].kind = "stop"
      BY <3>1 DEF Item
    <3>3. k - 1 \in 1..Len(queue') /\ queue'[k - 1] = Item("stop", d, t)
      BY <1>u, <1>h, <2>i, <2>q, <3>1, <3>2
    <3> QED
      BY <3>3 DEF Contains
  <2>4. ASSUME NEW i \in 1..n, NEW d \in Conns, queue'[i].kind \in Unstarted, queue'[i].conn = d
        PROVE  Fresh(d)' /\ \A j \in 1..n : j # i => queue'[j].conn # d
    <3>1. CASE i = n
      <4>1. d = acceptor
        BY <2>4, <2>e, <2>q, <3>1
      <4>2. \A j \in 1..n : queue[j].conn # acceptor
        BY <2>a DEF Queued
      <4> QED
        BY <1>f, <2>a, <2>j, <3>1, <4>1, <4>2
    <3>2. CASE i # n
      <4>1. i + 1 \in 1..n /\ queue[i + 1].kind \in Unstarted /\ queue[i + 1].conn = d
        BY <2>4, <2>j, <3>2
      <4>2. Fresh(d) /\ (\A j \in 1..n : j # i + 1 => queue[j].conn # d) /\ Queued(d)
        BY <4>1 DEF IInv, QueueFresh, Queued
      <4>3. d # acceptor
        BY <2>a, <4>2
      <4>4. ASSUME NEW j \in 1..n, j # i PROVE queue'[j].conn # d
        <5>1. CASE j = n
          BY <2>e, <2>q, <4>3, <5>1
        <5>2. CASE j # n
          BY <2>j, <4>2, <4>4, <5>2
        <5> QED
          BY <5>1, <5>2
      <4> QED
        BY <1>f, <4>2, <4>4
    <3> QED
      BY <3>1, <3>2
  <2>5. \A i \in 1..n : queue'[i].kind \in Accepted => i = n
    <3>1. \A i \in 1..n : queue[i].kind \notin Accepted
      BY <1>2 DEF IInv, QueueFresh
    <3> QED
      BY <2>j, <3>1
  <2>6. QueueFresh'
    BY <1>u, <2>q, <2>4, <2>5, SMTT(30) DEF QueueFresh
  <2> QED
    BY <2>1, <2>2, <2>3, <2>6
<1> QED
  BY <1>1, <1>2

LEMMA InvRunSignal ==
    ASSUME IInv, TypeOK', RunSignal
    PROVE  IInv'
<1>u. /\ UNCHANGED <<connections, stopping, fate, life, thread, pc>>
      /\ main = "run" /\ main' = "clear" /\ acceptor' = NoConn
  BY DEF RunSignal, Ready
<1>q. /\ QueueFresh'
      /\ \A d \in Conns : (Queued(d)' <=> Queued(d) \/ d = acceptor)
      /\ \A d \in Conns : (StopQueued(d)' <=> StopQueued(d))
      /\ \A t \in Threads, d \in Conns : Contains(Item("stop", d, t)) => Contains(Item("stop", d, t))'
  BY CancelAccept
<1>1. MainStages' /\ HandshakeListed' /\ AcceptorFresh' /\ JoinStages'
  BY <1>u DEF IInv, MainStages, HandshakeListed, AcceptorFresh, JoinStages, OnOwnThread
<1>2. \A d \in Conns : StopPending(d)' <=> StopPending(d)
  BY <1>u, <1>q DEF StopPending, StopQueued
<1>3. HandshakeAlone' /\ StopKept'
  BY <1>u, <1>2 DEF IInv, TypeOK, HandshakeAlone, StopKept
<1>4. Lifetime'
  <2>1. \A d \in Conns : Held(d)' <=> Held(d)
    BY <1>u, <1>q, ConstantsAssumption DEF Held, ThreadHolds
  <2> QED
    BY <1>u, <2>1 DEF IInv, Lifetime, RefsMatchLife, ThreadsKnown, FreeUnjoined
<1>5. ReleaseBacked'
  BY <1>u, <1>q DEF IInv, ReleaseBacked, Contains
<1>6. Outcomes'
  BY <1>u DEF IInv, Outcomes, DestroyedOnMain, OnOwnThread, NoJoinableThreadLeft, EscapeOnlyAtShutdown
<1> QED
  BY <1>q, <1>1, <1>3, <1>4, <1>5, <1>6 DEF IInv

LEMMA InvClearOne ==
    ASSUME IInv, TypeOK', ClearOne
    PROVE  IInv'
<1>c. PICK c \in connections : life' = AfterDrop(c) /\ connections' = connections \ {c}
  BY DEF ClearOne
<1>u. /\ UNCHANGED <<acceptor, queue, main, stopping, fate, thread, pc>>
      /\ main = "clear" /\ acceptor = NoConn /\ c \in Conns
  BY DEF ClearOne, IInv, MainStages, TypeOK
<1>1. /\ Lifetime' /\ JoinStages'
      /\ \A d \in Conns : OnOwnThread(d)' <=> OnOwnThread(d)
  <2>1. Held(c) /\ \A d \in Conns : d # c => (Held(d)' <=> Held(d))
    BY <1>u, <1>c DEF Held, Queued, ThreadHolds
  <2> QED
    BY <1>u, <1>c, <2>1, Drops
<1>2. \A d : (StopPending(d)' <=> StopPending(d)) /\ (Fresh(d) => Fresh(d)')
  BY <1>u, <1>c DEF StopPending, Fresh
<1>3. MainStages' /\ HandshakeListed' /\ AcceptorFresh' /\ QueueFresh'
  BY <1>u, <1>c, <1>2 DEF IInv, MainStages, HandshakeListed, AcceptorFresh, QueueFresh
<1>4. HandshakeAlone' /\ StopKept' /\ ReleaseBacked'
  BY <1>u, <1>c, <1>2 DEF IInv, TypeOK, HandshakeAlone, StopKept, ReleaseBacked
<1>5. Outcomes'
  BY <1>u, <1>1 DEF IInv, Outcomes, DestroyedOnMain, NoJoinableThreadLeft, EscapeOnlyAtShutdown
<1> QED
  BY <1>1, <1>3, <1>4, <1>5 DEF IInv

LEMMA InvMainEnds ==
    ASSUME IInv, TypeOK', ClearDone \/ Halt \/ Exit, fate = "running"
    PROVE  IInv'
<1>u. /\ UNCHANGED <<connections, acceptor, queue, stopping, life, thread, pc>>
      /\ connections = {} /\ main \in {"clear", "halt", "drain"} /\ main' \in {"halt", "drain"}
      /\ main = "drain" => main' = "drain"
      /\ fate' \in {"running", "exited"}
  BY DEF ClearDone, Halt, Exit, IInv, MainStages, serverVars
<1>1. MainStages' /\ HandshakeListed' /\ AcceptorFresh' /\ QueueFresh'
  BY <1>u DEF IInv, MainStages, HandshakeListed, AcceptorFresh, QueueFresh, Fresh, Queued
<1>2. HandshakeAlone' /\ StopKept' /\ ReleaseBacked' /\ JoinStages'
  BY <1>u DEF IInv, HandshakeAlone, StopKept, StopPending, ReleaseBacked, JoinStages, OnOwnThread
<1>3. Lifetime' /\ Outcomes'
  BY <1>u DEF IInv, Lifetime, RefsMatchLife, Held, Queued, ThreadHolds, ThreadsKnown, FreeUnjoined,
     Outcomes, DestroyedOnMain, OnOwnThread, NoJoinableThreadLeft, EscapeOnlyAtShutdown
<1> QED
  BY <1>1, <1>2, <1>3 DEF IInv

LEMMA InvDrainOne ==
    ASSUME IInv, TypeOK', DrainOne
    PROVE  IInv'
<1>u. /\ UNCHANGED <<connections, acceptor, main, stopping, fate, thread, pc>>
      /\ main = "drain" /\ connections = {} /\ acceptor = NoConn /\ stopping = NoItem
      /\ queue # <<>> /\ queue' = Tail(queue)
  BY DEF DrainOne, IInv, MainStages
<1>h. /\ \A d : Queued(d) <=> Queued(d)' \/ d = Head(queue).conn
      /\ \A d : StopQueued(d)' => StopQueued(d)
  BY <1>u, DequeueKeeps
<1>1. Lifetime' /\ JoinStages'
  <2>1. CASE Head(queue).conn = NoConn /\ UNCHANGED life
    <3>1. \A d \in Conns : Held(d)' <=> Held(d)
      BY <1>u, <1>h, <2>1, ConstantsAssumption DEF Held, ThreadHolds
    <3> QED
      BY <1>u, <2>1, <3>1 DEF IInv, Lifetime, RefsMatchLife, ThreadsKnown, FreeUnjoined,
         JoinStages, OnOwnThread
  <2>2. CASE \E c \in Conns : c = Head(queue).conn /\ life' = AfterDrop(c)
    <3>1. PICK c \in Conns : c = Head(queue).conn /\ life' = AfterDrop(c)
      BY <2>2
    <3>2. Held(c) /\ \A d \in Conns : d # c => (Held(d)' <=> Held(d))
      BY <1>u, <1>h, <3>1 DEF Held, ThreadHolds
    <3> QED
      BY <1>u, <3>1, <3>2, Drops
  <2> QED
    BY <2>1, <2>2 DEF DrainOne
<1>2. \A d : (StopPending(d)' => StopPending(d)) /\ (Fresh(d)' <=> Fresh(d))
  BY <1>u, <1>h DEF StopPending, StopQueued, Fresh
<1>3. MainStages' /\ HandshakeListed' /\ AcceptorFresh' /\ StopKept' /\ ReleaseBacked'
  BY <1>u DEF IInv, MainStages, HandshakeListed, AcceptorFresh, StopKept, ReleaseBacked
<1>4. QueueFresh'
  BY <1>u, <1>2, DequeueFresh
<1>5. HandshakeAlone' /\ Outcomes'
  BY <1>u, <1>2 DEF IInv, HandshakeAlone, Outcomes, DestroyedOnMain, OnOwnThread,
     NoJoinableThreadLeft, EscapeOnlyAtShutdown
<1> QED
  BY <1>1, <1>3, <1>4, <1>5 DEF IInv

LEMMA InvStutter ==
    ASSUME IInv, UNCHANGED vars
    PROVE  IInv'
<1> USE DEF vars, serverVars
<1>1. TypeOK' /\ MainStages' /\ HandshakeListed' /\ AcceptorFresh' /\ QueueFresh'
  BY DEF IInv, TypeOK, MainStages, HandshakeListed, AcceptorFresh, QueueFresh, Fresh, Queued
<1>2. HandshakeAlone' /\ StopKept' /\ ReleaseBacked' /\ JoinStages'
  BY DEF IInv, HandshakeAlone, StopKept, StopPending, ReleaseBacked, JoinStages, OnOwnThread
<1>3. Lifetime' /\ Outcomes'
  BY DEF IInv, Lifetime, RefsMatchLife, Held, Queued, ThreadHolds, ThreadsKnown, FreeUnjoined,
     Outcomes, DestroyedOnMain, OnOwnThread, NoJoinableThreadLeft, EscapeOnlyAtShutdown
<1> QED
  BY <1>1, <1>2, <1>3 DEF IInv

LEMMA InvStep == IInv /\ [Next]_vars => IInv'
<1> SUFFICES ASSUME IInv, [Next]_vars PROVE IInv'
  OBVIOUS
<1>t. TypeOK /\ TypeOK'
  BY TypeStep DEF IInv
<1>1. CASE UNCHANGED vars
  BY <1>1, InvStutter
<1>2. CASE fate = "running" /\ ServerStep
  BY <1>t, <1>2, InvAcceptDone, InvResumeAccept, InvSignal, InvHandleAccept, InvHandleAcceptError,
     InvRunStart, InvRunStop, InvRemove, InvRunSignal, InvClearOne, InvMainEnds, InvDrainOne
     DEF ServerStep
<1>3. ASSUME fate = "running", NEW c \in Conns,
             \/ Closes(c) \/ JoinThreads(c) \/ DestroyMembers(c) \/ Spawn(c) \/ Catch(c)
             \/ \E t \in Threads : MovesOn(t, c) \/ Stop(t, c) \/ Post(t, c) \/ Release(t, c)
      PROVE  IInv'
  BY <1>t, <1>3, InvCloses, InvJoinThreads, InvDestroyMembers, InvSpawn, InvCatch,
     InvMovesOn, InvStop, InvPost, InvRelease
<1> QED
  BY <1>t, <1>1, <1>2, <1>3, StepCases

-----------------------------------------------------------------------------
(* The theorems.                                                             *)

\* The inductive invariant holds in every behaviour of the program.
THEOREM Invariant == Spec => []IInv
  BY InvInit, InvStep, PTL DEF Spec

\* Every connection object is destroyed exactly when its last shared_ptr goes:
\* the references the list, the pending accept, the handlers and the threads
\* hold are all accounted for, shutdown included.
THEOREM ReferencesCounted == Spec => []RefsMatchLife
<1>1. IInv => RefsMatchLife
  BY DEF IInv, Lifetime
<1> QED
  BY <1>1, Invariant, PTL

\* The storage of a connection is given back only when its threads are past
\* touching it, although they run on a raw pointer.
THEOREM NoThreadLeftBehind == Spec => []NoUseAfterFree
<1>1. IInv => NoUseAfterFree
  BY DEF IInv, Lifetime, ThreadsKnown, FreeUnjoined, NoUseAfterFree
<1> QED
  BY <1>1, Invariant, PTL

\* The 100 ms of stopConnection() do what its comments want of them, on the one
\* premise they rest on: with prompt release the main thread runs every
\* destructor as long as the server runs, and no joinable thread is destroyed.
THEOREM SleepSuffices ==
    Spec => (PromptRelease => [](DestroyedOnMain /\ NoJoinableThreadLeft))
<1>1. IInv => (PromptRelease => DestroyedOnMain /\ NoJoinableThreadLeft)
  BY DEF IInv, Outcomes
<1>2. CASE PromptRelease
  <2>1. IInv => DestroyedOnMain /\ NoJoinableThreadLeft
    BY <1>1, <1>2
  <2> QED
    BY <2>1, Invariant, PTL
<1>3. CASE ~PromptRelease
  BY <1>3
<1> QED
  BY <1>2, <1>3

\* With prompt release no joinable std::thread is destroyed, which would end the
\* process, before main() destroys the io_service with the handlers left in it.
THEOREM JoinedBeforeDestroyed == Spec => (PromptRelease => []NoJoinableThreadLeft)
<1>1. DestroyedOnMain /\ NoJoinableThreadLeft => NoJoinableThreadLeft
  OBVIOUS
<1> QED
  BY <1>1, SleepSuffices, PTL

\* A thread that ended in an orderly way has its stop request still to come as
\* long as its connection is listed: no request is lost.
THEOREM StopsAreNotLost == Spec => []StopNotLost
<1>1. IInv => StopNotLost
  BY DEF IInv, StopKept, StopNotLost
<1> QED
  BY <1>1, Invariant, PTL

\* handshake() lets an exception escape only when the server is shut down.
THEOREM EscapesOnlyAtShutdown == Spec => []EscapeOnlyAtShutdown
<1>1. IInv => EscapeOnlyAtShutdown
  BY DEF IInv, Outcomes
<1> QED
  BY <1>1, Invariant, PTL
=============================================================================
