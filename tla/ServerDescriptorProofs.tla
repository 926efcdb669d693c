----------------------- MODULE ServerDescriptorProofs -----------------------
(***************************************************************************)
(* Proofs about the descriptor numbers of SocksServer's connections: with  *)
(* DescriptorInv next to IInv, no thread uses the client of another        *)
(* connection, the LKL descriptor of another one only once its own is      *)
(* closed, and the destructor joins with both sockets closed.              *)
(***************************************************************************)
EXTENDS SocksServerProofs

Calling == {"reading", "writing"}

\* The steps fall in three sorts: one thread fetches a number, a socket is
\* opened, and all the others, which open nothing and begin no call.
Fetches(k, t, c) ==
    /\ pc'[t][c] = (IF k = t THEN "reading" ELSE "writing") /\ Elsewhere(t, c)
    /\ fd'[t][c] = sock[k][c]
    /\ \A u \in Threads, d \in Conns : u # t \/ d # c => fd'[u][d] = fd[u][d]
    /\ UNCHANGED <<main, life, sock>>

\* Only a connection that waits for its client or runs its handshake gets a socket.
Opens(k, c, f) ==
    /\ f # NoFd /\ \A d \in Conns : sock[k][d] # f
    /\ sock'[k][c] = f
    /\ \A u \in Threads, d \in Conns : u # k \/ d # c => sock'[u][d] = sock[u][d]
    /\ \/ k = "host" /\ main = "run" /\ ~MainBusy /\ life[c] = "alive"
       \/ k = "remote"
    /\ main \in {"run", "sleep"} => life[c] = "alive"
    /\ \A t \in Threads : pc'[t][c] \notin Calling
    /\ \A t \in Threads, d \in Conns : pc'[t][d] \in Calling => pc'[t][d] = pc[t][d]
    /\ UNCHANGED <<main, life, fd>>

Quiet ==
    /\ \A k \in Threads, c \in Conns :
          /\ \/ sock'[k][c] = sock[k][c]
             \/ sock'[k][c] = NoFd /\ life'[c] \in PastClose(k) \cup {"free"}
          /\ life'[c] \in PastClose(k) => life[c] \in PastClose(k) \/ sock'[k][c] = NoFd
          /\ life[c] \in PastClose(k) => life'[c] \in PastClose(k) \cup {"free"}
    /\ \A t \in Threads, c \in Conns :
          pc'[t][c] \in Calling => pc'[t][c] = pc[t][c] /\ fd'[t][c] = fd[t][c]
    /\ main' \in {"run", "sleep"} => main \in {"run", "sleep"}

-----------------------------------------------------------------------------
(* Every step is of one of the sorts.                                        *)

\* A connection with a thread in a call is not free, and one that is fresh has none.
LEMMA CallingIsNotFree ==
    ASSUME IInv, NEW t \in Threads, NEW c \in Conns, pc[t][c] \in Calling
    PROVE  life[c] # "free" /\ ~Fresh(c)
  BY DEF IInv, Lifetime, FreeUnjoined, ThreadsKnown, Ended, Calling, Fresh

\* A step that leaves the sockets and the numbers alone, begins no call and moves
\* objects only between free, alive and the first stage of the destructor.
LEMMA BookkeepingIsQuiet ==
    ASSUME UNCHANGED <<sock, fd>>,
           \A t \in Threads, c \in Conns : pc'[t][c] \in Calling => pc'[t][c] = pc[t][c],
           \A c \in Conns : \/ life'[c] = life[c]
                            \/ /\ life[c] \in {"free", "alive"}
                               /\ life'[c] \in {"alive", "shutRemote"},
           main' \in {"run", "sleep"} => main \in {"run", "sleep"}
    PROVE  Quiet
  BY DEF Quiet, PastClose

\* The reference a step gives up is to a living object.
LEMMA DropEffect ==
    ASSUME IInv, NEW c \in Conns, Held(c), life' = AfterDrop(c)
    PROVE  \A d \in Conns : \/ life'[d] = life[d]
                            \/ life[d] = "alive" /\ life'[d] = "shutRemote"
  BY DEF AfterDrop, IInv, TypeOK, Lifetime, RefsMatchLife

LEMMA StartAcceptIsQuiet ==
    ASSUME IInv, NEW dropped, StartAccept(dropped),
           \A d \in dropped : d \in Conns => life[d] = "alive",
           UNCHANGED <<sock, fd, main>>
    PROVE  Quiet
<1>1. /\ \A t \in Threads, d \in Conns :
            /\ d # acceptor' => pc'[t][d] = pc[t][d]
            /\ d = acceptor' => pc'[t][d] = "none"
      /\ \A d \in Conns :
            /\ d = acceptor' => life[d] = "free" /\ life'[d] = "alive"
            /\ d # acceptor' => life'[d] = IF d \in dropped THEN "shutRemote" ELSE life[d]
  BY StartAcceptEffect
<1>2. \A t \in Threads, c \in Conns : pc'[t][c] \in Calling => pc'[t][c] = pc[t][c]
  BY <1>1 DEF Calling
<1>3. \A c \in Conns : \/ life'[c] = life[c]
                       \/ life[c] \in {"free", "alive"} /\ life'[c] \in {"alive", "shutRemote"}
  BY <1>1
<1> QED
  BY <1>2, <1>3, BookkeepingIsQuiet

LEMMA ServerSteps ==
    ASSUME IInv, TypeOK', ServerStep, ~AcceptDone
    PROVE  Quiet
<1>t. "host" \in Threads
  BY DEF Threads
<1>1. CASE ResumeAccept
  BY <1>1, StartAcceptIsQuiet DEF ResumeAccept
<1>2. CASE HandleAccept
  BY <1>2, StartAcceptIsQuiet DEF HandleAccept, Ready
<1>3. CASE HandleAcceptError
  <2>1. Held(Head(queue).conn)
    BY <1>3, Dequeue DEF HandleAcceptError, Ready, IInv, Held
  <2> QED
    BY <1>3, <2>1, StartAcceptIsQuiet
       DEF HandleAcceptError, Ready, IInv, Lifetime, RefsMatchLife
<1>4. CASE RunStart
  <2>1. Head(queue).conn \in Conns
    BY <1>4, DequeueKeeps DEF RunStart, Ready
  <2>2. UNCHANGED <<sock, fd, life, main>>
    BY <1>4 DEF RunStart
  <2>3. UNCHANGED pc \/ Goto("host", Head(queue).conn, "request")
    BY <1>4 DEF RunStart
  <2>4. \A t \in Threads, c \in Conns : pc'[t][c] \in Calling => pc'[t][c] = pc[t][c]
    BY <2>1, <2>3, <1>t, GotoEffect, PlaceTypes DEF IInv, TypeOK, Calling, Handshaking
  <2> QED
    BY <2>2, <2>4, BookkeepingIsQuiet
<1>5. CASE Remove
  <2>1. PICK c \in Conns : c = stopping.conn /\ life' = AfterDrop(c)
    BY <1>5 DEF Remove
  <2>2. \A d \in Conns : \/ life'[d] = life[d]
                         \/ life[d] = "alive" /\ life'[d] = "shutRemote"
    BY <2>1, DropEffect DEF Held
  <2> QED
    BY <1>5, <2>2, BookkeepingIsQuiet DEF Remove
<1>6. CASE ClearOne
  <2>1. PICK c \in connections : life' = AfterDrop(c)
    BY <1>6 DEF ClearOne
  <2>2. \A d \in Conns : \/ life'[d] = life[d]
                         \/ life[d] = "alive" /\ life'[d] = "shutRemote"
    BY <2>1, DropEffect DEF Held, IInv, TypeOK
  <2> QED
    BY <1>6, <2>2, BookkeepingIsQuiet DEF ClearOne
<1>7. CASE DrainOne
  <2>1. CASE \E c \in Conns : c = Head(queue).conn /\ life' = AfterDrop(c)
    <3>1. PICK c \in Conns : c = Head(queue).conn /\ life' = AfterDrop(c)
      BY <2>1
    <3>2. Held(c)
      BY <1>7, <3>1, Dequeue DEF DrainOne, IInv, Held
    <3>3. \A d \in Conns : \/ life'[d] = life[d]
                           \/ life[d] = "alive" /\ life'[d] = "shutRemote"
      BY <3>1, <3>2, DropEffect
    <3> QED
      BY <1>7, <3>3, BookkeepingIsQuiet DEF DrainOne
  <2> QED
    BY <1>7, <2>1, BookkeepingIsQuiet DEF DrainOne
<1>8. CASE Signal \/ RunStop \/ RunSignal \/ ClearDone \/ Halt \/ Exit
  <2>1. /\ UNCHANGED <<sock, fd, life, pc>>
        /\ main' \in {"run", "sleep"} => main \in {"run", "sleep"}
    BY <1>8 DEF Signal, RunStop, RunSignal, ClearDone, Halt, Exit, Ready, serverVars
  <2> QED
    BY <2>1, BookkeepingIsQuiet
<1> QED
  BY <1>1, <1>2, <1>3, <1>4, <1>5, <1>6, <1>7, <1>8 DEF ServerStep

LEMMA AcceptSteps ==
    ASSUME IInv, TypeOK', AcceptDone
    PROVE  Quiet \/ \E c \in Conns, f \in Fds : Opens("host", c, f)
<1>1. /\ UNCHANGED <<main, life, pc, fd>> /\ main = "run" /\ ~MainBusy /\ acceptor \in Conns
  BY DEF AcceptDone, IInv, TypeOK
<1>2. CASE UNCHANGED sock
  BY <1>1, <1>2, BookkeepingIsQuiet
<1>3. CASE \E f \in Fds : ~Open("host", f) /\ SetSocket("host", acceptor, f)
  <2>1. PICK f \in Fds : ~Open("host", f) /\ SetSocket("host", acceptor, f)
    BY <1>3
  <2>2. /\ sock'["host"][acceptor] = f
        /\ \A u \in Threads, d \in Conns :
              u # "host" \/ d # acceptor => sock'[u][d] = sock[u][d]
    BY <2>1, <1>1, SetSocketEffect DEF Threads, IInv, TypeOK
  <2>3. life[acceptor] = "alive" /\ \A t \in Threads : pc[t][acceptor] \notin Calling
    <3>1. Fresh(acceptor)
      BY <1>1, ConstantsAssumption DEF IInv, AcceptorFresh
    <3> QED
      BY <1>1, <3>1 DEF Fresh, Calling, IInv, Lifetime, RefsMatchLife, Held
  <2>4. f # NoFd /\ \A d \in Conns : sock["host"][d] # f
    BY <2>1, ConstantsAssumption DEF Open
  <2>5. Opens("host", acceptor, f)
    BY <1>1, <2>2, <2>3, <2>4 DEF Opens
  <2> QED
    BY <1>1, <2>5
<1> QED
  BY <1>2, <1>3 DEF AcceptDone

\* The handshake: only OpenRemote touches a socket.
LEMMA HandshakeSteps ==
    ASSUME IInv, TypeOK', NEW c \in Conns, Handshake(c)
    PROVE  Quiet \/ \E f \in Fds : Opens("remote", c, f)
<1>t. "host" \in Threads /\ "remote" \in Threads
  BY DEF Threads
<1>1. CASE ReadRequest(c) \/ Connect(c) \/ Refuse(c) \/ Reply(c) \/ Catch(c)
  <2>1. UNCHANGED <<sock, fd, life, main>>
    BY <1>1 DEF ReadRequest, Connect, Refuse, Reply, Catch, serverVars
  <2>2. UNCHANGED pc \/ \E place \in Handshaking \cup HasRef : Goto("host", c, place)
    BY <1>1 DEF ReadRequest, Connect, Refuse, Reply, Catch, Handshaking, HasRef
  <2>3. \A t \in Threads, d \in Conns : pc'[t][d] \in Calling => pc'[t][d] = pc[t][d]
    BY <2>2, <1>t, GotoEffect, PlaceTypes DEF IInv, TypeOK, Calling, Handshaking, HasRef
  <2> QED
    BY <2>1, <2>3, BookkeepingIsQuiet
<1>2. CASE Spawn(c)
  <2>1. UNCHANGED <<sock, fd, life, main>>
    BY <1>2 DEF Spawn, serverVars
  <2>2. \A t \in Threads, d \in Conns : pc'[t][d] \in Calling => pc'[t][d] = pc[t][d]
    <3>1. CASE Goto("host", c, "catch")
      BY <3>1, <1>t, GotoEffect, PlaceTypes DEF IInv, TypeOK, Calling, Handshaking
    <3>2. CASE pc' = [pc EXCEPT !["host"][c] = "read", !["remote"][c] = "read"]
      BY <3>2 DEF IInv, TypeOK, Calling
    <3> QED
      BY <1>2, <3>1, <3>2 DEF Spawn
  <2> QED
    BY <2>1, <2>2, BookkeepingIsQuiet
<1>3. CASE OpenRemote(c)
  <2>1. UNCHANGED <<fd, life, main>> /\ pc["host"][c] = "open"
    BY <1>3 DEF OpenRemote, serverVars
  <2>2. \E place \in Handshaking : Goto("host", c, place)
    BY <1>3 DEF OpenRemote, Handshaking
  <2>3. /\ pc'["host"][c] \in Handshaking
        /\ \A u \in Threads, d \in Conns : u # "host" \/ d # c => pc'[u][d] = pc[u][d]
    BY <2>2, <1>t, GotoEffect, PlaceTypes DEF IInv, TypeOK
  <2>4. \A t \in Threads, d \in Conns : pc'[t][d] \in Calling => pc'[t][d] = pc[t][d]
    BY <2>3 DEF Handshaking, Calling
  <2>5. CASE UNCHANGED sock
    BY <2>1, <2>4, <2>5, BookkeepingIsQuiet
  <2>6. CASE \E f \in Fds : ~Open("remote", f) /\ SetSocket("remote", c, f)
    <3>1. PICK f \in Fds : ~Open("remote", f) /\ SetSocket("remote", c, f)
      BY <2>6
    <3>2. /\ sock'["remote"][c] = f
          /\ \A u \in Threads, d \in Conns : u # "remote" \/ d # c => sock'[u][d] = sock[u][d]
      BY <3>1, <1>t, SetSocketEffect DEF IInv, TypeOK
    <3>3. f # NoFd /\ \A d \in Conns : sock["remote"][d] # f
      BY <3>1, ConstantsAssumption DEF Open
    <3>4. main \in {"run", "sleep"} => life[c] = "alive"
      BY <2>1 DEF IInv, HandshakeListed, Handshaking, Lifetime, RefsMatchLife, Held
    <3>5. \A t \in Threads : pc'[t][c] \notin Calling
      BY <2>1, <2>3 DEF IInv, HandshakeAlone, Handshaking, Threads, Calling
    <3>6. Opens("remote", c, f)
      BY <2>1, <2>4, <3>2, <3>3, <3>4, <3>5 DEF Opens
    <3> QED
      BY <3>6
  <2> QED
    BY <1>3, <2>5, <2>6 DEF OpenRemote
<1> QED
  BY <1>1, <1>2, <1>3 DEF Handshake

\* The relay: two steps fetch a number, the calls give it up.
LEMMA RelaySteps ==
    ASSUME IInv, TypeOK', NEW c \in Conns, NEW t \in Threads, Relay(t, c)
    PROVE  Quiet \/ \E k \in Threads : Fetches(k, t, c)
<1>t. Other(t) \in Threads /\ Other(t) # t
  BY DEF Threads, Other
<1>s. \A k \in Threads : sock[k][c] \in Fds \cup {NoFd}
  BY DEF IInv, TypeOK
<1>1. CASE FetchSource(t, c)
  <2>1. /\ pc'[t][c] = "reading" /\ Elsewhere(t, c)
        /\ fd'[t][c] = sock[t][c]
        /\ \A u \in Threads, d \in Conns : u # t \/ d # c => fd'[u][d] = fd[u][d]
    BY <1>1, <1>s, GotoEffect, SetFdEffect, PlaceTypes
       DEF FetchSource, IInv, TypeOK, Elsewhere, Relaying
  <2> QED
    BY <1>1, <2>1 DEF Fetches, FetchSource, serverVars
<1>2. CASE FetchSink(t, c)
  <2>1. /\ pc'[t][c] = "writing" /\ Elsewhere(t, c)
        /\ fd'[t][c] = sock[Other(t)][c]
        /\ \A u \in Threads, d \in Conns : u # t \/ d # c => fd'[u][d] = fd[u][d]
    BY <1>2, <1>s, <1>t, GotoEffect, SetFdEffect, PlaceTypes
       DEF FetchSink, IInv, TypeOK, Elsewhere, Relaying
  <2>2. Fetches(Other(t), t, c)
    BY <1>2, <1>t, <2>1 DEF Fetches, FetchSink, serverVars
  <2> QED
    BY <1>t, <2>2
<1>3. CASE Read(t, c) \/ Write(t, c)
  <2>1. \E place \in {"read", "write", "stop", "failed"} : Goto(t, c, place)
    BY <1>3 DEF Read, Write
  <2>2. pc'[t][c] \notin Calling /\ Elsewhere(t, c)
    BY <2>1, GotoEffect, PlaceTypes DEF IInv, TypeOK, Elsewhere, Relaying, Ended, Calling
  <2>3. \A u \in Threads, d \in Conns : u # t \/ d # c => fd'[u][d] = fd[u][d]
    BY <1>3, SetFdEffect DEF Read, Write, IInv, TypeOK
  <2>4. UNCHANGED <<sock, life, main>>
    BY <1>3 DEF Read, Write, serverVars
  <2> QED
    BY <2>2, <2>3, <2>4 DEF Quiet, Elsewhere
<1>4. CASE Stop(t, c) \/ Post(t, c)
  <2>1. UNCHANGED pc \/ \E place \in {"post", "done", "release"} : Goto(t, c, place)
    BY <1>4 DEF Stop, Post
  <2>2. \A u \in Threads, d \in Conns : pc'[u][d] \in Calling => pc'[u][d] = pc[u][d]
    BY <2>1, GotoEffect, PlaceTypes DEF IInv, TypeOK, HasRef, Ended, Calling
  <2>3. UNCHANGED <<sock, fd, life, main>>
    BY <1>4 DEF Stop, Post, serverVars
  <2> QED
    BY <2>2, <2>3, BookkeepingIsQuiet
<1>5. CASE Release(t, c)
  <2>1. Held(c) /\ life' = AfterDrop(c) /\ UNCHANGED <<sock, fd, main>>
    BY <1>5 DEF Release, Held, ThreadHolds, HasRef, serverVars
  <2>2. \A d \in Conns : \/ life'[d] = life[d]
                         \/ life[d] = "alive" /\ life'[d] = "shutRemote"
    BY <2>1, DropEffect
  <2>3. \E place \in {"done", "destroying"} : Goto(t, c, place)
    BY <1>5 DEF Release
  <2>4. \A u \in Threads, d \in Conns : pc'[u][d] \in Calling => pc'[u][d] = pc[u][d]
    BY <2>3, GotoEffect, PlaceTypes DEF IInv, TypeOK, Ended, Calling
  <2> QED
    BY <2>1, <2>2, <2>4, BookkeepingIsQuiet
<1> QED
  BY <1>1, <1>2, <1>3, <1>4, <1>5 DEF Relay

\* The destructor: a socket it closes is closed by the stage it goes to.
LEMMA DestructorSteps ==
    ASSUME IInv, TypeOK', NEW c \in Conns, Destructor(c)
    PROVE  Quiet
<1>t. "host" \in Threads /\ "remote" \in Threads
  BY DEF Threads
<1>1. CASE \/ ShutSocket("remote", c, "shutRemote", "closeRemote", "shutHost")
           \/ ShutSocket("host", c, "shutHost", "closeHost", "joinHost")
  <2>1. UNCHANGED <<sock, fd, pc, main>>
    BY <1>1 DEF ShutSocket, serverVars
  <2>2. \A d \in Conns : d # c => life'[d] = life[d]
    BY <1>1 DEF ShutSocket, IInv, TypeOK
  <2>3. \/ life[c] = "shutRemote" /\ life'[c] = "closeRemote"
        \/ life[c] = "shutRemote" /\ life'[c] = "shutHost" /\ sock["remote"][c] = NoFd
        \/ life[c] = "shutHost" /\ life'[c] = "closeHost"
        \/ life[c] = "shutHost" /\ life'[c] = "joinHost" /\ sock["host"][c] = NoFd
    BY <1>1 DEF ShutSocket, IInv, TypeOK
  <2> QED
    BY <2>1, <2>2, <2>3 DEF Quiet, PastClose, Threads
<1>2. CASE \/ CloseSocket("remote", c, "closeRemote", "shutHost")
           \/ CloseSocket("host", c, "closeHost", "joinHost")
  <2>1. UNCHANGED <<fd, pc, main>>
    BY <1>2 DEF CloseSocket, serverVars
  <2>2. \A d \in Conns : d # c => life'[d] = life[d]
    BY <1>2 DEF CloseSocket, IInv, TypeOK
  <2>3. \E k \in Threads :
           /\ sock'[k][c] = NoFd
           /\ \A u \in Threads, d \in Conns : u # k \/ d # c => sock'[u][d] = sock[u][d]
           /\ \/ k = "remote" /\ life[c] = "closeRemote" /\ life'[c] = "shutHost"
              \/ k = "host" /\ life[c] = "closeHost" /\ life'[c] = "joinHost"
    BY <1>2, <1>t, SetSocketEffect DEF CloseSocket, IInv, TypeOK
  <2> QED
    BY <2>1, <2>2, <2>3 DEF Quiet, PastClose, Threads
<1>3. CASE JoinThreads(c)
  <2>1. UNCHANGED <<sock, fd, pc, main>>
    BY <1>3 DEF JoinThreads, Join, serverVars
  <2>2. /\ \A d \in Conns : d # c => life'[d] = life[d]
        /\ life[c] \in {"joinHost", "joinRemote"}
        /\ life'[c] \in {"joinHost", "joinRemote", "members"}
    BY <1>3 DEF JoinThreads, Join, IInv, TypeOK
  <2> QED
    BY <2>1, <2>2 DEF Quiet, PastClose
<1>4. CASE DestroyMembers(c)
  <2>1. UNCHANGED <<fd, pc, main>> /\ life[c] = "members"
    BY <1>4 DEF DestroyMembers, serverVars
  <2>2. CASE UNCHANGED <<life, sock>>
    BY <2>1, <2>2 DEF Quiet
  <2>3. CASE /\ sock' = [t \in Threads |-> [sock[t] EXCEPT ![c] = NoFd]]
             /\ life' = [life EXCEPT ![c] = "free"]
    <3>1. \A k \in Threads, d \in Conns : sock'[k][d] = IF d = c THEN NoFd ELSE sock[k][d]
      BY <2>3 DEF IInv, TypeOK
    <3>2. \A d \in Conns : life'[d] = IF d = c THEN "free" ELSE life[d]
      BY <2>3 DEF IInv, TypeOK
    <3> QED
      BY <2>1, <3>1, <3>2 DEF Quiet, PastClose
  <2> QED
    BY <1>4, <2>2, <2>3 DEF DestroyMembers
<1> QED
  BY <1>1, <1>2, <1>3, <1>4 DEF Destructor, CloseSockets

LEMMA DescriptorSorts ==
    ASSUME IInv, TypeOK', [Next]_vars
    PROVE  \/ Quiet
           \/ \E c \in Conns, t \in Threads, k \in Threads : Fetches(k, t, c)
           \/ \E c \in Conns, k \in Threads, f \in Fds : Opens(k, c, f)
<1>t. "host" \in Threads /\ "remote" \in Threads
  BY DEF Threads
<1>1. CASE UNCHANGED vars
  BY <1>1 DEF Quiet, vars, serverVars
<1>2. CASE AcceptDone \/ ServerStep
  BY <1>2, <1>t, AcceptSteps, ServerSteps
<1>3. ASSUME NEW c \in Conns,
             Handshake(c) \/ Destructor(c) \/ \E t \in Threads : Relay(t, c)
      PROVE  \/ Quiet
             \/ \E t \in Threads, k \in Threads : Fetches(k, t, c)
             \/ \E k \in Threads, f \in Fds : Opens(k, c, f)
  BY <1>3, <1>t, HandshakeSteps, RelaySteps, DestructorSteps
<1> QED
  BY <1>1, <1>2, <1>3 DEF Next, MainStep, ServerStep, ConnectionNext, Finished

-----------------------------------------------------------------------------
(* The three sorts keep the invariant.                                       *)

LEMMA DescriptorInit == Init => DescriptorInv
<1> SUFFICES ASSUME Init PROVE DescriptorInv
  OBVIOUS
<1>1. \A k \in Threads, c \in Conns : sock[k][c] = NoFd /\ pc[k][c] = "none"
  BY DEF Init
<1>2. OneSocketPerNumber /\ StaysClosed
  BY <1>1 DEF OneSocketPerNumber, StaysClosed
<1>3. FetchedIsOwn /\ HostDescriptorsOwn
  BY <1>1 DEF FetchedIsOwn, InUse, HostDescriptorsOwn, SourceForeign, SinkForeign, Threads
<1> QED
  BY <1>2, <1>3 DEF DescriptorInv

LEMMA QuietKeeps ==
    ASSUME IInv, IInv', DescriptorInv, Quiet
    PROVE  DescriptorInv'
<1> USE DEF DescriptorInv
<1>1. OneSocketPerNumber'
  BY DEF Quiet, OneSocketPerNumber
<1>2. FetchedIsOwn'
  <2> SUFFICES ASSUME NEW k \in Threads, NEW t \in Threads, NEW c \in Conns,
                      InUse(k, t, c)', life'[c] \notin PastClose(k)
               PROVE  fd'[t][c] = sock'[k][c]
    BY DEF FetchedIsOwn, PastClose
  <2>1. pc'[t][c] \in Calling /\ InUse(k, t, c) /\ fd'[t][c] = fd[t][c]
    BY DEF InUse, Calling, Quiet
  <2>2. life'[c] # "free"
    BY <2>1 DEF IInv, Lifetime, FreeUnjoined, ThreadsKnown, Ended, Calling
  <2>3. life[c] \notin PastClose(k) /\ sock'[k][c] = sock[k][c]
    BY <2>2 DEF Quiet
  <2> QED
    BY <2>1, <2>3 DEF FetchedIsOwn
<1>3. StaysClosed'
  BY DEF Quiet, StaysClosed, PastClose
<1>4. ASSUME HostDescriptorsOwn PROVE HostDescriptorsOwn'
  <2>1. \A f : \A c \in Conns : Foreign("host", f, c)' => Foreign("host", f, c)
    BY DEF Quiet, Foreign, Threads
  <2> QED
    BY <1>4, <2>1 DEF HostDescriptorsOwn, SourceForeign, SinkForeign, Quiet, Calling, Threads, Other
<1> QED
  BY <1>1, <1>2, <1>3, <1>4

LEMMA FetchesKeeps ==
    ASSUME IInv, DescriptorInv, NEW c \in Conns, NEW t \in Threads, NEW k \in Threads,
           Fetches(k, t, c)
    PROVE  DescriptorInv'
<1> USE DEF DescriptorInv
<1>1. OneSocketPerNumber' /\ StaysClosed'
  BY DEF Fetches, OneSocketPerNumber, StaysClosed, PastClose
<1>2. FetchedIsOwn'
  BY DEF Fetches, Elsewhere, FetchedIsOwn, InUse, PastClose, Threads
<1>3. ASSUME HostDescriptorsOwn PROVE HostDescriptorsOwn'
  <2>1. \A f : \A d \in Conns : Foreign("host", f, d)' <=> Foreign("host", f, d)
    BY DEF Fetches, Foreign
  <2>2. ~Foreign("host", sock["host"][c], c)
    BY DEF Foreign, OneSocketPerNumber, Threads
  <2> QED
    BY <1>3, <2>1, <2>2 DEF HostDescriptorsOwn, SourceForeign, SinkForeign, Fetches, Elsewhere,
       Threads, Other
<1> QED
  BY <1>1, <1>2, <1>3

LEMMA OpensKeeps ==
    ASSUME IInv, DescriptorInv, NEW c \in Conns, NEW k \in Threads, NEW f \in Fds, Opens(k, c, f)
    PROVE  DescriptorInv'
<1> USE DEF DescriptorInv
<1>1. OneSocketPerNumber'
  BY DEF Opens, OneSocketPerNumber
<1>2. FetchedIsOwn'
  <2> SUFFICES ASSUME NEW u \in Threads, NEW t \in Threads, NEW d \in Conns,
                      InUse(u, t, d)', life'[d] \notin PastClose(u)
               PROVE  fd'[t][d] = sock'[u][d]
    BY DEF FetchedIsOwn, PastClose
  <2>1. d # c /\ InUse(u, t, d)
    BY DEF InUse, Opens, Calling
  <2> QED
    BY <2>1 DEF Opens, FetchedIsOwn
<1>3. StaysClosed'
  BY DEF Opens, StaysClosed, PastClose
<1>4. ASSUME PromptRelease, HostDescriptorsOwn PROVE HostDescriptorsOwn'
  <2>1. CASE k = "remote"
    <3>1. \A g : \A d \in Conns : Foreign("host", g, d)' <=> Foreign("host", g, d)
      BY <2>1 DEF Opens, Foreign, Threads
    <3> QED
      BY <1>4, <3>1 DEF HostDescriptorsOwn, SourceForeign, SinkForeign, Opens, Calling, Threads, Other
  <2>2. CASE k = "host" /\ main = "run" /\ ~MainBusy
    <3>1. \A d \in Conns : life[d] \notin Destruction
      BY <1>4, <2>2 DEF MainBusy, Destroying, IInv, Outcomes, DestroyedOnMain
    <3>2. \A d \in Conns, t \in Threads : pc[t][d] \in Calling => life[d] = "alive"
      BY <3>1, CallingIsNotFree DEF IInv, TypeOK
    <3>3. \A d \in Conns, t \in Threads :
             pc[t][d] \in Calling /\ InUse("host", t, d) => fd[t][d] = sock["host"][d]
      BY <3>2 DEF FetchedIsOwn, PastClose, Threads
    <3>4. \A d \in Conns, t \in Threads :
             pc'[t][d] \in Calling /\ InUse("host", t, d)' => ~Foreign("host", fd[t][d], d)'
      <4> SUFFICES ASSUME NEW d \in Conns, NEW t \in Threads,
                          pc'[t][d] \in Calling, InUse("host", t, d)'
                   PROVE  ~Foreign("host", fd[t][d], d)'
        OBVIOUS
      <4>1. pc[t][d] \in Calling /\ InUse("host", t, d) /\ fd'[t][d] = fd[t][d] /\ d # c
        BY DEF Opens, InUse
      <4>2. fd'[t][d] = sock["host"][d] /\ fd'[t][d] # f
        BY <2>2, <3>3, <4>1 DEF Opens
      <4>3. sock'["host"][d] = sock["host"][d]
        BY <4>1, <2>2 DEF Opens
      <4>4. \A e \in Conns : e # d /\ sock'["host"][e] = fd'[t][d] => fd'[t][d] = NoFd
        BY <1>1, <4>2, <4>3 DEF OneSocketPerNumber, Threads
      <4> QED
        BY <4>4 DEF Foreign
    <3> QED
      BY <3>4 DEF HostDescriptorsOwn, SourceForeign, SinkForeign, InUse, Calling, Threads, Other
  <2> QED
    BY <2>1, <2>2 DEF Opens
<1> QED
  BY <1>1, <1>2, <1>3, <1>4

LEMMA DescriptorStep == IInv /\ DescriptorInv /\ [Next]_vars => DescriptorInv'
<1> SUFFICES ASSUME IInv, DescriptorInv, [Next]_vars PROVE DescriptorInv'
  OBVIOUS
<1>1. IInv' /\ TypeOK'
  BY InvStep DEF IInv
<1> QED
  BY <1>1, DescriptorSorts, QuietKeeps, FetchesKeeps, OpensKeeps

-----------------------------------------------------------------------------
(* The theorems.                                                             *)

\* Each open number belongs to one socket object, a thread calls on the socket of
\* its own connection until that is closed, and a socket ~SocksConnection() has
\* closed is not opened again while the server runs.
THEOREM DescriptorsHold == Spec => []DescriptorInv
  BY InvInit, InvStep, DescriptorInit, DescriptorStep, PTL DEF Spec

\* With prompt release, no thread reads or writes the client of another
\* connection: the main thread accepts only when no destructor is under way, and
\* until then the threads of living connections hold the numbers of their own.
THEOREM ClientsAreOwn == Spec => (PromptRelease => []HostDescriptorsOwn)
<1>1. CASE PromptRelease
  <2>1. DescriptorInv => HostDescriptorsOwn
    BY <1>1 DEF DescriptorInv
  <2> QED
    BY <2>1, DescriptorsHold, PTL
<1>2. CASE ~PromptRelease
  BY <1>2
<1> QED
  BY <1>1, <1>2

\* The LKL descriptor of another connection is met only by the thread of one whose
\* destructor is past closing the remote socket.
THEOREM DestinationsAreOwn == Spec => []RemoteDescriptorsOwn
<1>1. IInv /\ DescriptorInv => RemoteDescriptorsOwn
  <2> SUFFICES ASSUME IInv, DescriptorInv, NEW c \in Conns,
                      SourceForeign("remote", c) \/ SinkForeign("host", c)
               PROVE  life[c] \in Destruction \ {"shutRemote", "closeRemote"}
    BY DEF RemoteDescriptorsOwn
  <2>1. PICK t \in Threads :
           pc[t][c] \in Calling /\ InUse("remote", t, c) /\ Foreign("remote", fd[t][c], c)
    BY DEF SourceForeign, SinkForeign, InUse, Calling, Threads, Other
  <2>2. fd[t][c] # sock["remote"][c]
    BY <2>1 DEF Foreign, DescriptorInv, OneSocketPerNumber, Threads
  <2>3. life[c] \in PastClose("remote")
    BY <2>1, <2>2 DEF DescriptorInv, FetchedIsOwn, Threads
  <2> QED
    BY <2>3 DEF PastClose, Destruction
<1> QED
  BY <1>1, Invariant, DescriptorsHold, PTL

\* While the server runs, ~SocksConnection() waits for the threads only with both
\* sockets closed: handshake() does not open the remote one behind its back.
THEOREM JoinsFindClosed == Spec => []ClosedBeforeJoin
<1>1. DescriptorInv => ClosedBeforeJoin
  BY DEF DescriptorInv, StaysClosed, ClosedBeforeJoin, PastClose
<1> QED
  BY <1>1, DescriptorsHold, PTL

\* A connection with a host thread that outlives the server is one whose stop was
\* requested and not served: neither the list, nor the pending accept, nor a
\* queued start keeps one.
THEOREM OnlyStopsOutlive == Spec => []OutlivesServer
<1>1. IInv => OutlivesServer
  <2> SUFFICES ASSUME IInv, main \in {"halt", "drain"}, NEW c \in Conns,
                      life[c] = "alive", thread["host"][c]
               PROVE  StopPending(c) \/ ThreadHolds(c)
    BY DEF OutlivesServer
  <2>1. connections = {} /\ acceptor = NoConn /\ stopping.conn = NoConn
    BY DEF IInv, MainStages, NoItem, Item
  <2>2. Queued(c) \/ ThreadHolds(c)
    BY <2>1, ConstantsAssumption DEF IInv, Lifetime, RefsMatchLife, Held
  <2>3. ASSUME NEW i \in 1..Len(queue), queue[i].conn = c PROVE queue[i].kind = "stop"
    <3>1. ~Fresh(c)
      BY DEF Fresh, Threads
    <3>2. queue[i].kind \notin Unstarted
      BY <2>3, <3>1 DEF IInv, QueueFresh
    <3>3. queue[i] \in Items /\ queue[i].conn # NoConn
      BY <2>3, QueueElements, ConstantsAssumption DEF IInv
    <3> QED
      BY <3>2, <3>3 DEF Items, Kinds, NoItem, Item, Unstarted, Accepted
  <2> QED
    BY <2>2, <2>3 DEF Queued, StopPending
<1> QED
  BY <1>1, Invariant, PTL
=============================================================================
