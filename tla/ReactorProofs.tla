----------------------------- MODULE ReactorProofs -----------------------------
(***************************************************************************)
(* That the operations of ReactorOps keep the ownership of descriptors     *)
(* and the modes the blocking calls rely on, and that an attempt of a      *)
(* pending operation tells its caller the truth.  What SocketProofs shows  *)
(* of each sort of step is used again; new here are the attempts, which    *)
(* leave the objects alone, and descriptors that belong to no object.      *)
(***************************************************************************)
EXTENDS ReactorInvariant, SocketProofs

-----------------------------------------------------------------------------
(* Attempts.                                                                 *)

LEMMA AttemptsApart ==
    /\ NonBlockingOps \cap (Waiting \cup Closing \cup Changing \cup {"none"}) = {}
    /\ NonBlockingOps \subseteq Operations
    /\ "again" \notin Codes /\ Codes \subseteq Results /\ "again" \in Results
  BY DEF NonBlockingOps, Waiting, Closing, Changing, Receiving, Sending, Operations, Results, Codes, Errors

\* The result an attempt leaves.
LEMMA PerformedEffect ==
    ASSUME Ownership, NEW t \in Threads, NEW op \in NonBlockingOps, NEW o \in Sockets,
           NEW ec \in Results, Performed(t, op, o, ec)
    PROVE  /\ call' \in [Threads -> CallType]
           /\ call'[t].op = op /\ call'[t].at = "returned" /\ call'[t].ec = ec
           /\ call'[t].s = impl[o].socket
           /\ \A u \in Threads \ {t} : call'[u] = call[u]
<1> DEFINE user == "user" \in impl[o].state
           fd == impl[o].socket
           result == [Returned(ec) EXCEPT !.op = op, !.s = fd, !.user = user]
<1>1. call \in [Threads -> CallType] /\ fd \in Fds \cup {NoFd} /\ user \in BOOLEAN
  BY StateTypes DEF Ownership, ImplType
<1>2. call' = [call EXCEPT ![t] = result]
  BY DEF Performed
<1>3. Returned(ec).at = "returned" /\ Returned(ec).ec = ec
  BY DEF Returned
<1>r. result = [Returned(ec) EXCEPT !.op = op, !.s = fd, !.user = user]
  OBVIOUS
<1> HIDE DEF user, fd, result
<1>4. /\ result \in CallType
      /\ result.op = op /\ result.at = "returned" /\ result.ec = ec /\ result.s = fd
  <2>1. Returned(ec) \in CallType /\ op \in Operations
    BY AttemptsApart, ReturnedType
  <2> DEFINE c == Returned(ec)
  <2>2. c \in CallType /\ c.at = "returned" /\ c.ec = ec /\ result = [c EXCEPT !.op = op, !.s = fd, !.user = user]
    BY <1>3, <1>r, <2>1
  <2> HIDE DEF c
  <2> QED
    BY <1>1, <2>1, <2>2 DEF CallType
<1>5. call' \in [Threads -> CallType] /\ call'[t] = result /\ \A u \in Threads \ {t} : call'[u] = call[u]
  BY <1>1, <1>2, <1>4, CallUpdate
<1> QED
  BY <1>4, <1>5 DEF fd

\* Besides the objects: a step that leaves them and their descriptors alone, and changes
\* no call but one that has returned.
Besides ==
    /\ KernelTypeOK' /\ UNCHANGED impl /\ call' \in [Threads -> CallType]
    /\ \A f \in Fds : Owners(f) # {} =>
          /\ nonblock'[f] = nonblock[f] /\ linger'[f] = linger[f]
          /\ link'[f] = "closed" <=> link[f] = "closed"
          /\ link'[f] = "datagram" <=> link[f] = "datagram"
    /\ \A t \in Threads : \/ call'[t] = call[t]
                          \/ /\ Idle(t)
                             /\ call'[t].op \in NonBlockingOps /\ call'[t].at = "returned"

LEMMA BesidesKeeps ==
    ASSUME Ownership, Besides
    PROVE  Ownership'
<1> USE DEF Besides
<1>1. /\ NonBlockingOps \cap (Waiting \cup Closing \cup Changing) = {}
      /\ "returned" \notin ClosingSteps /\ "forget" \in ClosingSteps
  BY AttemptsApart DEF ClosingSteps
<1>2. StateOK'
  BY StateTypes DEF Ownership
<1>3. StepsKnown'
  <2>1. ASSUME NEW t \in Threads PROVE StepKnown(call[t])'
    BY <1>1 DEF Ownership, StepsKnown, StepKnown
  <2> QED
    BY <2>1 DEF StepsKnown
<1>4. \A t \in Threads : call'[t].op \in Changing => call'[t] = call[t]
  BY <1>1
<1>5. Exclusive'
  BY <1>4 DEF Ownership, Exclusive, Concerns
<1>6. InHand'
  <2>1. ASSUME NEW t \in Threads PROVE HasInHand(call[t])'
    BY <1>4, ClosingChanges DEF Ownership, InHand, HasInHand
  <2> QED
    BY <2>1 DEF InHand
<1>7. CloseReady'
  <2>1. ASSUME NEW t \in Threads, call'[t].at \in ClosingSteps \ {"forget"} PROVE ReadyToClose(call[t])'
    <3>1. call'[t].op \in Changing
      BY <2>1, <1>3, ClosingChanges DEF StepsKnown, StepKnown
    <3>2. call'[t] = call[t] /\ call[t].op \in Changing /\ call[t].at # "forget"
      BY <2>1, <3>1, <1>4
    <3>3. call[t].s \in Fds /\ Owners(call[t].s) # {}
      BY <3>2, InHandOwns
    <3> QED
      BY <3>2, <3>3 DEF Ownership, CloseReady, ReadyToClose
  <2>2. ASSUME NEW t \in Threads, call'[t].at \notin ClosingSteps \ {"forget"} PROVE ReadyToClose(call[t])'
    BY <2>2 DEF ReadyToClose, ClosingSteps
  <2> QED
    BY <2>1, <2>2 DEF CloseReady
<1>8. \A o \in Sockets : Forgetting(o)' <=> Forgetting(o)
  BY DEF Forgetting, Idle
<1>9. \A f \in Fds : Owners(f)' = Owners(f)
  BY <1>8 DEF Owners
<1>10. OwnersApart'
  <2>1. ASSUME NEW f \in Fds, NEW o \in Sockets, o \in Owners(f)'
        PROVE  link'[f] # "closed" /\ \A p \in Owners(f)' : p = o
    BY <2>1, <1>9 DEF Ownership, OwnersApart
  <2> QED
    BY <2>1 DEF OwnersApart
<1>11. FlagsTell'
  <2>1. ASSUME NEW f \in Fds, NEW o \in Owners(f)'
        PROVE  /\ linger'[f] /\ "dup" \notin impl'[o].state => "linger" \in impl'[o].state
               /\ "stream" \in impl'[o].state => link'[f] # "datagram"
    BY <2>1, <1>9 DEF Ownership, FlagsTell
  <2> QED
    BY <2>1 DEF FlagsTell
<1>12. ModeIsKnown'
  <2>1. ASSUME NEW f \in Fds, NEW o \in Owners(f)'
        PROVE  /\ NonBlocking \cap impl'[o].state # {} => nonblock'[f]
               /\ nonblock'[f] /\ "dup" \notin impl'[o].state => NonBlocking \cap impl'[o].state # {}
    BY <2>1, <1>9 DEF Ownership, ModeIsKnown
  <2> QED
    BY <2>1 DEF ModeIsKnown
<1> QED
  BY <1>2, <1>3, <1>5, <1>6, <1>7, <1>10, <1>11, <1>12 DEF Ownership

\* An attempt for which the kernel does not change the mode of any descriptor.
LEMMA PerformedKeeps ==
    ASSUME Ownership, NEW t \in Threads, Idle(t), KernelQuiet, UNCHANGED impl,
           NEW op \in NonBlockingOps, NEW o \in Sockets, NEW ec \in Results,
           Performed(t, op, o, ec)
    PROVE  Ownership'
<1>1. Besides
  BY PerformedEffect DEF Besides, KernelQuiet
<1> QED
  BY <1>1, BesidesKeeps

\* The results of an attempt.
LEMMA AttemptedEffect ==
    ASSUME NEW t \in Threads, NEW op, NEW o \in Sockets, NEW r \in Answers, Attempted(t, op, o, r)
    PROVE  \E ec \in Results : Performed(t, op, o, ec) /\ (ec = "again" <=> r.err = "wouldBlock")
<1>1. ErrorCode(r.err) \in Codes
  BY CodeOfAnswer
<1> QED
  BY <1>1, AttemptsApart DEF Attempted

-----------------------------------------------------------------------------
(* Each operation keeps the ownership of descriptors.                        *)

\* The attempts that transfer data.
LEMMA TransferKeeps ==
    ASSUME Ownership, NEW t \in Threads, NEW o \in Sockets,
           \/ NonBlockingRecv(t, o) \/ NonBlockingRecvFrom(t, o) \/ NonBlockingRecvMsg(t, o)
           \/ NonBlockingSend(t, o) \/ NonBlockingSendTo(t, o)
    PROVE  Ownership'
<1>1. PICK f \in Fds, r \in Answers : lkl_recvmsg(f, FALSE, r) \/ lkl_sendmsg(f, r)
  BY DEF NonBlockingRecv, NonBlockingRecvFrom, NonBlockingRecvMsg, NonBlockingSend, NonBlockingSendTo
<1>2. KernelQuiet
  <2>1. KernelTypeOK /\ FALSE \in BOOLEAN
    BY StateTypes DEF Ownership
  <2> QED
    BY <1>1, <2>1, QuietCalls
<1>3. Idle(t) /\ UNCHANGED impl
  BY DEF NonBlockingRecv, NonBlockingRecvFrom, NonBlockingRecvMsg, NonBlockingSend, NonBlockingSendTo
<1>4. \E op \in NonBlockingOps, ec \in Results : Performed(t, op, o, ec)
  <2>1. {"non_blocking_recv", "non_blocking_recvfrom", "non_blocking_recvmsg", "non_blocking_send",
         "non_blocking_sendto"} \subseteq NonBlockingOps /\ "eof" \in Results
    BY DEF NonBlockingOps, Results, Codes
  <2>2. \E op \in NonBlockingOps :
           Performed(t, op, o, "eof") \/ \E answer \in Answers : Attempted(t, op, o, answer)
    BY <2>1 DEF NonBlockingRecv, NonBlockingRecvFrom, NonBlockingRecvMsg, NonBlockingSend, NonBlockingSendTo
  <2> QED
    BY <2>1, <2>2, AttemptedEffect
<1> QED
  BY <1>2, <1>3, <1>4, PerformedKeeps

LEMMA NonBlockingConnectKeeps ==
    ASSUME Ownership, NEW t \in Threads, NEW o \in Sockets, NonBlockingConnect(t, o)
    PROVE  Ownership'
<1> PICK f \in Fds, ready \in Answers, r \in Answers, pending \in {"ok", "refused"} :
          /\ f = impl[o].socket /\ link[f] \in {"connecting", "connected", "refused"}
          /\ lkl_poll_now(f, Sendable(f), ready)
          /\ IF ready.n = 0 THEN Performed(t, "non_blocking_connect", o, "again")
             ELSE /\ lkl_so_error(f, r, pending)
                  /\ Performed(t, "non_blocking_connect", o,
                               IF r.n = 0 THEN pending ELSE ErrorCode(r.err))
  BY DEF NonBlockingConnect
<1>1. KernelTypeOK /\ Idle(t) /\ UNCHANGED impl
  BY StateTypes DEF Ownership, NonBlockingConnect
<1>2. KernelQuiet
  BY <1>1, QuietCalls, UnchangedQuiet DEF lkl_poll_now
<1>3. "non_blocking_connect" \in NonBlockingOps
  BY DEF NonBlockingOps
<1>4. \E ec \in Results : Performed(t, "non_blocking_connect", o, ec)
  <2>1. pending \in Codes /\ ErrorCode(r.err) \in Codes
    BY CodeOfAnswer DEF Codes
  <2> QED
    BY <2>1, AttemptsApart
<1> QED
  BY <1>1, <1>2, <1>3, <1>4, PerformedKeeps

\* The descriptor of a client that was accepted has no owner yet.
LEMMA NonBlockingAcceptKeeps ==
    ASSUME Ownership, NEW t \in Threads, NEW o \in Sockets, NonBlockingAccept(t, o)
    PROVE  Ownership'
<1> PICK f \in Fds, g \in Fds, r \in Answers \cup {Success(h) : h \in Fds} :
          /\ f = impl[o].socket
          /\ lkl_accept(f, g, r)
          /\ Performed(t, "non_blocking_accept", o,
                       IF r.err = "aborted" \/ (r.err = "wouldBlock" /\ "user" \notin impl[o].state)
                       THEN "again" ELSE ErrorCode(r.err))
  BY DEF NonBlockingAccept
<1>1. KernelTypeOK /\ Idle(t) /\ UNCHANGED impl
  BY StateTypes DEF Ownership, NonBlockingAccept
<1>2. "non_blocking_accept" \in NonBlockingOps
  BY DEF NonBlockingOps
<1>3. \E ec \in Results : Performed(t, "non_blocking_accept", o, ec)
  <2>1. ErrorCode(r.err) \in Codes
    <3>1. \A h \in Fds : Success(h).err = "ok" /\ ErrorCode("ok") = "ok" /\ "ok" \in Codes
      BY DEF Success, ErrorCode, Codes
    <3> QED
      BY <3>1, CodeOfAnswer
  <2> QED
    BY <2>1, AttemptsApart
<1>4. CASE UNCHANGED kernelVars
  BY <1>1, <1>2, <1>3, <1>4, UnchangedQuiet, PerformedKeeps
<1>5. CASE link[g] = "closed" /\ Reset(g, "connected", FALSE, linger[f])
  <2>1. linger[f] \in BOOLEAN /\ FALSE \in BOOLEAN /\ "connected" \in Links
    BY <1>1 DEF KernelTypeOK, Links
  <2>2. /\ KernelTypeOK'
        /\ \A h \in Fds \ {g} : link'[h] = link[h] /\ nonblock'[h] = nonblock[h] /\ linger'[h] = linger[h]
    <3> DEFINE lingers == linger[f]
    <3>1. Reset(g, "connected", FALSE, lingers) /\ lingers \in BOOLEAN
      BY <1>5, <2>1
    <3> HIDE DEF lingers
    <3> QED
      BY <1>1, <2>1, <3>1, KernelAssumption DEF Reset, KernelTypeOK
  <2>3. Owners(g) = {}
    BY <1>5 DEF Ownership, OwnersApart, Owners
  <2>4. Besides
    BY <1>1, <1>2, <1>3, <2>2, <2>3, PerformedEffect DEF Besides
  <2> QED
    BY <2>4, BesidesKeeps
<1> QED
  BY <1>4, <1>5 DEF lkl_accept

LEMMA CallerClosesKeeps ==
    ASSUME Ownership, NEW f \in Fds, CallerCloses(f)
    PROVE  Ownership'
<1>1. KernelTypeOK /\ call \in [Threads -> CallType] /\ "closed" \in Links
  BY StateTypes DEF Ownership, Links
<1>2. UNCHANGED <<impl, call>> /\ Reset(f, "closed", FALSE, FALSE) /\ Owners(f) = {}
  BY DEF CallerCloses, Owners
<1>3. /\ KernelTypeOK'
      /\ \A g \in Fds \ {f} : link'[g] = link[g] /\ nonblock'[g] = nonblock[g] /\ linger'[g] = linger[g]
  BY <1>1, <1>2, ResetEffect
<1>4. Besides
  BY <1>1, <1>2, <1>3 DEF Besides
<1> QED
  BY <1>4, BesidesKeeps

\* Receiving and sending datagrams, receiving with flags.
LEMMA TransfersEnd ==
    ASSUME Ownership, NEW t \in Threads, TryRecvFrom(t) \/ TryRecvMsg(t) \/ TrySendTo(t)
    PROVE  Ownership'
<1>1. /\ call[t].op \in Waiting /\ UNCHANGED impl /\ call[t].s \in Fds \cup {NoFd}
      /\ KernelTypeOK
  BY StateTypes DEF TryRecvFrom, TryRecvMsg, TrySendTo, At, Waiting, Receiving, Sending, Ownership, CallType
<1>2. KernelQuiet
  <2>1. FALSE \in BOOLEAN
    OBVIOUS
  <2> QED
    BY <1>1, <2>1, QuietCalls DEF TryRecvFrom, TryRecvMsg, TrySendTo
<1>3. Leave(t, "ok") \/ \E r \in Answers : Refused(t, r)
  BY DEF TryRecvFrom, TryRecvMsg, TrySendTo
<1>4. "ok" \in Codes
  BY DEF Codes
<1> QED
  BY <1>1, <1>2, <1>3, <1>4, RefusedEffect, WaitingKeeps DEF Keeps

LEMMA AwaitReadyKeeps ==
    ASSUME Ownership, NEW t \in Threads, AwaitReady(t)
    PROVE  Ownership'
<1>1. call[t].op \in Waiting /\ UNCHANGED <<kernelVars, impl>> /\ KernelTypeOK
  BY StateTypes
     DEF AwaitReady, Await, lkl_poll, lkl_poll_now, At, Waiting, Receiving, Sending, Ownership
<1>2. {"ok", "wouldBlock"} \subseteq Codes
  BY DEF Codes, Errors
<1>3. \E ec \in Codes : Leave(t, ec)
  BY <1>2, CodeOfAnswer DEF AwaitReady, Await
<1> QED
  BY <1>1, <1>3, UnchangedQuiet, WaitingKeeps DEF Keeps

LEMMA BeginAwaitKeeps ==
    ASSUME Ownership, NEW t \in Threads, NEW o \in Sockets, AwaitSend(t, o) \/ AwaitReceive(t, o)
    PROVE  Ownership'
<1> PICK op \in {"awaitSend", "awaitReceive"} : BeginAwait(t, op, o)
  BY DEF AwaitSend, AwaitReceive
<1>1. CASE impl[o].socket = NoFd
  <2>1. Leave(t, "badDescriptor") /\ "badDescriptor" \in Codes
    BY <1>1 DEF BeginAwait, Codes, Errors
  <2> QED
    BY <2>1, FailsKeeps DEF BeginAwait, Keeps
<1>2. CASE impl[o].socket # NoFd
  <2>1. /\ Enter(t, op, o, o, "await", FALSE) /\ "await" \in Steps
        /\ op \in Waiting /\ op \notin Changing /\ op \notin {"accept", "moveAssign"}
    BY <1>2 DEF BeginAwait, Steps, Waiting, Receiving, Sending, Changing, Closing
  <2>2. Begins(t)
    BY <1>2, <2>1 DEF Begins, BeginAwait
  <2> QED
    BY <2>2, BeginsKeeps DEF Keeps
<1> QED
  BY <1>1, <1>2

LEMMA BeginTransferKeeps ==
    ASSUME Ownership, NEW t \in Threads, NEW o \in Sockets,
           BeginReceiveFrom(t, o) \/ BeginSendTo(t, o) \/ BeginReceiveWithFlags(t, o)
    PROVE  Ownership'
<1>1. \E op \in {"recvfrom", "sendto", "recvmsg"} : Begin(t, op, o, o, FALSE)
  BY DEF BeginReceiveFrom, BeginSendTo, BeginReceiveWithFlags
<1>2. {"recvfrom", "sendto", "recvmsg"} \subseteq Waiting
  BY DEF Waiting, Receiving, Sending
<1> QED
  BY <1>1, <1>2, BeginKeeps DEF Keeps

\* Starting an asynchronous operation other than connect.
LEMMA AsyncKeeps ==
    ASSUME Ownership, NEW t \in Threads, NEW o \in Sockets,
           \/ \E b \in BOOLEAN : AsyncSend(t, o, b) \/ AsyncReceive(t, o, b) \/ AsyncAccept(t, o, b)
           \/ AsyncReceiveWithFlags(t, o) \/ AsyncSendTo(t, o) \/ AsyncReceiveFrom(t, o)
    PROVE  Ownership'
<1>1. StartOp(t, o)
  BY DEF AsyncSend, AsyncReceive, AsyncAccept, AsyncReceiveWithFlags, AsyncSendTo, AsyncReceiveFrom
<1> QED
  BY <1>1, SetInternalKeeps DEF StartOp, Keeps

LEMMA AsyncConnectKeeps ==
    ASSUME Ownership, NEW t \in Threads, NEW o \in Sockets, AsyncConnect(t, o)
    PROVE  Ownership'
<1>t. KernelTypeOK /\ impl \in [Sockets -> ImplType]
  BY StateTypes DEF Ownership
<1> PICK f \in Fds :
          /\ f = impl[o].socket
          /\ \/ NonBlocking \cap impl[o].state # {} /\ UNCHANGED <<nonblock, impl>>
             \/ /\ NonBlocking \cap impl[o].state = {}
                /\ nonblock' = [nonblock EXCEPT ![f] = TRUE]
                /\ impl' = [impl EXCEPT ![o].state = @ \cup {"internal"}]
          /\ \/ link[f] \in {"fresh", "refused"} /\ link' = [link EXCEPT ![f] = "connecting"]
             \/ UNCHANGED link
  BY DEF AsyncConnect
<1>1. UNCHANGED <<linger, inbox, fin, call>> /\ ~Busy(o)
  BY DEF AsyncConnect
<1>2. /\ link' \in [Fds -> Links]
      /\ \A g \in Fds : /\ link'[g] = "closed" <=> link[g] = "closed"
                        /\ link'[g] = "datagram" <=> link[g] = "datagram"
  BY <1>t DEF KernelTypeOK, Links
<1>3. CASE UNCHANGED <<nonblock, impl>>
  <2>1. KernelQuiet
    BY <1>t, <1>1, <1>2, <1>3 DEF KernelQuiet, KernelTypeOK
  <2> QED
    BY <1>1, <1>3, <2>1, QuietKeeps DEF Keeps
<1>4. CASE /\ nonblock' = [nonblock EXCEPT ![f] = TRUE]
           /\ impl' = [impl EXCEPT ![o].state = @ \cup {"internal"}]
  <2> DEFINE flags == impl[o].state \cup {"internal"}
  <2>1. impl' = [impl EXCEPT ![o].state = flags]
    BY <1>4
  <2>2. /\ flags \in SUBSET Flags
        /\ \A flag \in {"stream", "dup", "linger"} : flag \in flags <=> flag \in impl[o].state
        /\ NonBlocking \cap flags # {}
    BY <1>t DEF Flags, NonBlocking, ImplType
  <2>3. KernelTypeOK' /\ nonblock'[f] /\ \A g \in Fds \ {f} : nonblock'[g] = nonblock[g]
    BY <1>t, <1>1, <1>2, <1>4 DEF KernelTypeOK
  <2>4. /\ linger'[f] => "linger" \in flags \/ (linger[f] /\ "linger" \notin impl[o].state)
        /\ NonBlocking \cap flags # {} => nonblock'[f]
        /\ nonblock'[f] => NonBlocking \cap flags # {}
    BY <1>1, <2>2, <2>3
  <2> HIDE DEF flags
  <2>5. \E next \in SUBSET Flags, g \in Fds :
            /\ g = impl[o].socket
            /\ impl' = [impl EXCEPT ![o].state = next]
            /\ \A flag \in {"stream", "dup"} : flag \in next <=> flag \in impl[o].state
            /\ linger'[g] => "linger" \in next \/ (linger[g] /\ "linger" \notin impl[o].state)
            /\ NonBlocking \cap next # {} => nonblock'[g]
            /\ nonblock'[g] => \/ NonBlocking \cap next # {}
                               \/ nonblock[g] /\ NonBlocking \cap impl[o].state = {}
    <3>1. \A flag \in {"stream", "dup"} : flag \in flags <=> flag \in impl[o].state
      BY <2>2
    <3> USE <2>2
    <3> WITNESS flags \in SUBSET Flags
    <3> WITNESS f \in Fds
    <3> QED
      BY <2>1, <2>4, <3>1
  <2>6. Adjusts(o)
    BY <1>1, <1>2, <2>3, <2>5 DEF Adjusts
  <2> QED
    BY <2>6, AdjustsKeeps DEF Keeps
<1> QED
  BY <1>3, <1>4

LEMMA OwnershipKept == Ownership /\ [ReactorNext]_vars => Ownership'
<1>1. ASSUME Ownership, NEW t \in Threads, ReactorStep(t) PROVE Ownership'
  BY <1>1, TransfersEnd, AwaitReadyKeeps DEF ReactorStep
<1>2. ASSUME Ownership, NEW t \in Threads, ReactorCall(t) PROVE Ownership'
  BY <1>2, BeginTransferKeeps, BeginAwaitKeeps, AsyncKeeps, AsyncConnectKeeps, TransferKeeps,
     NonBlockingAcceptKeeps, NonBlockingConnectKeeps DEF ReactorCall
<1>3. ASSUME Ownership, [Next]_vars PROVE Ownership'
  BY <1>3, StepKeeps DEF Keeps
<1> QED
  BY <1>1, <1>2, <1>3, CallerClosesKeeps DEF ReactorNext

-----------------------------------------------------------------------------
(* Datagram sockets: where they come from, and that nothing ends their data. *)

DatagramsKept ==
    \A f \in Fds : link'[f] = "datagram" =>
        \/ link[f] = "datagram" /\ (fin'[f] => fin[f])
        \/ ~fin'[f] /\ ~(Kinds \subseteq {"stream"})

LEMMA KernelKeepsDatagrams ==
    ASSUME KernelTypeOK, NEW f \in Fds \cup {NoFd}, NEW r
    PROVE  /\ UNCHANGED <<link, fin>> => DatagramsKept
           /\ Network => DatagramsKept
           /\ \A state \in Links \ {"datagram"} : \A mode, lingers : Reset(f, state, mode, lingers) => DatagramsKept
           /\ \A empty : lkl_recvmsg(f, empty, r) => DatagramsKept
           /\ lkl_connect(f, r) => DatagramsKept
           /\ \A g \in Fds : lkl_accept(f, g, r) => DatagramsKept
           /\ \A pending : lkl_so_error(f, r, pending) => DatagramsKept
           /\ lkl_close(f, r) => DatagramsKept
<1>1. UNCHANGED <<link, fin>> => DatagramsKept
  BY DEF DatagramsKept
<1>2. Network => DatagramsKept
  <2>1. ASSUME NEW g \in Fds, Established(g) PROVE DatagramsKept
    BY <2>1 DEF Established, DatagramsKept, KernelTypeOK
  <2>2. ASSUME NEW g \in Fds, Arrives(g) PROVE DatagramsKept
    BY <2>2 DEF Arrives, DatagramsKept
  <2>3. ASSUME NEW g \in Fds, PeerCloses(g) PROVE DatagramsKept
    BY <2>3 DEF PeerCloses, DatagramsKept, KernelTypeOK
  <2> QED
    BY <2>1, <2>2, <2>3 DEF Network
<1>3. ASSUME NEW g, NEW state \in Links \ {"datagram"}, NEW mode, NEW lingers, Reset(g, state, mode, lingers)
      PROVE  DatagramsKept
  BY <1>3 DEF Reset, DatagramsKept, KernelTypeOK
<1>4. ASSUME NEW empty, lkl_recvmsg(f, empty, r) PROVE DatagramsKept
  BY <1>1, <1>4 DEF lkl_recvmsg, kernelVars
<1>5. ASSUME lkl_connect(f, r) PROVE DatagramsKept
  BY <1>5 DEF lkl_connect, kernelVars, DatagramsKept, KernelTypeOK
<1>6. ASSUME NEW g \in Fds, lkl_accept(f, g, r) PROVE DatagramsKept
  <2>1. UNCHANGED <<link, fin>> \/ Reset(g, "connected", FALSE, linger[f])
    BY <1>6 DEF lkl_accept, kernelVars
  <2> QED
    BY <1>1, <1>3, <2>1 DEF Links
<1>7. ASSUME NEW pending, lkl_so_error(f, r, pending) PROVE DatagramsKept
  BY <1>7 DEF lkl_so_error, kernelVars, DatagramsKept, KernelTypeOK
<1>8. ASSUME lkl_close(f, r) PROVE DatagramsKept
  <2>1. UNCHANGED <<link, fin>> \/ Reset(f, "closed", FALSE, FALSE)
    BY <1>8 DEF lkl_close, kernelVars
  <2> QED
    BY <1>1, <1>3, <2>1 DEF Links
<1> QED
  BY <1>1, <1>2, <1>3, <1>4, <1>5, <1>6, <1>7, <1>8

LEMMA CallStepFlows ==
    ASSUME Ownership, NEW t \in Threads, CallStep(t)
    PROVE  DatagramsKept
<1>1. KernelTypeOK /\ call[t].s \in Fds \cup {NoFd}
  BY StateTypes DEF Ownership, CallType
<1>2. CASE TryRecv(t) \/ TrySend(t) \/ TryConnect(t)
  BY <1>1, <1>2, KernelKeepsDatagrams DEF TryRecv, TrySend, TryConnect, lkl_sendmsg, kernelVars
<1>3. CASE GetConnectError(t)
  BY <1>1, <1>3, KernelKeepsDatagrams DEF GetConnectError
<1>4. CASE TryAccept(t)
  BY <1>1, <1>4, KernelKeepsDatagrams DEF TryAccept
<1>5. CASE Poll(t) \/ LingerOff(t) \/ Unblock(t) \/ Forget(t)
  BY <1>1, <1>5, KernelKeepsDatagrams
     DEF Poll, LingerOff, Unblock, Forget, lkl_poll, lkl_so_linger, lkl_fionbio, kernelVars
<1>6. CASE CloseDescriptor(t)
  BY <1>1, <1>6, KernelKeepsDatagrams DEF CloseDescriptor
<1> QED
  BY <1>2, <1>3, <1>4, <1>5, <1>6 DEF CallStep

\* A socket that is opened or assigned.
LEMMA GivenFlows ==
    ASSUME KernelTypeOK, NEW f \in Fds, NEW kind \in Kinds, NEW other \in Links \ {"datagram"},
           NEW mode, NEW lingers,
           Reset(f, IF kind = "stream" THEN other ELSE "datagram", mode, lingers)
    PROVE  DatagramsKept
<1>1. CASE kind = "stream"
  BY <1>1, KernelKeepsDatagrams
<1>2. CASE kind # "stream"
  BY <1>2 DEF Reset, DatagramsKept, KernelTypeOK
<1> QED
  BY <1>1, <1>2

LEMMA NewCallFlows ==
    ASSUME Ownership, NEW t \in Threads, NewCall(t)
    PROVE  DatagramsKept
<1>1. KernelTypeOK /\ NoFd \in Fds \cup {NoFd} /\ "fresh" \in Links \ {"datagram"} /\ "connected" \in Links \ {"datagram"}
  BY StateTypes DEF Ownership, Links
<1>2. UNCHANGED <<link, fin>> => DatagramsKept
  BY <1>1, KernelKeepsDatagrams
<1>3. ASSUME NEW o \in Sockets, Open(t, o) \/ Assign(t, o) PROVE DatagramsKept
  BY <1>1, <1>2, <1>3, GivenFlows DEF Open, Assign, kernelVars
<1>4. ASSUME NEW o \in Sockets, Listen(t, o) PROVE DatagramsKept
  BY <1>1, <1>4 DEF Listen, DatagramsKept, KernelTypeOK
<1>5. ASSUME NEW o \in Sockets, Shutdown(t, o) PROVE DatagramsKept
  BY <1>1, <1>5 DEF Shutdown, DatagramsKept, KernelTypeOK
<1>6. ASSUME NEW o \in Sockets,
             \/ StartOp(t, o)
             \/ \E value \in BOOLEAN : \/ SetUserNonBlocking(t, o, value)
                                       \/ SetInternalNonBlocking(t, o, value) \/ SetLinger(t, o, value)
      PROVE  UNCHANGED <<link, fin>>
  BY <1>6 DEF StartOp, SetUserNonBlocking, SetInternalNonBlocking, SetLinger, lkl_fionbio, lkl_so_linger
<1>7. ASSUME NEW o \in Sockets, NEW p \in Sockets, NEW op,
             \/ BeginReceive(t, o) \/ BeginSend(t, o) \/ BeginConnect(t, o) \/ BeginClose(t, op, o, p)
             \/ MoveConstruct(t, o, p) \/ BeginAccept(t, o, p)
      PROVE  UNCHANGED <<link, fin>>
  BY <1>7 DEF BeginReceive, BeginSend, BeginConnect, BeginClose, MoveConstruct, BeginAccept, Begin, kernelVars
<1> QED
  BY <1>2, <1>3, <1>4, <1>5, <1>6, <1>7 DEF NewCall

LEMMA ReactorFlows ==
    ASSUME Ownership, NEW t \in Threads, ReactorStep(t) \/ ReactorCall(t)
    PROVE  DatagramsKept
<1>1. KernelTypeOK /\ call[t].s \in Fds \cup {NoFd} /\ NoFd \in Fds \cup {NoFd}
  BY StateTypes DEF Ownership, CallType
<1>2. UNCHANGED <<link, fin>> => DatagramsKept
  BY <1>1, KernelKeepsDatagrams
<1>3. CASE ReactorStep(t)
  <2>1. CASE TryRecvFrom(t) \/ TryRecvMsg(t) \/ TrySendTo(t)
    BY <1>1, <1>2, <2>1, KernelKeepsDatagrams DEF TryRecvFrom, TryRecvMsg, TrySendTo, lkl_sendmsg, kernelVars
  <2>2. CASE AwaitReady(t)
    BY <1>2, <2>2 DEF AwaitReady, Await, lkl_poll, lkl_poll_now, kernelVars
  <2> QED
    BY <1>3, <2>1, <2>2 DEF ReactorStep
<1>4. ASSUME NEW o \in Sockets,
             \/ BeginReceiveFrom(t, o) \/ BeginSendTo(t, o) \/ BeginReceiveWithFlags(t, o)
             \/ AwaitSend(t, o) \/ AwaitReceive(t, o)
             \/ \E b \in BOOLEAN : AsyncSend(t, o, b) \/ AsyncReceive(t, o, b) \/ AsyncAccept(t, o, b)
             \/ AsyncReceiveWithFlags(t, o) \/ AsyncSendTo(t, o) \/ AsyncReceiveFrom(t, o)
      PROVE  UNCHANGED <<link, fin>>
  BY <1>4 DEF BeginReceiveFrom, BeginSendTo, BeginReceiveWithFlags, AwaitSend, AwaitReceive, Begin, BeginAwait,
              AsyncSend, AsyncReceive, AsyncAccept, AsyncReceiveWithFlags, AsyncSendTo, AsyncReceiveFrom,
              StartOp, SetInternalNonBlocking, lkl_fionbio, kernelVars
<1>5. ASSUME NEW o \in Sockets, AsyncConnect(t, o) PROVE DatagramsKept
  BY <1>1, <1>5 DEF AsyncConnect, DatagramsKept, KernelTypeOK
<1>6. ASSUME NEW o \in Sockets,
             NonBlockingRecv(t, o) \/ NonBlockingRecvFrom(t, o) \/ NonBlockingRecvMsg(t, o)
      PROVE  DatagramsKept
  BY <1>1, <1>6, KernelKeepsDatagrams DEF NonBlockingRecv, NonBlockingRecvFrom, NonBlockingRecvMsg
<1>7. ASSUME NEW o \in Sockets, NonBlockingSend(t, o) \/ NonBlockingSendTo(t, o)
      PROVE  UNCHANGED <<link, fin>>
  BY <1>7 DEF NonBlockingSend, NonBlockingSendTo, lkl_sendmsg, kernelVars
<1>8. ASSUME NEW o \in Sockets, NonBlockingAccept(t, o) PROVE DatagramsKept
  BY <1>1, <1>8, KernelKeepsDatagrams DEF NonBlockingAccept
<1>9. ASSUME NEW o \in Sockets, NonBlockingConnect(t, o) PROVE DatagramsKept
  <2>1. UNCHANGED <<link, fin>> \/ \E f \in Fds : \E r, pending : lkl_so_error(f, r, pending)
    BY <1>9 DEF NonBlockingConnect, lkl_poll_now, kernelVars
  <2> QED
    BY <1>1, <1>2, <2>1, KernelKeepsDatagrams
<1> QED
  BY <1>2, <1>3, <1>4, <1>5, <1>6, <1>7, <1>8, <1>9 DEF ReactorCall

LEMMA DatagramsStay ==
    ASSUME Ownership, [ReactorNext]_vars
    PROVE  /\ DatagramsOpen => DatagramsOpen'
           /\ StreamsAlone => StreamsAlone'
<1>1. KernelTypeOK /\ NoFd \in Fds \cup {NoFd} /\ "closed" \in Links \ {"datagram"}
  BY StateTypes DEF Ownership, Links
<1>2. ASSUME NEW f \in Fds, CallerCloses(f) PROVE DatagramsKept
  BY <1>1, <1>2, KernelKeepsDatagrams DEF CallerCloses
<1>3. ASSUME UNCHANGED vars PROVE DatagramsKept
  BY <1>3 DEF vars, kernelVars, DatagramsKept
<1>n. Network => DatagramsKept
  <2> DEFINE f == NoFd
  <2>1. f \in Fds \cup {NoFd}
    BY <1>1
  <2> QED
    BY <1>1, <2>1, KernelKeepsDatagrams
<1>4. DatagramsKept
  BY <1>2, <1>3, <1>n, CallStepFlows, NewCallFlows, ReactorFlows DEF ReactorNext, Next
<1> QED
  BY <1>4 DEF DatagramsKept, DatagramsOpen, StreamsAlone

-----------------------------------------------------------------------------
(* What a step makes of the call of its thread.                              *)

Attempts(t) ==
    \E o \in Sockets :
        \/ NonBlockingRecv(t, o) \/ NonBlockingRecvFrom(t, o) \/ NonBlockingRecvMsg(t, o)
        \/ NonBlockingSend(t, o) \/ NonBlockingSendTo(t, o)
        \/ NonBlockingAccept(t, o) \/ NonBlockingConnect(t, o)

\* A call ends, and only sync_recv() tells the end of a stream.
EndsCall(t) ==
    /\ call'[t].op = "none" /\ call'[t].at = "returned"
    /\ call'[t].ec = "eof" => TryRecv(t)

\* A call goes on with what it has copied; one that waits changes no object.
KeepsOn(t) ==
    /\ call[t].at # "returned" /\ call'[t].at # "returned"
    /\ call'[t].op = call[t].op /\ call'[t].obj = call[t].obj /\ call'[t].s = call[t].s
    /\ call'[t].stream = call[t].stream
    /\ call'[t].ec = "eof" => call[t].ec = "eof"
    /\ call[t].op \in Waiting => UNCHANGED impl

\* A call begins with a copy of its object.
TakesCopy(t) ==
    /\ call'[t].op \in Waiting \cup Closing /\ call'[t].at # "returned" /\ call'[t].ec = "ok"
    /\ call'[t].obj \in Sockets /\ call'[t].s = impl[call'[t].obj].socket
    /\ call'[t].stream <=> "stream" \in impl[call'[t].obj].state
    /\ call'[t].op \in Waiting => call'[t].s \in Fds
    /\ UNCHANGED impl

Follows(t) ==
    /\ \A u \in Threads \ {t} : call'[u] = call[u]
    /\ \/ call'[t] = call[t] /\ Idle(t)
       \/ EndsCall(t) \/ KeepsOn(t) \/ TakesCopy(t)
       \/ Attempts(t) /\ call'[t].op \in NonBlockingOps /\ call'[t].at = "returned" /\ UNCHANGED impl

LEMMA LeaveFollows ==
    ASSUME Ownership, NEW t \in Threads, NEW ec \in Codes, Leave(t, ec), ec = "eof" => TryRecv(t)
    PROVE  Follows(t)
<1>1. call \in [Threads -> CallType] /\ ec \in Results
  BY StateTypes DEF Ownership, Results
<1>2. call'[t] = Returned(ec) /\ \A u \in Threads \ {t} : call'[u] = call[u]
  BY <1>1, LeaveEffect
<1>3. call'[t].op = "none" /\ call'[t].at = "returned" /\ call'[t].ec = ec
  BY <1>2 DEF Returned
<1> QED
  BY <1>2, <1>3 DEF Follows, EndsCall

LEMMA GoOnFollows ==
    ASSUME Ownership, NEW t \in Threads, NEW step \in Steps \ {"returned"}, GoOn(t, step),
           call[t].at # "returned", call[t].op \in Waiting => UNCHANGED impl
    PROVE  Follows(t)
<1>1. call \in [Threads -> CallType]
  BY StateTypes DEF Ownership
<1>2. call'[t] = [call[t] EXCEPT !.at = step] /\ \A u \in Threads \ {t} : call'[u] = call[u]
  BY <1>1, GoOnEffect
<1>3. /\ call'[t].op = call[t].op /\ call'[t].ec = call[t].ec /\ call'[t].s = call[t].s
      /\ call'[t].stream = call[t].stream /\ call'[t].obj = call[t].obj /\ call'[t].at = step
  BY <1>1, <1>2 DEF CallType
<1> QED
  BY <1>2, <1>3 DEF Follows, KeepsOn

LEMMA EnterFollows ==
    ASSUME Ownership, NEW t \in Threads, UNCHANGED impl,
           NEW op \in Waiting \cup Closing, NEW o \in Sockets, NEW p \in Sockets,
           NEW step \in Steps \ {"returned"}, NEW empty \in BOOLEAN, Enter(t, op, o, p, step, empty),
           op \in Waiting => impl[o].socket # NoFd
    PROVE  Follows(t)
<1>1. call \in [Threads -> CallType] /\ impl \in [Sockets -> ImplType]
  BY StateTypes DEF Ownership
<1>2. /\ call'[t] = [op |-> op, obj |-> o, peer |-> p, s |-> impl[o].socket,
                     user |-> "user" \in impl[o].state, stream |-> "stream" \in impl[o].state,
                     empty |-> empty, at |-> step, ec |-> "ok"]
      /\ \A u \in Threads \ {t} : call'[u] = call[u]
  BY <1>1, EnterEffect DEF Operations
<1>3. /\ call'[t].op = op /\ call'[t].ec = "ok" /\ call'[t].at = step /\ call'[t].obj = o
      /\ call'[t].s = impl[o].socket
  BY <1>2
<1>4. call'[t].stream = ("stream" \in impl[o].state)
  <2> DEFINE c == call'[t]
             user == "user" \in impl[o].state
             stream == "stream" \in impl[o].state
             s == impl[o].socket
  <2>1. c = [op |-> op, obj |-> o, peer |-> p, s |-> s, user |-> user, stream |-> stream,
             empty |-> empty, at |-> step, ec |-> "ok"]
    BY <1>2
  <2> HIDE DEF c, user, stream, s
  <2>2. c.stream = stream
    BY <2>1
  <2> QED
    BY <2>2 DEF c, stream
<1>5. op \in Waiting => impl[o].socket \in Fds
  BY <1>1 DEF ImplType
<1>6. TakesCopy(t)
  BY <1>3, <1>4, <1>5 DEF TakesCopy
<1> QED
  BY <1>2, <1>6 DEF Follows

\* No error is the end of a stream.
LEMMA ErrorsDoNotEnd ==
    /\ \A r \in Answers : ErrorCode(r.err) \in Codes \ {"eof"}
    /\ \A e \in Errors : ErrorCode(e) \in Codes \ {"eof"}
  BY DEF Answers, Success, Failure, Errors, ErrorCode, Codes

\* A call that the kernel refused.
LEMMA RefusedFollows ==
    ASSUME Ownership, NEW t \in Threads, NEW r \in Answers, Refused(t, r), UNCHANGED impl,
           call[t].at # "returned"
    PROVE  Follows(t)
<1>1. "poll" \in Steps \ {"returned"}
  BY DEF Steps
<1> QED
  BY <1>1, ErrorsDoNotEnd, LeaveFollows, GoOnFollows DEF Refused

\* A call that is refused at once.
LEMMA FailsFollows ==
    ASSUME Ownership, NEW t \in Threads, NEW ec \in Codes \ {"eof"}, Leave(t, ec)
    PROVE  Follows(t)
  BY LeaveFollows

LEMMA WaitingFollows ==
    ASSUME Ownership, NEW t \in Threads,
           \/ TryRecv(t) \/ TrySend(t) \/ TryRecvFrom(t) \/ TryRecvMsg(t) \/ TrySendTo(t)
           \/ Poll(t) \/ AwaitReady(t)
    PROVE  Follows(t)
<1>1. {"ok", "wouldBlock"} \subseteq Codes \ {"eof"} /\ "eof" \in Codes /\ {"try", "soError"} \subseteq Steps \ {"returned"}
  BY DEF Codes, Errors, Steps
<1>2. CASE TryRecv(t)
  <2>1. \/ Leave(t, "ok") \/ Leave(t, "eof")
        \/ \E r \in Answers : Refused(t, r)
    BY <1>2 DEF TryRecv, Received
  <2> QED
    BY <1>1, <1>2, <2>1, LeaveFollows, RefusedFollows DEF TryRecv, At
<1>3. CASE TrySend(t) \/ TryRecvFrom(t) \/ TryRecvMsg(t) \/ TrySendTo(t)
  <2>1. /\ Leave(t, "ok") \/ \E r \in Answers : Refused(t, r)
        /\ UNCHANGED impl /\ call[t].at # "returned"
    BY <1>3 DEF TrySend, TryRecvFrom, TryRecvMsg, TrySendTo, At
  <2> QED
    BY <1>1, <2>1, LeaveFollows, RefusedFollows
<1>4. CASE Poll(t)
  <2>1. /\ \/ \E r \in Answers : Leave(t, ErrorCode(r.err))
           \/ GoOn(t, "try") \/ GoOn(t, "soError")
        /\ UNCHANGED impl /\ call[t].at # "returned"
    BY <1>4 DEF Poll
  <2> QED
    BY <1>1, <2>1, ErrorsDoNotEnd, LeaveFollows, GoOnFollows
<1>5. CASE AwaitReady(t)
  <2>1. \E ec \in Codes \ {"eof"} : Leave(t, ec)
    BY <1>1, <1>5, ErrorsDoNotEnd DEF AwaitReady, Await
  <2> QED
    BY <2>1, FailsFollows
<1> QED
  BY <1>2, <1>3, <1>4, <1>5

LEMMA ConnectFollows ==
    ASSUME Ownership, NEW t \in Threads, TryConnect(t) \/ GetConnectError(t) \/ TryAccept(t)
    PROVE  Follows(t)
<1>1. /\ {"ok", "refused", "noBufferSpace"} \subseteq Codes \ {"eof"}
      /\ "poll" \in Steps \ {"returned"} /\ call[t].at # "returned"
  BY DEF Codes, Steps, TryConnect, GetConnectError, TryAccept, At
<1>2. CASE TryConnect(t)
  <2>1. /\ \/ GoOn(t, "poll") \/ Leave(t, "noBufferSpace")
           \/ \E r \in Answers : Leave(t, ErrorCode(r.err))
        /\ UNCHANGED impl
    BY <1>2 DEF TryConnect
  <2> QED
    BY <1>1, <2>1, ErrorsDoNotEnd, LeaveFollows, GoOnFollows
<1>3. CASE GetConnectError(t)
  <2>1. \E ec \in Codes \ {"eof"} : Leave(t, ec)
    <3> PICK r \in Answers, pending \in {"ok", "refused"} :
             Leave(t, IF r.n = 0 THEN pending ELSE ErrorCode(r.err))
      BY <1>3 DEF GetConnectError
    <3> QED
      BY <1>1, ErrorsDoNotEnd
  <2> QED
    BY <2>1, FailsFollows
<1>4. CASE TryAccept(t)
  <2>1. \/ Leave(t, "ok")
        \/ UNCHANGED impl /\ (GoOn(t, "poll") \/ \E e \in Errors : Leave(t, ErrorCode(e)))
    BY <1>4 DEF TryAccept
  <2> QED
    BY <1>1, <2>1, ErrorsDoNotEnd, LeaveFollows, GoOnFollows
<1> QED
  BY <1>2, <1>3, <1>4

LEMMA ClosingFollows ==
    ASSUME Ownership, CallsKnown, NEW t \in Threads,
           LingerOff(t) \/ CloseDescriptor(t) \/ Unblock(t) \/ Forget(t)
    PROVE  Follows(t)
<1>1. call[t].op \notin Waiting /\ call[t].at # "returned" /\ call[t].ec # "eof"
  BY DEF LingerOff, CloseDescriptor, Unblock, Forget, Ownership, StepsKnown, StepKnown, ClosingSteps,
         Closing, Waiting, Receiving, Sending, CallsKnown
<1>2. call \in [Threads -> CallType] /\ {"close", "reclose", "unblock", "forget"} \subseteq Steps \ {"returned"}
  BY StateTypes DEF Ownership, Steps
<1>3. CASE LingerOff(t) \/ Unblock(t)
  BY <1>1, <1>2, <1>3, GoOnFollows DEF LingerOff, Unblock
<1>4. CASE CloseDescriptor(t)
  <2> PICK r \in Answers :
        call' = [call EXCEPT
                   ![t].at = IF @ = "close" /\ r.err = "wouldBlock" THEN "unblock" ELSE "forget",
                   ![t].ec = ErrorCode(r.err)]
    BY <1>4 DEF CloseDescriptor
  <2> DEFINE step == IF call[t].at = "close" /\ r.err = "wouldBlock" THEN "unblock" ELSE "forget"
             code == ErrorCode(r.err)
  <2>1. step # "returned" /\ code # "eof"
    BY ErrorsDoNotEnd
  <2>2. call' = [call EXCEPT ![t].at = step, ![t].ec = code]
    OBVIOUS
  <2> HIDE DEF step, code
  <2>3. /\ call'[t].op = call[t].op /\ call'[t].obj = call[t].obj /\ call'[t].s = call[t].s
        /\ call'[t].stream = call[t].stream /\ call'[t].at = step /\ call'[t].ec = code
        /\ \A u \in Threads \ {t} : call'[u] = call[u]
    BY <1>2, <2>2 DEF CallType
  <2> QED
    BY <1>1, <2>1, <2>3 DEF Follows, KeepsOn
<1>5. CASE Forget(t)
  <2>1. call[t].ec \in Results /\ call[t].ec # "eof"
    BY <1>1, <1>2 DEF CallType
  <2>2. \E ec \in Results : Leave(t, ec) /\ ec # "eof"
    BY <1>5, <2>1 DEF Forget, Results, Codes
  <2> PICK ec \in Results : Leave(t, ec) /\ ec # "eof"
    BY <2>2
  <2>3. call'[t] = Returned(ec) /\ \A u \in Threads \ {t} : call'[u] = call[u]
    BY <1>2, LeaveEffect
  <2>4. call'[t].op = "none" /\ call'[t].at = "returned" /\ call'[t].ec = ec
    BY <2>3 DEF Returned
  <2> QED
    BY <2>3, <2>4 DEF Follows, EndsCall
<1> QED
  BY <1>3, <1>4, <1>5

LEMMA QuietFollows ==
    ASSUME NEW t \in Threads, UNCHANGED call, Idle(t)
    PROVE  Follows(t)
  BY DEF Follows

LEMMA BeginFollows ==
    ASSUME Ownership, NEW t \in Threads, NEW op \in Waiting, NEW o \in Sockets, NEW p \in Sockets,
           NEW empty \in BOOLEAN, Begin(t, op, o, p, empty)
    PROVE  Follows(t)
<1>1. "badDescriptor" \in Codes \ {"eof"} /\ "try" \in Steps \ {"returned"}
  BY DEF Codes, Errors, Steps
<1> QED
  BY <1>1, FailsFollows, EnterFollows DEF Begin

LEMMA BeginCloseFollows ==
    ASSUME Ownership, NEW t \in Threads, NEW op \in Closing, NEW o \in Sockets, NEW p \in Sockets,
           BeginClose(t, op, o, p)
    PROVE  Follows(t)
<1> DEFINE step == IF impl[o].socket = NoFd THEN "forget"
                   ELSE IF op # "close" /\ "linger" \in impl[o].state THEN "linger"
                   ELSE "close"
<1>1. /\ Enter(t, op, o, p, step, FALSE) /\ step \in Steps \ {"returned"} /\ UNCHANGED impl
      /\ op \notin Waiting
  BY DEF BeginClose, Steps, Closing, Waiting, Receiving, Sending
<1> HIDE DEF step
<1> QED
  BY <1>1, EnterFollows

LEMMA NewCallFollows ==
    ASSUME Ownership, NEW t \in Threads, NewCall(t)
    PROVE  Follows(t)
<1>1. /\ {"recv", "send", "connect", "accept"} \subseteq Waiting
      /\ {"close", "destroy", "moveAssign"} \subseteq Closing
      /\ {"ok", "alreadyOpen"} \subseteq Codes \ {"eof"}
  BY DEF Waiting, Receiving, Sending, Closing, Codes
<1>2. ASSUME NEW o \in Sockets,
             \/ Assign(t, o) \/ Listen(t, o) \/ Shutdown(t, o) \/ StartOp(t, o)
             \/ \E value \in BOOLEAN : \/ SetUserNonBlocking(t, o, value)
                                       \/ SetInternalNonBlocking(t, o, value) \/ SetLinger(t, o, value)
             \/ \E p \in Sockets : MoveConstruct(t, o, p)
      PROVE  UNCHANGED call /\ Idle(t)
  BY <1>2 DEF Assign, Listen, Shutdown, StartOp, SetUserNonBlocking, SetInternalNonBlocking, SetLinger,
              MoveConstruct
<1>3. ASSUME NEW o \in Sockets, Open(t, o) PROVE Follows(t)
  <2>1. \E ec \in Codes \ {"eof"} : Leave(t, ec)
    BY <1>1, <1>3, ErrorsDoNotEnd DEF Open
  <2> QED
    BY <2>1, FailsFollows
<1>4. ASSUME NEW o \in Sockets, BeginReceive(t, o) \/ BeginSend(t, o) \/ BeginConnect(t, o)
      PROVE  Follows(t)
  BY <1>1, <1>4, BeginFollows DEF BeginReceive, BeginSend, BeginConnect
<1>5. ASSUME NEW o \in Sockets, NEW p \in Sockets, BeginAccept(t, o, p) PROVE Follows(t)
  BY <1>1, <1>5, FailsFollows, BeginFollows DEF BeginAccept
<1>6. ASSUME NEW o \in Sockets, NEW p \in Sockets, NEW op \in {"close", "destroy", "moveAssign"},
             BeginClose(t, op, o, p)
      PROVE  Follows(t)
  BY <1>1, <1>6, BeginCloseFollows
<1> QED
  BY <1>2, <1>3, <1>4, <1>5, <1>6, QuietFollows DEF NewCall

\* Every attempt is a result.
LEMMA AttemptFollows ==
    ASSUME Ownership, NEW t \in Threads, Attempts(t)
    PROVE  Follows(t)
<1> PICK o \in Sockets :
        \/ NonBlockingRecv(t, o) \/ NonBlockingRecvFrom(t, o) \/ NonBlockingRecvMsg(t, o)
        \/ NonBlockingSend(t, o) \/ NonBlockingSendTo(t, o)
        \/ NonBlockingAccept(t, o) \/ NonBlockingConnect(t, o)
  BY DEF Attempts
<1>1. UNCHANGED impl
  BY DEF NonBlockingRecv, NonBlockingRecvFrom, NonBlockingRecvMsg, NonBlockingSend, NonBlockingSendTo,
         NonBlockingAccept, NonBlockingConnect
<1>2. \E op \in NonBlockingOps, ec \in Results : Performed(t, op, o, ec)
  <2>1. NonBlockingOps = {"non_blocking_recv", "non_blocking_recvfrom", "non_blocking_recvmsg",
                          "non_blocking_send", "non_blocking_sendto", "non_blocking_accept",
                          "non_blocking_connect"}
    BY DEF NonBlockingOps
  <2>2. {"eof", "again", "ok", "refused"} \subseteq Results
    BY DEF Results, Codes
  <2>3. CASE \/ NonBlockingRecv(t, o) \/ NonBlockingRecvFrom(t, o) \/ NonBlockingRecvMsg(t, o)
             \/ NonBlockingSend(t, o) \/ NonBlockingSendTo(t, o)
    <3>1. \E op \in NonBlockingOps :
             Performed(t, op, o, "eof") \/ \E answer \in Answers : Attempted(t, op, o, answer)
      BY <2>1, <2>3 DEF NonBlockingRecv, NonBlockingRecvFrom, NonBlockingRecvMsg, NonBlockingSend,
                        NonBlockingSendTo
    <3> QED
      BY <2>2, <3>1, AttemptedEffect
  <2>4. CASE NonBlockingAccept(t, o)
    <3>1. \A h \in Fds : Success(h).err = "ok" /\ ErrorCode("ok") = "ok"
      BY DEF Success, ErrorCode
    <3>2. \A r \in Answers \cup {Success(h) : h \in Fds} : ErrorCode(r.err) \in Results
      BY <2>2, <3>1, CodeOfAnswer, AttemptsApart
    <3> QED
      BY <2>1, <2>2, <2>4, <3>2 DEF NonBlockingAccept
  <2>5. CASE NonBlockingConnect(t, o)
    <3> PICK ready \in Answers, r \in Answers, pending \in {"ok", "refused"} :
           \/ Performed(t, "non_blocking_connect", o, "again")
           \/ Performed(t, "non_blocking_connect", o, IF r.n = 0 THEN pending ELSE ErrorCode(r.err))
      BY <2>5 DEF NonBlockingConnect
    <3>1. ErrorCode(r.err) \in Results
      BY CodeOfAnswer, AttemptsApart
    <3> QED
      BY <2>1, <2>2, <3>1
  <2> QED
    BY <2>3, <2>4, <2>5
<1> PICK op \in NonBlockingOps, ec \in Results : Performed(t, op, o, ec)
  BY <1>2
<1>3. /\ call'[t].op \in NonBlockingOps /\ call'[t].at = "returned"
      /\ \A u \in Threads \ {t} : call'[u] = call[u]
  BY PerformedEffect
<1> QED
  BY <1>1, <1>3 DEF Follows

LEMMA ReactorCallFollows ==
    ASSUME Ownership, NEW t \in Threads, ReactorCall(t)
    PROVE  Follows(t)
<1>1. /\ {"recvfrom", "sendto", "recvmsg", "awaitSend", "awaitReceive"} \subseteq Waiting
      /\ "badDescriptor" \in Codes \ {"eof"} /\ "await" \in Steps \ {"returned"}
  BY DEF Waiting, Receiving, Sending, Codes, Errors, Steps
<1>2. ASSUME NEW o \in Sockets, BeginReceiveFrom(t, o) \/ BeginSendTo(t, o) \/ BeginReceiveWithFlags(t, o)
      PROVE  Follows(t)
  BY <1>1, <1>2, BeginFollows DEF BeginReceiveFrom, BeginSendTo, BeginReceiveWithFlags
<1>3. ASSUME NEW o \in Sockets, AwaitSend(t, o) \/ AwaitReceive(t, o) PROVE Follows(t)
  <2>1. PICK op \in {"awaitSend", "awaitReceive"} : BeginAwait(t, op, o)
    BY <1>3 DEF AwaitSend, AwaitReceive
  <2> QED
    BY <1>1, <2>1, FailsFollows, EnterFollows DEF BeginAwait
<1>4. ASSUME NEW o \in Sockets,
             \/ \E b \in BOOLEAN : AsyncSend(t, o, b) \/ AsyncReceive(t, o, b) \/ AsyncAccept(t, o, b)
             \/ AsyncReceiveWithFlags(t, o) \/ AsyncSendTo(t, o) \/ AsyncReceiveFrom(t, o)
             \/ AsyncConnect(t, o)
      PROVE  UNCHANGED call /\ Idle(t)
  BY <1>4 DEF AsyncSend, AsyncReceive, AsyncAccept, AsyncReceiveWithFlags, AsyncSendTo, AsyncReceiveFrom,
              AsyncConnect, StartOp, SetInternalNonBlocking
<1> QED
  BY <1>2, <1>3, <1>4, QuietFollows, AttemptFollows DEF ReactorCall, Attempts

LEMMA StepFollows ==
    ASSUME Ownership, CallsKnown, [ReactorNext]_vars
    PROVE  UNCHANGED <<impl, call>> \/ \E t \in Threads : Follows(t)
<1>1. ASSUME NEW t \in Threads, CallStep(t) PROVE Follows(t)
  BY <1>1, WaitingFollows, ConnectFollows, ClosingFollows DEF CallStep
<1>2. ASSUME NEW t \in Threads, ReactorStep(t) PROVE Follows(t)
  BY <1>2, WaitingFollows DEF ReactorStep
<1> QED
  BY <1>1, <1>2, NewCallFollows, ReactorCallFollows DEF ReactorNext, Next, CallerCloses, vars

-----------------------------------------------------------------------------
(* The invariant.                                                            *)

LEMMA CallsStayKnown ==
    ASSUME Ownership, CallsKnown, [ReactorNext]_vars
    PROVE  CallsKnown'
<1>1. NonBlockingOps \cap Waiting = {} /\ "none" \notin Waiting
  BY AttemptsApart DEF Waiting, Receiving, Sending
<1>2. ASSUME NEW u \in Threads
      PROVE  /\ call'[u].at # "returned" => call'[u].ec # "eof"
             /\ call'[u].op \in Waiting => call'[u].s \in Fds
  <2>1. CASE call'[u] = call[u]
    BY <2>1 DEF CallsKnown
  <2>2. CASE EndsCall(u)
    BY <1>1, <2>2 DEF EndsCall
  <2>3. CASE KeepsOn(u)
    BY <2>3 DEF KeepsOn, CallsKnown
  <2>4. CASE TakesCopy(u)
    BY <2>4 DEF TakesCopy
  <2>5. CASE call'[u].op \in NonBlockingOps /\ call'[u].at = "returned"
    BY <1>1, <2>5
  <2> QED
    BY <2>1, <2>2, <2>3, <2>4, <2>5, StepFollows DEF Follows
<1> QED
  BY <1>2 DEF CallsKnown

LEMMA CopiesStay ==
    ASSUME Ownership, CallsKnown, AloneCopies, [ReactorNext]_vars
    PROVE  AloneCopies'
<1> SUFFICES ASSUME \A t, u \in Threads : t = u, NEW t \in Threads, call'[t].op \in Waiting
             PROVE  CopyHolds(call[t])'
  BY DEF AloneCopies, CopyHolds
<1>1. CopyHolds(call[t])
  BY DEF AloneCopies
<1>2. call[t].op \in Waiting => ~Idle(t)
  BY IdleThread
<1>3. CASE UNCHANGED <<impl, call>>
  BY <1>1, <1>3 DEF CopyHolds
<1>4. CASE Follows(t)
  <2>1. NonBlockingOps \cap Waiting = {} /\ "none" \notin Waiting
    BY AttemptsApart DEF Waiting, Receiving, Sending
  <2>2. KeepsOn(t) \/ TakesCopy(t)
    BY <1>2, <1>4, <2>1 DEF Follows, EndsCall
  <2>3. CASE KeepsOn(t)
    BY <1>1, <2>3 DEF KeepsOn, CopyHolds
  <2>4. CASE TakesCopy(t)
    BY <2>4 DEF TakesCopy, CopyHolds
  <2> QED
    BY <2>2, <2>3, <2>4
<1> QED
  BY <1>3, <1>4, StepFollows

\* Who owns a descriptor, and what the flags of an object tell, is as known whatever
\* part of the service is used.
THEOREM ReactorInvariantHolds == ReactorSpec => []ReactorInv
<1>1. Init => ReactorInv
  <2>1. Init => Ownership
    BY SocketInvInit DEF SocketInv
  <2>2. ASSUME Init PROVE DatagramsOpen /\ StreamsAlone
    BY <2>2 DEF Init, KernelInit, DatagramsOpen, StreamsAlone
  <2>3. ASSUME Init, NEW t \in Threads PROVE call[t].op = "none" /\ call[t].at = "returned"
    BY <2>3 DEF Init, Returned
  <2>4. "none" \notin Waiting
    BY DEF Waiting, Receiving, Sending
  <2> QED
    BY <2>1, <2>2, <2>3, <2>4 DEF ReactorInv, CallsKnown, AloneCopies, CopyHolds
<1>2. ReactorInv /\ [ReactorNext]_vars => ReactorInv'
  BY OwnershipKept, DatagramsStay, CallsStayKnown, CopiesStay DEF ReactorInv
<1> QED
  BY <1>1, <1>2, PTL DEF ReactorSpec

-----------------------------------------------------------------------------
(* What an attempt tells.                                                    *)

LEMMA AttemptNames ==
    ASSUME Ownership, NEW t \in Threads, NEW o \in Sockets
    PROVE  /\ NonBlockingRecv(t, o) => call'[t].op = "non_blocking_recv"
           /\ NonBlockingRecvFrom(t, o) => call'[t].op = "non_blocking_recvfrom"
           /\ NonBlockingRecvMsg(t, o) => call'[t].op = "non_blocking_recvmsg"
           /\ NonBlockingSend(t, o) => call'[t].op = "non_blocking_send"
           /\ NonBlockingSendTo(t, o) => call'[t].op = "non_blocking_sendto"
           /\ NonBlockingAccept(t, o) => call'[t].op = "non_blocking_accept"
           /\ NonBlockingConnect(t, o) => call'[t].op = "non_blocking_connect"
<1>1. /\ {"non_blocking_recv", "non_blocking_recvfrom", "non_blocking_recvmsg", "non_blocking_send",
          "non_blocking_sendto", "non_blocking_accept", "non_blocking_connect"} \subseteq NonBlockingOps
      /\ {"eof", "again", "ok", "refused"} \subseteq Results
  BY DEF NonBlockingOps, Results, Codes
<1>2. ASSUME NEW op \in NonBlockingOps, NEW r \in Answers, Attempted(t, op, o, r)
      PROVE  call'[t].op = op
  BY <1>2, AttemptedEffect, PerformedEffect
<1>3. ASSUME NonBlockingRecv(t, o) PROVE call'[t].op = "non_blocking_recv"
  BY <1>1, <1>2, <1>3, PerformedEffect DEF NonBlockingRecv
<1>4. /\ NonBlockingRecvFrom(t, o) => call'[t].op = "non_blocking_recvfrom"
      /\ NonBlockingRecvMsg(t, o) => call'[t].op = "non_blocking_recvmsg"
  BY <1>1, <1>2 DEF NonBlockingRecvFrom, NonBlockingRecvMsg
<1>5. /\ NonBlockingSend(t, o) => call'[t].op = "non_blocking_send"
      /\ NonBlockingSendTo(t, o) => call'[t].op = "non_blocking_sendto"
  BY <1>1, <1>2 DEF NonBlockingSend, NonBlockingSendTo
<1>6. ASSUME NonBlockingAccept(t, o) PROVE call'[t].op = "non_blocking_accept"
  <2>1. PICK r \in Answers \cup {Success(h) : h \in Fds} :
           Performed(t, "non_blocking_accept", o,
                     IF r.err = "aborted" \/ (r.err = "wouldBlock" /\ "user" \notin impl[o].state)
                     THEN "again" ELSE ErrorCode(r.err))
    BY <1>6 DEF NonBlockingAccept
  <2>2. ErrorCode(r.err) \in Results
    <3>1. \A h \in Fds : Success(h).err = "ok" /\ ErrorCode("ok") = "ok"
      BY DEF Success, ErrorCode
    <3> QED
      BY <1>1, <3>1, CodeOfAnswer, AttemptsApart
  <2> QED
    BY <1>1, <2>1, <2>2, PerformedEffect
<1>7. ASSUME NonBlockingConnect(t, o) PROVE call'[t].op = "non_blocking_connect"
  <2>1. PICK r \in Answers, pending \in {"ok", "refused"} :
           \/ Performed(t, "non_blocking_connect", o, "again")
           \/ Performed(t, "non_blocking_connect", o, IF r.n = 0 THEN pending ELSE ErrorCode(r.err))
    BY <1>7 DEF NonBlockingConnect
  <2>2. ErrorCode(r.err) \in Results
    BY CodeOfAnswer, AttemptsApart
  <2> QED
    BY <1>1, <2>1, <2>2, PerformedEffect
<1> QED
  BY <1>3, <1>4, <1>5, <1>6, <1>7

\* Only an attempt leaves the name of one.
LEMMA AttemptMade ==
    ASSUME Ownership, CallsKnown, [ReactorNext]_vars, NEW t \in Threads,
           call'[t] # call[t], call'[t].op \in NonBlockingOps
    PROVE  Attempts(t)
<1>1. Follows(t)
  BY StepFollows DEF Follows
<1>2. NonBlockingOps \cap (Waiting \cup Closing) = {} /\ "none" \notin NonBlockingOps
  BY AttemptsApart
<1>3. ~KeepsOn(t)
  BY <1>2 DEF KeepsOn, Ownership, StepsKnown, StepKnown
<1> QED
  BY <1>1, <1>2, <1>3 DEF Follows, EndsCall, TakesCopy

LEMMA ReceiveAgain ==
    ASSUME Ownership, DatagramsOpen, NEW t \in Threads, NEW o \in Sockets,
           NonBlockingRecv(t, o) \/ NonBlockingRecvFrom(t, o) \/ NonBlockingRecvMsg(t, o),
           call'[t].ec = "again"
    PROVE  LET f == call'[t].s IN nonblock[f] /\ ~Readable(f) /\ inbox'[f] = inbox[f]
<1> PICK f \in Fds, r \in Answers, op \in NonBlockingOps :
        /\ f = impl[o].socket /\ lkl_recvmsg(f, FALSE, r)
        /\ Performed(t, op, o, "eof") \/ Attempted(t, op, o, r)
  <2>1. {"non_blocking_recv", "non_blocking_recvfrom", "non_blocking_recvmsg"} \subseteq NonBlockingOps
    BY DEF NonBlockingOps
  <2> QED
    BY <2>1 DEF NonBlockingRecv, NonBlockingRecvFrom, NonBlockingRecvMsg
<1>1. PICK ec \in Results : Performed(t, op, o, ec) /\ (ec = "again" => r.err = "wouldBlock")
  <2>1. "eof" \in Results
    BY DEF Results, Codes
  <2> QED
    BY <2>1, AttemptedEffect
<1>2. call'[t].s = f /\ r.err = "wouldBlock"
  BY <1>1, PerformedEffect
<1>3. r # Failure("other") /\ r # Failure("unmapped") /\ r # Failure("badDescriptor") /\ r # Success(0) /\ r # Success(1)
  BY <1>2 DEF Failure, Success
<1>4. /\ link[f] \in {"connected", "datagram"} /\ inbox[f] = 0 /\ nonblock[f] /\ UNCHANGED kernelVars
      /\ link[f] = "connected" => ~fin[f]
  BY <1>3 DEF lkl_recvmsg, Trouble
<1>5. ~fin[f]
  BY <1>4 DEF DatagramsOpen
<1> QED
  BY <1>2, <1>4, <1>5 DEF Readable, kernelVars

\* A pending receive goes back to wait only when there was nothing to receive.
THEOREM WaitsOnlyForData == ReactorSpec => AgainMeansWaiting
<1> DEFINE Again == \A t \in Threads, op \in {"non_blocking_recv", "non_blocking_recvfrom",
                                              "non_blocking_recvmsg"} :
                       Attempt(t, op, "again") =>
                           LET f == call'[t].s
                           IN  nonblock[f] /\ ~Readable(f) /\ inbox'[f] = inbox[f]
<1>1. ReactorInv /\ [ReactorNext]_vars => [Again]_vars
  <2> SUFFICES ASSUME ReactorInv, [ReactorNext]_vars, NEW t \in Threads,
                      NEW op \in {"non_blocking_recv", "non_blocking_recvfrom", "non_blocking_recvmsg"},
                      Attempt(t, op, "again")
               PROVE  LET f == call'[t].s IN nonblock[f] /\ ~Readable(f) /\ inbox'[f] = inbox[f]
    OBVIOUS
  <2>1. op \in NonBlockingOps
    BY DEF NonBlockingOps
  <2>2. Attempts(t)
    BY <2>1, AttemptMade DEF ReactorInv, Attempt
  <2>3. \E o \in Sockets : NonBlockingRecv(t, o) \/ NonBlockingRecvFrom(t, o) \/ NonBlockingRecvMsg(t, o)
    BY <2>2, AttemptNames DEF Attempts, Attempt, ReactorInv
  <2> QED
    BY <2>3, ReceiveAgain DEF ReactorInv, Attempt
<1>2. ReactorSpec => [][Again]_vars
  BY <1>1, ReactorInvariantHolds, PTL DEF ReactorSpec
<1> QED
  BY <1>2 DEF AgainMeansWaiting

LEMMA ConnectAttempt ==
    ASSUME Ownership, NEW t \in Threads, NEW o \in Sockets, NonBlockingConnect(t, o)
    PROVE  /\ call'[t].ec = "ok" => link[call'[t].s] = "connected"
           /\ call'[t].ec = "again" => link[call'[t].s] = "connecting"
<1> PICK f \in Fds, ready \in Answers, r \in Answers, pending \in {"ok", "refused"} :
          /\ f = impl[o].socket /\ link[f] \in {"connecting", "connected", "refused"}
          /\ lkl_poll_now(f, Sendable(f), ready)
          /\ IF ready.n = 0 THEN Performed(t, "non_blocking_connect", o, "again")
             ELSE /\ lkl_so_error(f, r, pending)
                  /\ Performed(t, "non_blocking_connect", o,
                               IF r.n = 0 THEN pending ELSE ErrorCode(r.err))
  BY DEF NonBlockingConnect
<1>1. "non_blocking_connect" \in NonBlockingOps /\ {"again", "ok", "refused"} \subseteq Results
  BY DEF NonBlockingOps, Results, Codes
<1>2. ready.n = 0 <=> link[f] = "connecting"
  BY DEF lkl_poll_now, Sendable, Success
<1>3. CASE ready.n = 0
  <2>1. call'[t].ec = "again" /\ call'[t].s = f
    BY <1>1, <1>3, PerformedEffect
  <2> QED
    BY <1>2, <1>3, <2>1
<1>4. CASE ready.n # 0
  <2> DEFINE code == IF r.n = 0 THEN pending ELSE ErrorCode(r.err)
  <2>1. code \in Codes
    BY CodeOfAnswer DEF Codes
  <2>2. call'[t].ec = code /\ call'[t].s = f
    BY <1>1, <1>4, <2>1, AttemptsApart, PerformedEffect
  <2>3. code # "again"
    BY <2>1, AttemptsApart
  <2>4. link[f] = "refused" => code # "ok"
    BY <1>4 DEF lkl_so_error, Trouble, Success, Failure, ErrorCode
  <2> QED
    BY <1>2, <1>4, <2>2, <2>3, <2>4
<1> QED
  BY <1>3, <1>4

\* A pending connect is told that the connection stands only when it does.
THEOREM PendingConnectTruth == ReactorSpec => NonBlockingConnectTruth
<1> DEFINE Truth == \A t \in Threads :
                       /\ Attempt(t, "non_blocking_connect", "ok") => link[call'[t].s] = "connected"
                       /\ Attempt(t, "non_blocking_connect", "again") => link[call'[t].s] = "connecting"
<1>1. ReactorInv /\ [ReactorNext]_vars => [Truth]_vars
  <2> SUFFICES ASSUME ReactorInv, [ReactorNext]_vars, NEW t \in Threads,
                      call'[t] # call[t], call'[t].op = "non_blocking_connect"
               PROVE  /\ call'[t].ec = "ok" => link[call'[t].s] = "connected"
                      /\ call'[t].ec = "again" => link[call'[t].s] = "connecting"
    BY DEF Attempt
  <2>1. Attempts(t)
    BY AttemptMade DEF ReactorInv, NonBlockingOps
  <2>2. \E o \in Sockets : NonBlockingConnect(t, o)
    BY <2>1, AttemptNames DEF Attempts, ReactorInv
  <2> QED
    BY <2>2, ConnectAttempt DEF ReactorInv
<1>2. ReactorSpec => [][Truth]_vars
  BY <1>1, ReactorInvariantHolds, PTL DEF ReactorSpec
<1> QED
  BY <1>2 DEF NonBlockingConnectTruth

-----------------------------------------------------------------------------
(* The end of a stream.                                                      *)

\* Zero bytes that are not an empty datagram.
LEMMA ZeroBytesEnd ==
    ASSUME NEW f \in Fds, NEW empty, ~empty, NEW r, r.n = 0, link[f] # "datagram", lkl_recvmsg(f, empty, r)
    PROVE  link[f] = "connected" /\ fin[f] /\ inbox[f] = 0
  BY DEF lkl_recvmsg, Trouble, Success, Failure

\* An object that says it is a stream has no datagram socket.
LEMMA StreamOfObject ==
    ASSUME ReactorInv, NEW o \in Sockets, NEW f \in Fds, f = impl[o].socket, "stream" \in impl[o].state,
           Kinds \subseteq {"stream"} \/ ~Forgetting(o)
    PROVE  link[f] # "datagram"
<1>1. CASE Kinds \subseteq {"stream"}
  BY <1>1 DEF ReactorInv, StreamsAlone
<1>2. CASE ~Forgetting(o)
  <2>1. o \in Owners(f)
    BY <1>2 DEF Owners
  <2> QED
    BY <2>1 DEF ReactorInv, Ownership, FlagsTell
<1> QED
  BY <1>1, <1>2

\* What sync_recv() tells.
LEMMA ReceiveEnd ==
    ASSUME ReactorInv, Kinds \subseteq {"stream"} \/ \A t, u \in Threads : t = u,
           NEW t \in Threads, TryRecv(t), call'[t].op = "none", call'[t].ec = "eof"
    PROVE  link[call[t].s] = "connected" /\ fin[call[t].s] /\ inbox[call[t].s] = 0
<1>1. call \in [Threads -> CallType] /\ call[t].op = "recv" /\ call[t].at = "try" /\ call[t].op \in Waiting
  BY StateTypes DEF ReactorInv, Ownership, TryRecv, At, Waiting, Receiving
<1>2. call[t].s \in Fds
  BY <1>1 DEF ReactorInv, CallsKnown
<1>3. ASSUME NEW ec \in Codes \ {"eof"} PROVE ~Leave(t, ec)
  <2>1. Leave(t, ec) => call'[t] = Returned(ec)
    BY <1>1, LeaveEffect DEF Results
  <2> QED
    BY <2>1 DEF Returned
<1>4. ~GoOn(t, "poll")
  <2>1. GoOn(t, "poll") => call'[t] = [call[t] EXCEPT !.at = "poll"]
    BY <1>1, GoOnEffect DEF Steps
  <2>2. [call[t] EXCEPT !.at = "poll"].op = call[t].op
    BY <1>1 DEF CallType
  <2> QED
    BY <1>1, <2>1, <2>2
<1>5. ~Leave(t, "ok") /\ \A r \in Answers : ~Refused(t, r)
  <2>1. "ok" \in Codes \ {"eof"}
    BY DEF Codes
  <2> QED
    BY <1>3, <1>4, <2>1, ErrorsDoNotEnd DEF Refused
<1>6. PICK r \in Answers : ~NoOp(t) /\ lkl_recvmsg(call[t].s, call[t].empty, r) /\ r.n = 0 /\ call[t].stream
  BY <1>5 DEF TryRecv, Received
<1>7. ~call[t].empty
  BY <1>6 DEF NoOp
<1>8. link[call[t].s] # "datagram"
  <2>1. CASE Kinds \subseteq {"stream"}
    BY <1>2, <2>1 DEF ReactorInv, StreamsAlone
  <2>2. CASE \A u, v \in Threads : u = v
    <3>1. CopyHolds(call[t])
      BY <2>2 DEF ReactorInv, AloneCopies
    <3>2. /\ call[t].obj \in Sockets /\ call[t].s = impl[call[t].obj].socket
          /\ "stream" \in impl[call[t].obj].state
      BY <1>1, <1>6, <3>1 DEF CopyHolds
    <3>3. ~Forgetting(call[t].obj)
      BY <1>1, <2>2 DEF Forgetting
    <3> QED
      BY <1>2, <3>2, <3>3, StreamOfObject
  <2> QED
    BY <2>1, <2>2
<1> QED
  BY <1>2, <1>6, <1>7, <1>8, ZeroBytesEnd

\* Of the attempts only a receive tells the end of a stream.
LEMMA AttemptEnd ==
    ASSUME ReactorInv, Kinds \subseteq {"stream"} \/ \A t, u \in Threads : t = u,
           NEW t \in Threads, Attempts(t), call'[t].ec = "eof"
    PROVE  /\ call'[t].op = "non_blocking_recv"
           /\ link[call'[t].s] = "connected" /\ fin[call'[t].s] /\ inbox[call'[t].s] = 0
<1> PICK o \in Sockets :
        \/ NonBlockingRecv(t, o) \/ NonBlockingRecvFrom(t, o) \/ NonBlockingRecvMsg(t, o)
        \/ NonBlockingSend(t, o) \/ NonBlockingSendTo(t, o)
        \/ NonBlockingAccept(t, o) \/ NonBlockingConnect(t, o)
  BY DEF Attempts
<1>t. Ownership /\ impl \in [Sockets -> ImplType]
  BY StateTypes DEF ReactorInv, Ownership
<1>1. /\ NonBlockingOps = {"non_blocking_recv", "non_blocking_recvfrom", "non_blocking_recvmsg",
                           "non_blocking_send", "non_blocking_sendto", "non_blocking_accept",
                           "non_blocking_connect"}
      /\ "eof" \in Results /\ "again" \in Results /\ {"ok", "refused"} \subseteq Codes
      /\ Codes \subseteq Results
  BY DEF NonBlockingOps, Results, Codes
<1>2. ASSUME NEW op \in NonBlockingOps, NEW ec \in Results, ec # "eof", Performed(t, op, o, ec)
      PROVE  FALSE
  BY <1>2, <1>t, PerformedEffect
<1>3. ASSUME NEW op \in NonBlockingOps, NEW r \in Answers, Attempted(t, op, o, r) PROVE FALSE
  <2>1. ErrorCode(r.err) \in Results /\ ErrorCode(r.err) # "eof"
    BY <1>1, ErrorsDoNotEnd
  <2> QED
    BY <1>1, <1>2, <1>3, <2>1 DEF Attempted
<1>4. ASSUME \/ NonBlockingRecvFrom(t, o) \/ NonBlockingRecvMsg(t, o)
             \/ NonBlockingSend(t, o) \/ NonBlockingSendTo(t, o)
      PROVE  FALSE
  BY <1>1, <1>3, <1>4 DEF NonBlockingRecvFrom, NonBlockingRecvMsg, NonBlockingSend, NonBlockingSendTo
<1>5. ASSUME NonBlockingAccept(t, o) PROVE FALSE
  <2>1. PICK r \in Answers \cup {Success(h) : h \in Fds} :
           Performed(t, "non_blocking_accept", o,
                     IF r.err = "aborted" \/ (r.err = "wouldBlock" /\ "user" \notin impl[o].state)
                     THEN "again" ELSE ErrorCode(r.err))
    BY <1>5 DEF NonBlockingAccept
  <2>2. ErrorCode(r.err) \in Results /\ ErrorCode(r.err) # "eof"
    <3>1. \A h \in Fds : Success(h).err = "ok" /\ ErrorCode("ok") = "ok"
      BY DEF Success, ErrorCode
    <3> QED
      BY <1>1, <3>1, ErrorsDoNotEnd
  <2> QED
    BY <1>1, <1>2, <2>1, <2>2
<1>6. ASSUME NonBlockingConnect(t, o) PROVE FALSE
  <2>1. PICK r \in Answers, pending \in {"ok", "refused"} :
           \/ Performed(t, "non_blocking_connect", o, "again")
           \/ Performed(t, "non_blocking_connect", o, IF r.n = 0 THEN pending ELSE ErrorCode(r.err))
    BY <1>6 DEF NonBlockingConnect
  <2>2. ErrorCode(r.err) \in Results /\ ErrorCode(r.err) # "eof"
    BY <1>1, ErrorsDoNotEnd
  <2> QED
    BY <1>1, <1>2, <2>1, <2>2
<1>7. NonBlockingRecv(t, o)
  BY <1>4, <1>5, <1>6
<1>8. PICK f \in Fds, r \in Answers :
        /\ f = impl[o].socket /\ lkl_recvmsg(f, FALSE, r)
        /\ r.n = 0 /\ "stream" \in impl[o].state
        /\ Performed(t, "non_blocking_recv", o, "eof")
  BY <1>1, <1>3, <1>7 DEF NonBlockingRecv
<1>9. call'[t].op = "non_blocking_recv" /\ call'[t].s = f
  BY <1>1, <1>8, <1>t, PerformedEffect
<1>10. link[f] # "datagram"
  <2>1. (\A u, v \in Threads : u = v) => ~Forgetting(o)
    BY <1>7 DEF Forgetting, NonBlockingRecv, Idle
  <2> QED
    BY <1>8, <2>1, StreamOfObject
<1> QED
  BY <1>8, <1>9, <1>10, ZeroBytesEnd

\* Zero bytes are told as the end of a stream only when it is one: always where there
\* are no datagram sockets, and with them as long as one thread uses the sockets.
THEOREM EndIsAnEnd ==
    Kinds \subseteq {"stream"} \/ (\A t, u \in Threads : t = u) => (ReactorSpec => EofOnlyOnStreams)
<1> DEFINE Ended == \A t \in Threads :
                       call'[t] # call[t] /\ call'[t].ec = "eof" =>
                           LET f == IF call'[t].op = "non_blocking_recv" THEN call'[t].s ELSE call[t].s
                           IN  link[f] = "connected" /\ fin[f] /\ inbox[f] = 0
<1> SUFFICES ASSUME Kinds \subseteq {"stream"} \/ \A t, u \in Threads : t = u
             PROVE  ReactorSpec => EofOnlyOnStreams
  OBVIOUS
<1>1. ReactorInv /\ [ReactorNext]_vars => [Ended]_vars
  <2> SUFFICES ASSUME ReactorInv, [ReactorNext]_vars, NEW t \in Threads,
                      call'[t] # call[t], call'[t].ec = "eof"
               PROVE  LET f == IF call'[t].op = "non_blocking_recv" THEN call'[t].s ELSE call[t].s
                      IN  link[f] = "connected" /\ fin[f] /\ inbox[f] = 0
    OBVIOUS
  <2>1. Follows(t)
    BY StepFollows DEF Follows, ReactorInv
  <2>2. ~KeepsOn(t) /\ ~TakesCopy(t)
    BY DEF KeepsOn, TakesCopy, ReactorInv, CallsKnown
  <2>3. EndsCall(t) \/ Attempts(t)
    BY <2>1, <2>2 DEF Follows
  <2>4. CASE EndsCall(t)
    BY <2>4, ReceiveEnd DEF EndsCall
  <2>5. CASE Attempts(t)
    BY <2>5, AttemptEnd
  <2> QED
    BY <2>3, <2>4, <2>5
<1>2. ReactorSpec => [][Ended]_vars
  BY <1>1, ReactorInvariantHolds, PTL DEF ReactorSpec
<1> QED
  BY <1>2 DEF EofOnlyOnStreams
=============================================================================
