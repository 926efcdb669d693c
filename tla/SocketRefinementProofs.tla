------------------------ MODULE SocketRefinementProofs ------------------------
(***************************************************************************)
(* Proof that SocketOps, with streams only, implements BlockingSockets:    *)
(* every step of a thread is a step of the promise to the user, or none.   *)
(* StreamsTold, what the mapping needs next to SocketInv, is kept by the   *)
(* same cases.                                                             *)
(***************************************************************************)
EXTENDS SocketProofs

\* What is shown of every step.
Plays == Promised!Next /\ StreamsTold'

-----------------------------------------------------------------------------
(* How a step is seen.                                                       *)

LEMMA SeenFields ==
    \A t \in Threads : /\ CallsSeen[t] = Seen(call[t])
                       /\ CallsSeen[t].op = call[t].op /\ CallsSeen[t].obj = call[t].obj
                       /\ CallsSeen[t].peer = call[t].peer /\ CallsSeen[t].s = call[t].s
                       /\ CallsSeen[t].asked = call[t].user
  BY DEF CallsSeen, Seen

LEMMA SeenHolds == \A o \in Sockets : HoldsSeen[o] = Held(o)
  BY DEF HoldsSeen

LEMMA SeenKept ==
    ASSUME \A u \in Threads : Seen(call'[u]) = Seen(call[u])
    PROVE  CallsSeen' = CallsSeen
  BY DEF CallsSeen

LEMMA SeenChanged ==
    ASSUME NEW t \in Threads, NEW seen, Seen(call'[t]) = seen,
           \A u \in Threads \ {t} : call'[u] = call[u]
    PROVE  CallsSeen' = [CallsSeen EXCEPT ![t] = seen]
<1>1. \A u \in Threads \ {t} : Seen(call'[u]) = Seen(call[u])
  OBVIOUS
<1> QED
  BY <1>1 DEF CallsSeen

LEMMA HoldsKept ==
    ASSUME \A o \in Sockets : Held(o)' = Held(o)
    PROVE  HoldsSeen' = HoldsSeen
  BY DEF HoldsSeen

LEMMA HoldsChanged ==
    ASSUME NEW o \in Sockets, NEW f, Held(o)' = f, \A q \in Sockets \ {o} : Held(q)' = Held(q)
    PROVE  HoldsSeen' = [HoldsSeen EXCEPT ![o] = f]
  BY DEF HoldsSeen

\* A thread that is not about to forget a descriptor changes what nobody holds.
LEMMA ForgettingKept ==
    ASSUME NEW t \in Threads, \A u \in Threads \ {t} : call'[u] = call[u],
           call[t].at # "forget", call'[t].at # "forget"
    PROVE  \A o \in Sockets : Forgetting(o)' <=> Forgetting(o)
  BY DEF Forgetting

LEMMA LinksKept ==
    ASSUME StreamsTold, UNCHANGED <<link, inbox, fin>>
    PROVE  \A f \in Fds : LinkTold(f)'
  BY DEF StreamsTold, LinkTold

\* A thread takes a step that leaves the objects their descriptors.
LEMMA ThreadTold ==
    ASSUME StreamInv, NEW t \in Threads,
           \A u \in Threads \ {t} : call'[u] = call[u],
           call[t].at # "forget", call'[t].at # "forget", call'[t].op \in Waiting => call'[t].stream /\ call'[t].s \in Fds,
           \A o \in Sockets : /\ impl'[o].socket = impl[o].socket
                              /\ "stream" \in impl'[o].state <=> "stream" \in impl[o].state,
           \A f \in Fds : LinkTold(f)'
    PROVE  StreamsTold' /\ HoldsSeen' = HoldsSeen
<1>1. HoldsSeen' = HoldsSeen
  <2>1. \A o \in Sockets : Held(o)' = Held(o)
    BY ForgettingKept DEF Held
  <2> QED
    BY <2>1, HoldsKept
<1>2. \A o \in Sockets : ObjectTold(o)'
  BY DEF StreamInv, StreamsTold, ObjectTold
<1>3. ASSUME NEW u \in Threads PROVE CallTold(call[u])'
  <2>1. CASE u = t
    BY <2>1 DEF CallTold
  <2>2. CASE u # t
    <3>1. call'[u] = call[u] /\ CallTold(call[u])
      BY <2>2 DEF StreamInv, StreamsTold
    <3>2. call[u].at = "forget" => call[u].obj \in Sockets
      BY DEF StreamInv, SocketInv, Ownership, StepsKnown, StepKnown, ClosingSteps
    <3> QED
      BY <3>1, <3>2 DEF CallTold
  <2> QED
    BY <2>1, <2>2
<1> QED
  BY <1>1, <1>2, <1>3 DEF StreamsTold

\* A call returns.
LEMMA LeaveTold ==
    ASSUME StreamInv, NEW t \in Threads, call[t].at # "forget", NEW ec \in Codes, Leave(t, ec),
           UNCHANGED impl, \A f \in Fds : LinkTold(f)'
    PROVE  /\ StreamsTold' /\ HoldsSeen' = HoldsSeen
           /\ CallsSeen' = [CallsSeen EXCEPT ![t] = Promised!Done(ec)]
<1>1. call \in [Threads -> CallType] /\ ec \in Results
  BY StateTypes DEF StreamInv, SocketInv, Ownership, Results
<1>2. call'[t] = Returned(ec) /\ \A u \in Threads \ {t} : call'[u] = call[u]
  BY <1>1, LeaveEffect
<1>3. call'[t].at # "forget" /\ call'[t].op \notin Waiting
  BY <1>2 DEF Returned, Waiting, Receiving, Sending
<1>4. Seen(call'[t]) = Promised!Done(ec)
  BY <1>2 DEF Seen, Returned, Promised!Done
<1> QED
  BY <1>2, <1>3, <1>4, ThreadTold, SeenChanged

\* A call goes on.
LEMMA GoOnTold ==
    ASSUME StreamInv, NEW t \in Threads, call[t].at \notin {"forget", "returned"},
           NEW step \in Steps \ {"forget", "returned"}, GoOn(t, step),
           \A o \in Sockets : /\ impl'[o].socket = impl[o].socket
                              /\ "stream" \in impl'[o].state <=> "stream" \in impl[o].state,
           \A f \in Fds : LinkTold(f)'
    PROVE  StreamsTold' /\ HoldsSeen' = HoldsSeen /\ CallsSeen' = CallsSeen
<1>1. call \in [Threads -> CallType]
  BY StateTypes DEF StreamInv, SocketInv, Ownership
<1>2. call'[t] = [call[t] EXCEPT !.at = step] /\ \A u \in Threads \ {t} : call'[u] = call[u]
  BY <1>1, GoOnEffect
<1>3. /\ call'[t].at = step
      /\ call'[t].op = call[t].op /\ call'[t].obj = call[t].obj /\ call'[t].peer = call[t].peer
      /\ call'[t].s = call[t].s /\ call'[t].user = call[t].user /\ call'[t].stream = call[t].stream
  BY <1>1, <1>2 DEF CallType
<1>4. CallTold(call[t])
  BY DEF StreamInv, StreamsTold
<1>5. StreamsTold' /\ HoldsSeen' = HoldsSeen
  BY <1>2, <1>3, <1>4, ThreadTold DEF CallTold
<1>6. \A u \in Threads \ {t} : call'[u] = call[u]
  BY <1>2
<1>7. Seen(call'[t]) = Seen(call[t])
  BY <1>3 DEF Seen
<1>8. \A u \in Threads : Seen(call'[u]) = Seen(call[u])
  BY <1>6, <1>7
<1> QED
  BY <1>5, <1>8, SeenKept

\* What no user sees.
LEMMA Unseen ==
    ASSUME UNCHANGED <<link, inbox, fin>>, HoldsSeen' = HoldsSeen, CallsSeen' = CallsSeen
    PROVE  Promised!Next
  BY DEF Promised!Next, Promised!vars, Promised!connections

\* A step of a call, as the promise has it.
LEMMA CallPlays ==
    ASSUME NEW t \in Threads,
           \/ Promised!Fail(t) \/ Promised!Receive(t) \/ Promised!Transfer(t)
           \/ Promised!ConnectStarts(t) \/ Promised!ConnectEnds(t)
           \/ Promised!Accept(t) \/ Promised!GiveUp(t) \/ Promised!CloseEnds(t)
           \/ \E o \in Sockets, f \in Fds : Promised!Obtain(t, o, f)
           \/ \E o \in Sockets, p \in Sockets, op \in Promised!Transfers \cup Promised!Closes \cup {"connect", "accept"} :
                 Promised!Start(t, op, o, p)
    PROVE  Promised!Next
  BY DEF Promised!Next

-----------------------------------------------------------------------------
(* The calls that wait.                                                      *)

LEMMA FailPlays ==
    ASSUME StreamInv, NEW t \in Threads, call[t].op \notin Closing, NEW ec \in Codes, Leave(t, ec),
           UNCHANGED <<kernelVars, impl>>,
           \/ ec \in Promised!Failures
           \/ ec = "wouldBlock" /\ call[t].user /\ call[t].op # "connect"
    PROVE  Plays
<1>1. call[t].at # "forget"
  BY DEF StreamInv, SocketInv, Ownership, StepsKnown, StepKnown, ClosingSteps
<1>2. UNCHANGED <<link, inbox, fin>>
  BY DEF kernelVars
<1>3. /\ StreamsTold' /\ HoldsSeen' = HoldsSeen
      /\ CallsSeen' = [CallsSeen EXCEPT ![t] = Promised!Done(ec)]
  BY <1>1, <1>2, LinksKept, LeaveTold DEF StreamInv
<1>4. Promised!Fail(t)
  BY <1>2, <1>3, SeenFields DEF Promised!Fail, Promised!Returns, Promised!Closes, Promised!connections, Closing
<1> QED
  BY <1>3, <1>4, CallPlays DEF Plays

\* A call goes on without anything having happened.
LEMMA WaitPlays ==
    ASSUME StreamInv, NEW t \in Threads, call[t].op \in Waiting,
           NEW step \in {"try", "poll", "soError"}, GoOn(t, step), UNCHANGED <<kernelVars, impl>>
    PROVE  Plays
<1>1. call[t].at \notin {"forget", "returned"}
  BY DEF StreamInv, SocketInv, Ownership, StepsKnown, StepKnown, ClosingSteps, Waiting, Closing, Receiving, Sending
<1>2. UNCHANGED <<link, inbox, fin>> /\ step \in Steps \ {"forget", "returned"}
  BY DEF kernelVars, Steps
<1>3. StreamsTold' /\ HoldsSeen' = HoldsSeen /\ CallsSeen' = CallsSeen
  BY <1>1, <1>2, LinksKept, GoOnTold DEF StreamInv
<1> QED
  BY <1>2, <1>3, Unseen DEF Plays

\* Of what was answered, the errors a call tells.
LEMMA ToldFailure ==
    \A e \in Errors : /\ ErrorCode(e) \in Codes
                      /\ e \notin {"wouldBlock", "inProgress"} => ErrorCode(e) \in Promised!Failures
                      /\ ErrorCode(e) = "wouldBlock" => e = "wouldBlock"
  BY DEF ErrorCode, Errors, Codes, Promised!Failures

\* An answer is a number or an error.
LEMMA AnswerCases ==
    \A r \in Answers : \/ r \in {Success(0), Success(1)} /\ r.n \in {0, 1} /\ r.err = "ok"
                       \/ r = Failure(r.err) /\ r.err \in Errors /\ r.n = -1
  BY DEF Answers, Success, Failure

LEMMA RefusedPlays ==
    ASSUME StreamInv, NEW t \in Threads, call[t].op \in Waiting, call[t].op # "connect",
           NEW r \in Answers, r.n < 0, r.err # "inProgress", Refused(t, r), UNCHANGED <<kernelVars, impl>>
    PROVE  Plays
<1>1. r.err \in Errors
  BY AnswerCases
<1>2. call[t].op \notin Closing /\ ErrorCode("wouldBlock") = "wouldBlock"
  BY DEF Waiting, Closing, Receiving, Sending, ErrorCode
<1>3. CASE GoOn(t, "poll")
  BY <1>3, WaitPlays
<1>4. CASE Leave(t, ErrorCode(r.err)) /\ (call[t].user \/ r.err # "wouldBlock")
  BY <1>1, <1>2, <1>4, ToldFailure, FailPlays
<1> QED
  BY <1>3, <1>4 DEF Refused

LEMMA TryRecvPlays ==
    ASSUME StreamInv, NEW t \in Threads, TryRecv(t)
    PROVE  Plays
<1>1. /\ call[t].op = "recv" /\ call[t].op \in Waiting /\ call[t].at # "forget"
      /\ UNCHANGED impl
  BY DEF TryRecv, At, Waiting, Receiving
<1> PICK f \in Fds : f = call[t].s /\ LinkTold(f)
  BY <1>1 DEF StreamInv, StreamsTold, CallTold
<1>2. call[t].stream /\ {"ok", "eof"} \subseteq Codes
  BY <1>1 DEF StreamInv, StreamsTold, CallTold, Codes
<1>3. CASE Leave(t, "ok") /\ UNCHANGED kernelVars
  <2>1. UNCHANGED <<link, inbox, fin>>
    BY <1>3 DEF kernelVars
  <2>2. /\ StreamsTold' /\ HoldsSeen' = HoldsSeen
        /\ CallsSeen' = [CallsSeen EXCEPT ![t] = Promised!Done("ok")]
    BY <1>1, <1>2, <1>3, <2>1, LinksKept, LeaveTold DEF StreamInv
  <2>3. Promised!Transfer(t)
    BY <1>1, <2>1, <2>2, SeenFields DEF Promised!Transfer, Promised!Transfers, Promised!Returns, Promised!connections
  <2> QED
    BY <2>2, <2>3, CallPlays DEF Plays
<1>4. ASSUME NEW r \in Answers, lkl_recvmsg(f, call[t].empty, r), Received(t, r), ~NoOp(t)
      PROVE  Plays
  <2>1. ~call[t].empty /\ link[f] # "datagram"
    BY <1>2, <1>4 DEF NoOp, LinkTold
  <2>2. CASE r.n < 0
    <3>1. r.err # "inProgress" /\ UNCHANGED kernelVars
      BY <1>4, <2>1, <2>2 DEF lkl_recvmsg, Trouble, Failure, Success
    <3>2. r.n = -1
      BY <2>2, AnswerCases
    <3>3. Refused(t, r)
      BY <1>4, <3>2 DEF Received
    <3> QED
      BY <1>1, <2>2, <3>1, <3>3, RefusedPlays
  <2>3. CASE r = Success(1)
    <3>1. /\ link[f] = "connected" /\ inbox[f] > 0
          /\ inbox' = [inbox EXCEPT ![f] = @ - 1] /\ UNCHANGED <<link, fin>>
      BY <1>4, <2>1, <2>3 DEF lkl_recvmsg, Trouble, Failure, Success
    <3>2. Leave(t, "ok")
      BY <1>4, <2>3 DEF Received, Success
    <3>3. \A g \in Fds : LinkTold(g)'
      BY <3>1 DEF StreamInv, StreamsTold, LinkTold, SocketInv, SocketTypeOK, KernelTypeOK
    <3>4. /\ StreamsTold' /\ HoldsSeen' = HoldsSeen
          /\ CallsSeen' = [CallsSeen EXCEPT ![t] = Promised!Done("ok")]
      BY <1>1, <1>2, <3>2, <3>3, LeaveTold
    <3>5. Promised!Receive(t)
      BY <1>1, <3>1, <3>4, SeenFields DEF Promised!Receive, Promised!Returns
    <3> QED
      BY <3>4, <3>5, CallPlays DEF Plays
  <2>4. CASE r = Success(0)
    <3>1. link[f] = "connected" /\ inbox[f] = 0 /\ fin[f] /\ UNCHANGED kernelVars
      BY <1>4, <2>1, <2>4 DEF lkl_recvmsg, Trouble, Failure, Success
    <3>2. Leave(t, "eof") /\ UNCHANGED <<link, inbox, fin>>
      BY <1>2, <1>4, <2>4, <3>1 DEF Received, Success, kernelVars
    <3>3. /\ StreamsTold' /\ HoldsSeen' = HoldsSeen
          /\ CallsSeen' = [CallsSeen EXCEPT ![t] = Promised!Done("eof")]
      BY <1>1, <1>2, <3>2, LinksKept, LeaveTold DEF StreamInv
    <3>4. Promised!Receive(t)
      BY <1>1, <3>1, <3>2, <3>3, SeenFields DEF Promised!Receive, Promised!Returns, Promised!connections
    <3> QED
      BY <3>3, <3>4, CallPlays DEF Plays
  <2> QED
    BY <2>2, <2>3, <2>4, AnswerCases
<1> QED
  BY <1>3, <1>4 DEF TryRecv

LEMMA TrySendPlays ==
    ASSUME StreamInv, NEW t \in Threads, TrySend(t)
    PROVE  Plays
<1>1. /\ call[t].op = "send" /\ call[t].op \in Waiting /\ call[t].at # "forget"
      /\ UNCHANGED impl /\ "ok" \in Codes
  BY DEF TrySend, At, Waiting, Sending, Codes
<1>2. UNCHANGED kernelVars /\ UNCHANGED <<link, inbox, fin>>
  BY DEF TrySend, lkl_sendmsg, kernelVars
<1>3. CASE Leave(t, "ok")
  <2>1. /\ StreamsTold' /\ HoldsSeen' = HoldsSeen
        /\ CallsSeen' = [CallsSeen EXCEPT ![t] = Promised!Done("ok")]
    BY <1>1, <1>2, <1>3, LinksKept, LeaveTold DEF StreamInv
  <2>2. Promised!Transfer(t)
    BY <1>1, <1>2, <2>1, SeenFields DEF Promised!Transfer, Promised!Transfers, Promised!Returns, Promised!connections
  <2> QED
    BY <2>1, <2>2, CallPlays DEF Plays
<1>4. ASSUME NEW r \in Answers, lkl_sendmsg(call[t].s, r), r.n < 0, Refused(t, r) PROVE Plays
  <2>1. r.err # "inProgress"
    BY <1>4 DEF lkl_sendmsg, Trouble, Failure, Success
  <2> QED
    BY <1>1, <1>2, <1>4, <2>1, RefusedPlays
<1> QED
  BY <1>3, <1>4 DEF TrySend

LEMMA PollPlays ==
    ASSUME StreamInv, NEW t \in Threads, Poll(t)
    PROVE  Plays
<1>1. call[t].op \in Waiting /\ call[t].op \notin Closing
  BY DEF Poll, StreamInv, SocketInv, Ownership, StepsKnown, StepKnown, ClosingSteps, Waiting, Closing, Receiving, Sending
<1>2. UNCHANGED <<kernelVars, impl>>
  BY DEF Poll, lkl_poll
<1>3. ASSUME NEW r \in Answers, NEW ready, lkl_poll(call[t].s, ready, r), r.n < 0, Leave(t, ErrorCode(r.err))
      PROVE  Plays
  <2>1. r.err \in Errors /\ r.err \notin {"wouldBlock", "inProgress"}
    BY <1>3, AnswerCases DEF lkl_poll, Trouble, Failure, Success
  <2> QED
    BY <1>1, <1>2, <1>3, <2>1, ToldFailure, FailPlays
<1>4. ASSUME NEW step \in {"try", "soError"}, GoOn(t, step) PROVE Plays
  BY <1>1, <1>2, <1>4, WaitPlays
<1> QED
  BY <1>3, <1>4 DEF Poll

LEMMA TryConnectPlays ==
    ASSUME StreamInv, NEW t \in Threads, TryConnect(t)
    PROVE  Plays
<1>1. /\ call[t].op = "connect" /\ call[t].op \in Waiting /\ call[t].op \notin Closing
      /\ call[t].at \notin {"forget", "returned"} /\ UNCHANGED impl
  BY DEF TryConnect, At, Waiting, Closing
<1> PICK f \in Fds : f = call[t].s /\ LinkTold(f) /\ link[f] # "closed"
  BY <1>1, ConnectInHand DEF StreamInv, StreamsTold, CallTold, SocketInv
<1>2. PICK r \in Answers :
        /\ lkl_connect(f, r)
        /\ CASE r.err = "inProgress" -> GoOn(t, "poll")
             [] r.err = "wouldBlock" -> Leave(t, "noBufferSpace")
             [] OTHER -> Leave(t, ErrorCode(r.err))
  BY DEF TryConnect
<1>3. link[f] # "datagram" /\ link \in [Fds -> Links] /\ inbox \in [Fds -> 0..MaxIn] /\ fin \in [Fds -> BOOLEAN]
  BY DEF LinkTold, StreamInv, SocketInv, SocketTypeOK, KernelTypeOK
<1>4. CASE UNCHANGED kernelVars /\ r.n < 0 /\ r.err # "inProgress"
  <2>1. CASE r.err = "wouldBlock"
    <3>1. Leave(t, "noBufferSpace")
      BY <1>2, <2>1
    <3> QED
      BY <1>1, <1>4, <3>1, FailPlays DEF Codes, Promised!Failures
  <2>2. CASE r.err # "wouldBlock"
    <3>1. Leave(t, ErrorCode(r.err)) /\ r.err \in Errors
      BY <1>2, <1>4, <2>2, AnswerCases
    <3> QED
      BY <1>1, <1>4, <2>2, <3>1, ToldFailure, FailPlays
  <2> QED
    BY <2>1, <2>2
<1>5. CASE r.err = "inProgress"
  <2>1. /\ link[f] \in {"fresh", "refused"} /\ link' = [link EXCEPT ![f] = "connecting"]
        /\ UNCHANGED <<inbox, fin>>
    BY <1>2, <1>3, <1>5 DEF lkl_connect, Trouble, Failure, Success
  <2>2. GoOn(t, "poll") /\ "poll" \in Steps \ {"forget", "returned"}
    BY <1>2, <1>5 DEF Steps
  <2>3. \A g \in Fds : LinkTold(g)'
    BY <1>3, <2>1 DEF StreamInv, StreamsTold, LinkTold
  <2>4. StreamsTold' /\ HoldsSeen' = HoldsSeen /\ CallsSeen' = CallsSeen
    BY <1>1, <2>2, <2>3, GoOnTold
  <2>5. Promised!ConnectStarts(t)
    BY <1>1, <2>1, <2>4, SeenFields DEF Promised!ConnectStarts, Promised!Becomes
  <2> QED
    BY <2>4, <2>5, CallPlays DEF Plays
<1>6. CASE r = Success(0)
  <2>1. /\ link[f] \in {"fresh", "refused"} /\ link' = [link EXCEPT ![f] = "connected"]
        /\ UNCHANGED <<inbox, fin>>
    BY <1>2, <1>3, <1>6 DEF lkl_connect, Trouble, Failure, Success
  <2>2. Leave(t, "ok") /\ "ok" \in Codes
    BY <1>2, <1>6 DEF Success, ErrorCode, Codes
  <2>3. \A g \in Fds : LinkTold(g)'
    BY <1>3, <2>1 DEF StreamInv, StreamsTold, LinkTold
  <2>4. /\ StreamsTold' /\ HoldsSeen' = HoldsSeen
        /\ CallsSeen' = [CallsSeen EXCEPT ![t] = Promised!Done("ok")]
    BY <1>1, <2>2, <2>3, LeaveTold
  <2>5. Promised!ConnectEnds(t)
    BY <1>1, <2>1, <2>4, SeenFields DEF Promised!ConnectEnds, Promised!Becomes, Promised!Returns
  <2> QED
    BY <2>4, <2>5, CallPlays DEF Plays
<1>7. \/ UNCHANGED kernelVars /\ r.n < 0 /\ r.err # "inProgress"
      \/ r.err = "inProgress" \/ r = Success(0)
  BY <1>2, <1>3 DEF lkl_connect, Trouble, Failure, Success
<1> QED
  BY <1>4, <1>5, <1>6, <1>7

LEMMA GetConnectErrorPlays ==
    ASSUME StreamInv, NEW t \in Threads, GetConnectError(t)
    PROVE  Plays
<1>1. /\ call[t].op = "connect" /\ call[t].op \in Waiting /\ call[t].op \notin Closing
      /\ call[t].at \notin {"forget", "returned"} /\ UNCHANGED impl
      /\ {"ok", "refused"} \subseteq Codes
  BY DEF GetConnectError, At, Waiting, Closing, Codes
<1> PICK f \in Fds : f = call[t].s
  BY <1>1 DEF StreamInv, StreamsTold, CallTold
<1>2. link[f] \in {"connected", "refused"}
  BY <1>1 DEF GetConnectError, At, StreamInv, SocketInv, ConnectKnown, AttemptKnown
<1>3. link \in [Fds -> Links]
  BY DEF StreamInv, SocketInv, SocketTypeOK, KernelTypeOK
<1>4. PICK r \in Answers, pending \in {"ok", "refused"} :
        /\ lkl_so_error(f, r, pending)
        /\ Leave(t, IF r.n = 0 THEN pending ELSE ErrorCode(r.err))
  BY DEF GetConnectError
<1>5. CASE r.n < 0
  <2>1. UNCHANGED kernelVars /\ r.err \notin {"wouldBlock", "inProgress"}
    BY <1>2, <1>4, <1>5 DEF lkl_so_error, Trouble, Failure, Success
  <2>2. r.n = -1 /\ r.err \in Errors
    BY <1>5, AnswerCases
  <2>3. Leave(t, ErrorCode(r.err))
    BY <1>4, <2>2
  <2> QED
    BY <1>1, <2>1, <2>2, <2>3, ToldFailure, FailPlays
<1>6. CASE r = Success(0)
  <2>1. Leave(t, pending)
    BY <1>4, <1>6 DEF Success
  <2>2. \/ /\ link[f] = "refused" /\ pending = "refused"
           /\ link' = [link EXCEPT ![f] = "fresh"] /\ UNCHANGED <<inbox, fin>>
        \/ link[f] = "connected" /\ pending = "ok" /\ UNCHANGED <<link, inbox, fin>>
    BY <1>2, <1>4, <1>6 DEF lkl_so_error, Trouble, Failure, Success, kernelVars
  <2>3. \A g \in Fds : LinkTold(g)'
    BY <1>3, <2>2 DEF StreamInv, StreamsTold, LinkTold
  <2>4. /\ StreamsTold' /\ HoldsSeen' = HoldsSeen
        /\ CallsSeen' = [CallsSeen EXCEPT ![t] = Promised!Done(pending)]
    BY <1>1, <2>1, <2>3, LeaveTold
  <2>5. Promised!ConnectEnds(t)
    BY <1>1, <2>2, <2>4, SeenFields
    DEF Promised!ConnectEnds, Promised!Becomes, Promised!Returns, Promised!connections
  <2> QED
    BY <2>4, <2>5, CallPlays DEF Plays
<1>7. r.n < 0 \/ r = Success(0)
  BY <1>4, AnswerCases DEF lkl_so_error, Trouble, Failure, Success
<1> QED
  BY <1>5, <1>6, <1>7

\* A number is given out: to the peer of an accept(), or to an object that is opened.
LEMMA GivenTold ==
    ASSUME StreamInv, NEW o \in Sockets, NEW f \in Fds, link[f] = "closed", impl[o].socket = NoFd,
           ~Forgetting(o),
           NEW state \in {"fresh", "connected"}, NEW mode, NEW lingers, Reset(f, state, mode, lingers),
           NEW dup, impl' = [impl EXCEPT ![o] = [socket |-> f, state |-> {"stream"} \cup dup]],
           \/ UNCHANGED call
           \/ \E t \in Threads, ec \in Codes : Leave(t, ec) /\ call[t].at # "forget"
    PROVE  /\ StreamsTold' /\ HoldsSeen' = [HoldsSeen EXCEPT ![o] = f] /\ Promised!Becomes(f, state)
<1>1. /\ link \in [Fds -> Links] /\ inbox \in [Fds -> 0..MaxIn] /\ fin \in [Fds -> BOOLEAN]
      /\ impl \in [Sockets -> ImplType] /\ call \in [Threads -> CallType]
  BY StateTypes DEF StreamInv, SocketInv, Ownership, KernelTypeOK
<1>2. LinkTold(f)
  BY DEF StreamInv, StreamsTold
<1>3. Promised!Becomes(f, state)
  BY <1>1, <1>2 DEF Promised!Becomes, Reset, LinkTold
<1>4. \A g \in Fds : LinkTold(g)'
  BY <1>1, <1>3 DEF Promised!Becomes, StreamInv, StreamsTold, LinkTold
<1>5. /\ impl'[o] = [socket |-> f, state |-> {"stream"} \cup dup]
      /\ \A q \in Sockets \ {o} : impl'[q] = impl[q]
  BY <1>1
<1>6. impl'[o].socket = f /\ "stream" \in impl'[o].state
  BY <1>5
<1>7. \A q \in Sockets : ObjectTold(q)'
  BY <1>5, <1>6 DEF ObjectTold, StreamInv, StreamsTold
<1>8. \A u \in Threads : \/ call'[u] = call[u]
                         \/ /\ call[u].at # "forget" /\ call'[u].at # "forget"
                            /\ call'[u].op \notin Waiting
  <2>1. ASSUME NEW t \in Threads, NEW ec \in Codes, Leave(t, ec)
        PROVE  /\ call'[t].at # "forget" /\ call'[t].op \notin Waiting
               /\ \A u \in Threads \ {t} : call'[u] = call[u]
    <3>1. call'[t] = Returned(ec) /\ \A u \in Threads \ {t} : call'[u] = call[u]
      BY <1>1, <2>1, LeaveEffect DEF Results
    <3> QED
      BY <3>1 DEF Returned, Waiting, Receiving, Sending
  <2> QED
    BY <2>1
<1>9. \A q \in Sockets : Forgetting(q)' <=> Forgetting(q)
  BY <1>8 DEF Forgetting
<1>10. HoldsSeen' = [HoldsSeen EXCEPT ![o] = f]
  <2>1. Held(o)' = f /\ \A q \in Sockets \ {o} : Held(q)' = Held(q)
    BY <1>5, <1>6, <1>9 DEF Held
  <2> QED
    BY <2>1, HoldsChanged
<1>11. ASSUME NEW u \in Threads PROVE CallTold(call[u])'
  <2>1. CallTold(call[u])
    BY DEF StreamInv, StreamsTold
  <2>2. CASE call'[u] = call[u]
    <3>1. call[u].at = "forget" => call[u].obj \in Sockets /\ call[u].obj # o
      BY DEF Forgetting, StreamInv, SocketInv, Ownership, StepsKnown, StepKnown, ClosingSteps
    <3> QED
      BY <1>5, <2>1, <2>2, <3>1 DEF CallTold
  <2>3. CASE call'[u].at # "forget" /\ call'[u].op \notin Waiting
    BY <2>3 DEF CallTold
  <2> QED
    BY <1>8, <2>2, <2>3
<1> QED
  BY <1>3, <1>4, <1>7, <1>10, <1>11 DEF StreamsTold

LEMMA TryAcceptPlays ==
    ASSUME StreamInv, NEW t \in Threads, TryAccept(t)
    PROVE  Plays
<1>1. /\ call[t].op = "accept" /\ call[t].op \in Waiting /\ call[t].op \in Changing /\ call[t].op \notin Closing
      /\ call[t].at = "try" /\ "ok" \in Codes
  BY DEF TryAccept, At, Waiting, Changing, Closing, Codes
<1> PICK p \in Sockets, s \in Fds : p = call[t].peer /\ s = call[t].s
  BY <1>1, InHandOwns DEF StreamInv, SocketInv, Ownership, StepsKnown, StepKnown
<1>2. link[s] # "closed" /\ impl[p].socket = NoFd
  BY <1>1, InHandOwns DEF StreamInv, SocketInv, Ownership, InHand, HasInHand
<1>3. ~Forgetting(p)
  <2>1. ASSUME NEW u \in Threads, call[u].at = "forget", call[u].obj = p PROVE FALSE
    <3>1. Concerns(u, p) /\ Concerns(t, p)
      BY <1>1, <2>1, ClosingChanges DEF Concerns, StreamInv, SocketInv, Ownership, StepsKnown, StepKnown, ClosingSteps
    <3>2. u = t
      BY <3>1 DEF StreamInv, SocketInv, Ownership, Exclusive
    <3> QED
      BY <1>1, <2>1, <3>2
  <2> QED
    BY <2>1 DEF Forgetting
<1>4. ASSUME NEW g \in Fds, lkl_accept(s, g, Success(g)), Leave(t, "ok"),
             impl' = [impl EXCEPT ![p] = [socket |-> g, state |-> {"stream", "dup"}]]
      PROVE  Plays
  <2>1. Success(g).err = "ok" /\ \A e \in Errors : Failure(e).err # "ok"
    BY DEF Success, Failure, Errors
  <2>2. /\ \A e \in Errors : Success(g) # Failure(e)
        /\ {"other", "unmapped", "badDescriptor", "aborted", "wouldBlock"} \subseteq Errors
    BY <2>1 DEF Errors
  <2>3. link[s] = "listening" /\ link[g] = "closed" /\ Reset(g, "connected", FALSE, linger[s])
    BY <1>4, <2>2 DEF lkl_accept, Trouble
  <2>4. {"stream", "dup"} = {"stream"} \cup {"dup"} /\ call[t].at # "forget"
    BY <1>1
  <2>5. /\ StreamsTold' /\ HoldsSeen' = [HoldsSeen EXCEPT ![p] = g] /\ Promised!Becomes(g, "connected")
    BY <1>1, <1>2, <1>3, <1>4, <2>3, <2>4, GivenTold
  <2>6. CallsSeen' = [CallsSeen EXCEPT ![t] = Promised!Done("ok")]
    <3>1. call \in [Threads -> CallType] /\ "ok" \in Results
      BY <1>1, StateTypes DEF StreamInv, SocketInv, Ownership, Results
    <3>2. call'[t] = Returned("ok") /\ \A u \in Threads \ {t} : call'[u] = call[u]
      BY <1>4, <3>1, LeaveEffect
    <3>3. Seen(call'[t]) = Promised!Done("ok")
      BY <3>2 DEF Seen, Returned, Promised!Done
    <3> QED
      BY <3>2, <3>3, SeenChanged
  <2>7. Promised!Accept(t)
    BY <1>1, <2>3, <2>5, <2>6, SeenFields DEF Promised!Accept, Promised!Returns
  <2> QED
    BY <2>5, <2>7, CallPlays DEF Plays
<1>5. ASSUME NEW e \in Errors, NEW g \in Fds, lkl_accept(s, g, Failure(e)), UNCHANGED impl,
             IF (e = "wouldBlock" /\ ~call[t].user) \/ e = "aborted" THEN GoOn(t, "poll")
                                                                    ELSE Leave(t, ErrorCode(e))
      PROVE  Plays
  <2>1. UNCHANGED kernelVars /\ e # "inProgress"
    BY <1>2, <1>5 DEF lkl_accept, Failure, Success, Errors, Trouble
  <2>2. CASE GoOn(t, "poll")
    BY <1>1, <1>5, <2>1, <2>2, WaitPlays
  <2>3. CASE Leave(t, ErrorCode(e)) /\ (call[t].user \/ e # "wouldBlock")
    <3>1. ErrorCode("wouldBlock") = "wouldBlock"
      BY DEF ErrorCode
    <3> QED
      BY <1>1, <1>5, <2>1, <2>3, <3>1, ToldFailure, FailPlays
  <2> QED
    BY <1>5, <2>2, <2>3
<1> QED
  BY <1>4, <1>5 DEF TryAccept

-----------------------------------------------------------------------------
(* Closing.                                                                  *)

\* A close goes on with its descriptor.
LEMMA ClosePlays ==
    ASSUME StreamInv, NEW t \in Threads, LingerOff(t) \/ Unblock(t)
    PROVE  Plays
<1>1. /\ call[t].at \in {"linger", "unblock"} /\ UNCHANGED <<link, inbox, fin>>
      /\ \E step \in {"close", "reclose"} : GoOn(t, step)
  BY DEF LingerOff, Unblock, lkl_so_linger, lkl_fionbio
<1> PICK step \in {"close", "reclose"} : GoOn(t, step)
  BY <1>1
<1>2. step \in Steps \ {"forget", "returned"}
  BY DEF Steps
<1>3. impl \in [Sockets -> ImplType]
  BY StateTypes DEF StreamInv, SocketInv, Ownership
<1>4. \A o \in Sockets : /\ impl'[o].socket = impl[o].socket
                         /\ "stream" \in impl'[o].state <=> "stream" \in impl[o].state
  <2>1. CASE LingerOff(t)
    BY <2>1 DEF LingerOff
  <2>2. CASE Unblock(t)
    <3>1. impl' = [impl EXCEPT ![call[t].obj].state = @ \ NonBlocking] /\ "stream" \notin NonBlocking
      BY <2>2 DEF Unblock, NonBlocking
    <3> QED
      BY <1>3, <3>1 DEF ImplType
  <2> QED
    BY <2>1, <2>2
<1>5. StreamsTold' /\ HoldsSeen' = HoldsSeen /\ CallsSeen' = CallsSeen
  BY <1>1, <1>2, <1>4, LinksKept, GoOnTold DEF StreamInv
<1> QED
  BY <1>1, <1>5, Unseen DEF Plays

\* lkl_close() that frees the number.
LEMMA CloseDescriptorPlays ==
    ASSUME StreamInv, NEW t \in Threads, CloseDescriptor(t)
    PROVE  Plays
<1>1. call[t].at \in {"close", "reclose"} /\ call[t].op \in Closing /\ call[t].op \in Changing
  BY ClosingChanges DEF CloseDescriptor, StreamInv, SocketInv, Ownership, StepsKnown, StepKnown, ClosingSteps
<1> PICK f \in Fds, o \in Sockets :
       /\ f = call[t].s /\ o = call[t].obj
       /\ impl[o].socket = f /\ ~Forgetting(o) /\ link[f] # "closed"
  BY <1>1, InHandOwns DEF StreamInv, SocketInv
<1>2. PICK r \in Answers :
        /\ lkl_close(f, r)
        /\ call' = [call EXCEPT
                      ![t].at = IF @ = "close" /\ r.err = "wouldBlock" THEN "unblock" ELSE "forget",
                      ![t].ec = ErrorCode(r.err)]
  BY DEF CloseDescriptor
<1>3. UNCHANGED impl
  BY DEF CloseDescriptor
<1>4. /\ call \in [Threads -> CallType]
      /\ link \in [Fds -> Links] /\ inbox \in [Fds -> 0..MaxIn] /\ fin \in [Fds -> BOOLEAN]
  BY StateTypes DEF StreamInv, SocketInv, Ownership, KernelTypeOK
<1>5. /\ call'[t].op = call[t].op /\ call'[t].obj = call[t].obj /\ call'[t].peer = call[t].peer
      /\ call'[t].s = call[t].s /\ call'[t].user = call[t].user /\ call'[t].stream = call[t].stream
      /\ call'[t].at = IF call[t].at = "close" /\ r.err = "wouldBlock" THEN "unblock" ELSE "forget"
      /\ call'[t].ec = ErrorCode(r.err)
      /\ \A u \in Threads \ {t} : call'[u] = call[u]
  BY <1>2, <1>4 DEF CallType
<1>6. CallsSeen' = CallsSeen
  <2>1. Seen(call'[t]) = Seen(call[t])
    BY <1>1, <1>5 DEF Seen
  <2>2. \A u \in Threads : Seen(call'[u]) = Seen(call[u])
    BY <1>5, <2>1
  <2> QED
    BY <2>2, SeenKept
<1>7. call[t].op \notin Waiting
  BY <1>1 DEF Closing, Waiting, Receiving, Sending
<1>8. CASE r = Failure("wouldBlock")
  <2>1. nonblock[f] /\ UNCHANGED kernelVars
    BY <1>2, <1>8 DEF lkl_close, Trouble, Failure, Success
  <2>2. call[t].at = "close"
    BY <1>1, <2>1 DEF StreamInv, SocketInv, Ownership, CloseReady, ReadyToClose
  <2>3. call'[t].at = "unblock" /\ call[t].at # "forget"
    BY <1>5, <1>8, <2>2 DEF Failure
  <2>4. UNCHANGED <<link, inbox, fin>>
    BY <2>1 DEF kernelVars
  <2>5. StreamsTold' /\ HoldsSeen' = HoldsSeen
    BY <1>3, <1>5, <1>7, <2>3, <2>4, LinksKept, ThreadTold DEF StreamInv
  <2> QED
    BY <1>6, <2>4, <2>5, Unseen DEF Plays
<1>9. CASE r # Failure("wouldBlock")
  <2>1. Reset(f, "closed", FALSE, FALSE) /\ (r = Success(0) \/ Trouble(r))
    BY <1>2, <1>9 DEF lkl_close
  <2>2. call'[t].at = "forget" /\ call'[t].ec \in {"ok", "other", "silent"}
    BY <1>5, <2>1 DEF Success, Trouble, Failure, ErrorCode
  <2>3. CallTold(call[t])'
    BY <1>3, <1>5, <1>7, <2>2 DEF CallTold
  <2>4. \A u \in Threads \ {t} : CallTold(call[u])'
    BY <1>3, <1>5 DEF CallTold, StreamInv, StreamsTold
  <2>5. \A q \in Sockets : ObjectTold(q)'
    BY <1>3 DEF ObjectTold, StreamInv, StreamsTold
  <2>6. /\ link' = [link EXCEPT ![f] = "closed"]
        /\ inbox' = [inbox EXCEPT ![f] = 0]
        /\ fin' = [fin EXCEPT ![f] = FALSE]
    BY <2>1 DEF Reset
  <2>7. \A g \in Fds : LinkTold(g)'
    BY <1>4, <2>6 DEF LinkTold, StreamInv, StreamsTold
  <2>8. StreamsTold'
    BY <2>3, <2>4, <2>5, <2>7 DEF StreamsTold
  <2>9. HoldsSeen' = [HoldsSeen EXCEPT ![o] = NoFd]
    <3>1. \A q \in Sockets : Forgetting(q)' <=> Forgetting(q) \/ q = o
      BY <1>1, <1>5, <2>2 DEF Forgetting
    <3>2. Held(o)' = NoFd /\ \A q \in Sockets \ {o} : Held(q)' = Held(q)
      BY <1>3, <3>1 DEF Held
    <3> QED
      BY <3>2, HoldsChanged
  <2>10. HoldsSeen[o] = f
    BY SeenHolds DEF Held
  <2>11. Promised!GiveUp(t)
    BY <1>1, <1>6, <2>6, <2>9, <2>10, SeenFields DEF Promised!GiveUp, Promised!Closes, Closing
  <2> QED
    BY <2>8, <2>11, CallPlays DEF Plays
<1> QED
  BY <1>8, <1>9

\* Two objects change at once: one gets what the other has.
LEMMA HoldsMoved ==
    ASSUME NEW o \in Sockets, NEW p \in Sockets, o # p,
           Held(o)' = Held(p), Held(p)' = NoFd, \A q \in Sockets \ {o, p} : Held(q)' = Held(q)
    PROVE  HoldsSeen' = [HoldsSeen EXCEPT ![o] = HoldsSeen[p], ![p] = NoFd]
  BY DEF HoldsSeen

LEMMA ForgetPlays ==
    ASSUME StreamInv, NEW t \in Threads, Forget(t)
    PROVE  Plays
<1>1. /\ call[t].at = "forget" /\ call[t].op \in Closing /\ call[t].op \in Changing
      /\ call[t].op = "moveAssign" <=> call[t].obj # call[t].peer
  BY ClosingChanges DEF Forget, StreamInv, SocketInv, Ownership, StepsKnown, StepKnown, ClosingSteps, Closing
<1> PICK o \in Sockets, p \in Sockets : o = call[t].obj /\ p = call[t].peer
  BY <1>1 DEF StreamInv, SocketInv, Ownership, StepsKnown, StepKnown
<1>2. impl \in [Sockets -> ImplType] /\ call \in [Threads -> CallType]
  BY StateTypes DEF StreamInv, SocketInv, Ownership
<1>3. UNCHANGED kernelVars /\ UNCHANGED <<link, inbox, fin>>
  BY DEF Forget, kernelVars
<1>4. PICK ec \in {"ok", "other", "silent"} :
        Leave(t, ec) /\ (ec = "ok" \/ call[t].op = "close")
  <2>1. call[t].ec \in {"ok", "other", "silent"}
    BY <1>1 DEF StreamInv, StreamsTold, CallTold
  <2> QED
    BY <2>1 DEF Forget
<1>5. ec \in Results /\ ec \in Codes
  BY DEF Results, Codes, Errors
<1>6. call'[t] = Returned(ec) /\ \A u \in Threads \ {t} : call'[u] = call[u]
  BY <1>2, <1>4, <1>5, LeaveEffect
<1>7. CallsSeen' = [CallsSeen EXCEPT ![t] = Promised!Done(ec)]
  <2>1. Seen(call'[t]) = Promised!Done(ec)
    BY <1>6 DEF Seen, Returned, Promised!Done
  <2> QED
    BY <1>6, <2>1, SeenChanged
<1>8. \A u \in Threads \ {t} : call[u].op \in Changing =>
          call[u].obj \notin {o, p} /\ call[u].peer \notin {o, p}
  BY <1>1 DEF Concerns, StreamInv, SocketInv, Ownership, Exclusive
<1>9. \A u \in Threads : call[u].at = "forget" => call[u].op \in Changing /\ call[u].obj \in Sockets
  BY ClosingChanges DEF StreamInv, SocketInv, Ownership, StepsKnown, StepKnown, ClosingSteps
<1>10. Forgetting(o) /\ ~Forgetting(o)' /\ ~Forgetting(p)' /\ (o # p => ~Forgetting(p))
  BY <1>1, <1>6, <1>8, <1>9 DEF Forgetting, Returned
<1>11. \A q \in Sockets \ {o, p} : Forgetting(q)' <=> Forgetting(q)
  BY <1>1, <1>6 DEF Forgetting, Returned
<1>12. Held(o) = NoFd
  BY <1>10 DEF Held
<1>13. \A u \in Threads \ {t} : call[u].at = "forget" => call[u].obj \notin {o, p}
  BY <1>8, <1>9
<1>14. call'[t].at # "forget" /\ call'[t].op \notin Waiting
  BY <1>6 DEF Returned, Waiting, Receiving, Sending
<1>15. Constructed.socket = NoFd
  BY DEF Constructed
<1>16. CASE call[t].op = "moveAssign"
  <2>1. impl' = [impl EXCEPT ![o] = impl[p], ![p] = Constructed] /\ o # p
    BY <1>1, <1>16 DEF Forget
  <2>2. /\ impl'[o] = impl[p] /\ impl'[p] = Constructed
        /\ \A q \in Sockets \ {o, p} : impl'[q] = impl[q]
    BY <1>2, <2>1
  <2>3. HoldsSeen' = [HoldsSeen EXCEPT ![o] = HoldsSeen[p], ![p] = NoFd]
    <3>1. Held(o)' = Held(p)
      BY <1>10, <2>1, <2>2 DEF Held
    <3>2. Held(p)' = NoFd
      BY <1>10, <1>15, <2>2 DEF Held
    <3>3. \A q \in Sockets \ {o, p} : Held(q)' = Held(q)
      BY <1>11, <2>2 DEF Held
    <3> QED
      BY <2>1, <3>1, <3>2, <3>3, HoldsMoved
  <2>4. StreamsTold'
    <3>1. \A q \in Sockets : ObjectTold(q)'
      BY <1>15, <2>2 DEF ObjectTold, StreamInv, StreamsTold
    <3>2. \A u \in Threads : CallTold(call[u])'
      BY <1>6, <1>9, <1>13, <1>14, <2>2 DEF CallTold, StreamInv, StreamsTold
    <3> QED
      BY <1>3, <3>1, <3>2, LinksKept DEF StreamsTold, StreamInv
  <2>5. Promised!CloseEnds(t)
    BY <1>3, <1>4, <1>7, <1>12, <1>16, <2>3, SeenFields, SeenHolds
    DEF Promised!CloseEnds, Promised!Closes, Promised!Returns, Promised!connections
  <2> QED
    BY <2>4, <2>5, CallPlays DEF Plays
<1>17. CASE call[t].op # "moveAssign"
  <2>1. impl' = [impl EXCEPT ![o] = Constructed] /\ o = p
    BY <1>1, <1>17 DEF Forget
  <2>2. impl'[o] = Constructed /\ \A q \in Sockets \ {o} : impl'[q] = impl[q]
    BY <1>2, <2>1
  <2>3. HoldsSeen' = HoldsSeen
    <3>1. Held(o)' = NoFd /\ \A q \in Sockets \ {o} : Held(q)' = Held(q)
      BY <1>10, <1>11, <1>15, <2>1, <2>2 DEF Held
    <3>2. \A q \in Sockets : Held(q)' = Held(q)
      BY <1>12, <3>1
    <3> QED
      BY <3>2, HoldsKept
  <2>4. StreamsTold'
    <3>1. \A q \in Sockets : ObjectTold(q)'
      BY <1>15, <2>2 DEF ObjectTold, StreamInv, StreamsTold
    <3>2. \A u \in Threads : CallTold(call[u])'
      BY <1>6, <1>9, <1>13, <1>14, <2>2 DEF CallTold, StreamInv, StreamsTold
    <3> QED
      BY <1>3, <3>1, <3>2, LinksKept DEF StreamsTold, StreamInv
  <2>5. Promised!CloseEnds(t)
    BY <1>1, <1>3, <1>4, <1>7, <1>12, <1>17, <2>3, SeenFields, SeenHolds
    DEF Promised!CloseEnds, Promised!Closes, Closing, Promised!Returns, Promised!connections
  <2> QED
    BY <2>4, <2>5, CallPlays DEF Plays
<1> QED
  BY <1>16, <1>17

-----------------------------------------------------------------------------
(* The calls a program makes.                                                *)

\* A step of an idle thread that leaves the calls as they are and the objects their
\* descriptors.
LEMMA AdjustTold ==
    ASSUME StreamInv, UNCHANGED call,
           \A o \in Sockets : /\ impl'[o].socket = impl[o].socket
                              /\ "stream" \in impl'[o].state <=> "stream" \in impl[o].state,
           \A f \in Fds : LinkTold(f)'
    PROVE  StreamsTold' /\ HoldsSeen' = HoldsSeen /\ CallsSeen' = CallsSeen
<1>1. \A o \in Sockets : ObjectTold(o)' /\ Held(o)' = Held(o)
  BY DEF StreamInv, StreamsTold, ObjectTold, Held, Forgetting
<1>2. \A u \in Threads : Seen(call'[u]) = Seen(call[u])
  OBVIOUS
<1>3. ASSUME NEW u \in Threads PROVE CallTold(call[u])'
  <2>1. call[u].at = "forget" => call[u].obj \in Sockets
    BY DEF StreamInv, SocketInv, Ownership, StepsKnown, StepKnown, ClosingSteps
  <2> QED
    BY <2>1 DEF CallTold, StreamInv, StreamsTold
<1> QED
  BY <1>1, <1>2, <1>3, HoldsKept, SeenKept DEF StreamsTold

LEMMA ModePlays ==
    ASSUME StreamInv, NEW t \in Threads, NEW o \in Sockets,
           \/ StartOp(t, o)
           \/ \E value \in BOOLEAN : \/ SetUserNonBlocking(t, o, value)
                                     \/ SetInternalNonBlocking(t, o, value)
                                     \/ SetLinger(t, o, value)
    PROVE  Plays
<1>1. UNCHANGED <<link, inbox, fin, call>>
  BY DEF StartOp, SetUserNonBlocking, SetInternalNonBlocking, SetLinger, lkl_fionbio, lkl_so_linger
<1>2. "stream" \notin NonBlocking /\ "stream" # "linger" /\ "stream" # "user" /\ "stream" # "internal"
  BY DEF NonBlocking
<1>3. ASSUME NEW flags, impl' = [impl EXCEPT ![o].state = flags], "stream" \in flags <=> "stream" \in impl[o].state
      PROVE  \A q \in Sockets : /\ impl'[q].socket = impl[q].socket
                                /\ "stream" \in impl'[q].state <=> "stream" \in impl[q].state
  BY <1>3, StateTypes DEF StreamInv, SocketInv, Ownership, ImplType
<1>4. \A q \in Sockets : /\ impl'[q].socket = impl[q].socket
                         /\ "stream" \in impl'[q].state <=> "stream" \in impl[q].state
  <2> DEFINE old == impl[o].state
  <2>1. ASSUME NEW value \in BOOLEAN, SetUserNonBlocking(t, o, value) PROVE <1>4!:
    <3> DEFINE flags == IF value THEN old \cup {"user"} ELSE old \ NonBlocking
    <3>1. impl' = [impl EXCEPT ![o].state = flags]
      BY <2>1 DEF SetUserNonBlocking
    <3>2. "stream" \in flags <=> "stream" \in impl[o].state
      BY <1>2
    <3> HIDE DEF flags
    <3> QED
      BY <1>3, <3>1, <3>2
  <2>2. ASSUME NEW value \in BOOLEAN, SetInternalNonBlocking(t, o, value) PROVE <1>4!:
    <3> DEFINE flags == IF value THEN old \cup {"internal"} ELSE old \ {"internal"}
    <3>1. impl' = [impl EXCEPT ![o].state = flags]
      BY <2>2 DEF SetInternalNonBlocking
    <3>2. "stream" \in flags <=> "stream" \in impl[o].state
      BY <1>2
    <3> HIDE DEF flags
    <3> QED
      BY <1>3, <3>1, <3>2
  <2>3. ASSUME NEW value \in BOOLEAN, SetLinger(t, o, value) PROVE <1>4!:
    <3> DEFINE flags == old \cup {"linger"}
    <3>1. impl' = [impl EXCEPT ![o].state = flags]
      BY <2>3 DEF SetLinger
    <3>2. "stream" \in flags <=> "stream" \in impl[o].state
      BY <1>2
    <3> HIDE DEF flags
    <3> QED
      BY <1>3, <3>1, <3>2
  <2> QED
    BY <2>1, <2>2, <2>3 DEF StartOp
<1>5. StreamsTold' /\ HoldsSeen' = HoldsSeen /\ CallsSeen' = CallsSeen
  BY <1>1, <1>4, LinksKept, AdjustTold DEF StreamInv
<1> QED
  BY <1>1, <1>5, Unseen DEF Plays

\* What an object that is in no call that changes it holds.
LEMMA FreeHolds ==
    ASSUME StreamInv, NEW o \in Sockets, ~Busy(o)
    PROVE  ~Forgetting(o) /\ HoldsSeen[o] = impl[o].socket
  BY FreeOwns, SeenHolds DEF Held, StreamInv, SocketInv

LEMMA LinkPlays ==
    ASSUME StreamInv, NEW t \in Threads, NEW o \in Sockets, Listen(t, o) \/ Shutdown(t, o)
    PROVE  Plays
<1>1. UNCHANGED <<impl, call, inbox>> /\ ~Busy(o)
  BY DEF Listen, Shutdown
<1>2. link \in [Fds -> Links] /\ inbox \in [Fds -> 0..MaxIn] /\ fin \in [Fds -> BOOLEAN]
  BY DEF StreamInv, SocketInv, SocketTypeOK, KernelTypeOK
<1>3. CASE Listen(t, o)
  <2> PICK f \in Fds : f = impl[o].socket /\ link[f] = "fresh" /\ link' = [link EXCEPT ![f] = "listening"]
    BY <1>3 DEF Listen
  <2>1. UNCHANGED fin
    BY <1>3 DEF Listen
  <2>2. \A g \in Fds : LinkTold(g)'
    BY <1>1, <1>2, <2>1 DEF StreamInv, StreamsTold, LinkTold
  <2>3. StreamsTold' /\ HoldsSeen' = HoldsSeen /\ CallsSeen' = CallsSeen
    BY <1>1, <2>2, AdjustTold
  <2>4. Promised!ListenOn(o)
    BY <1>1, <2>1, <2>3, FreeHolds DEF Promised!ListenOn, Promised!Becomes
  <2> QED
    BY <2>3, <2>4 DEF Plays, Promised!Next
<1>4. CASE Shutdown(t, o)
  <2> PICK f \in Fds : f = impl[o].socket /\ link[f] = "connected" /\ fin' = [fin EXCEPT ![f] = TRUE]
    BY <1>4 DEF Shutdown
  <2>1. UNCHANGED link
    BY <1>4 DEF Shutdown
  <2>2. \A g \in Fds : LinkTold(g)'
    BY <1>1, <1>2, <2>1 DEF StreamInv, StreamsTold, LinkTold
  <2>3. StreamsTold' /\ HoldsSeen' = HoldsSeen /\ CallsSeen' = CallsSeen
    BY <1>1, <2>2, AdjustTold
  <2>4. CASE fin[f]
    <3>1. fin' = fin
      BY <1>2, <2>4
    <3> QED
      BY <1>1, <2>1, <2>3, <3>1, Unseen DEF Plays
  <2>5. CASE ~fin[f]
    <3>1. Promised!Elsewhere(f)
      BY <1>1, <2>1, <2>3, <2>5 DEF Promised!Elsewhere
    <3> QED
      BY <2>3, <3>1 DEF Plays, Promised!Next
  <2> QED
    BY <2>4, <2>5
<1> QED
  BY <1>3, <1>4

LEMMA NetworkPlays ==
    ASSUME StreamInv, Network, UNCHANGED <<impl, call>>
    PROVE  Plays
<1>1. link \in [Fds -> Links] /\ inbox \in [Fds -> 0..MaxIn] /\ fin \in [Fds -> BOOLEAN]
  BY DEF StreamInv, SocketInv, SocketTypeOK, KernelTypeOK
<1> PICK f \in Fds : Established(f) \/ Arrives(f) \/ PeerCloses(f)
  BY DEF Network
<1>2. LinkTold(f)
  BY DEF StreamInv, StreamsTold
<1>3. \/ /\ link[f] = "connecting" /\ UNCHANGED <<inbox, fin>>
         /\ \E state \in {"connected", "refused"} : link' = [link EXCEPT ![f] = state]
      \/ /\ link[f] = "connected" /\ ~fin[f] /\ inbox[f] < MaxIn
         /\ inbox' = [inbox EXCEPT ![f] = @ + 1] /\ UNCHANGED <<link, fin>>
      \/ /\ link[f] = "connected" /\ ~fin[f]
         /\ fin' = [fin EXCEPT ![f] = TRUE] /\ UNCHANGED <<link, inbox>>
  BY <1>2 DEF Established, Arrives, PeerCloses, LinkTold
<1>4. \A g \in Fds : LinkTold(g)'
  BY <1>1, <1>3 DEF StreamInv, StreamsTold, LinkTold
<1>5. StreamsTold' /\ HoldsSeen' = HoldsSeen /\ CallsSeen' = CallsSeen
  BY <1>4, AdjustTold
<1>6. Promised!Elsewhere(f)
  BY <1>3, <1>5 DEF Promised!Elsewhere, Promised!Becomes
<1> QED
  BY <1>5, <1>6 DEF Plays, Promised!Next

LEMMA OpenPlays ==
    ASSUME StreamInv, Kinds \subseteq {"stream"}, NEW t \in Threads, NEW o \in Sockets,
           Open(t, o) \/ Assign(t, o)
    PROVE  Plays
<1>1. /\ Idle(t) /\ ~Busy(o) /\ call[t].op \notin Closing /\ call[t].at # "forget"
      /\ {"ok", "alreadyOpen"} \subseteq Codes
  BY IdleThread DEF Open, Assign, Idle, StreamInv, SocketInv, Codes
<1>2. ~Forgetting(o)
  BY <1>1, FreeHolds
<1>3. call[t].op = "none"
  BY <1>1, PlainTypes, IdleThread DEF StreamInv, SocketInv, Plain
<1>4. CASE UNCHANGED <<kernelVars, impl>> /\ Open(t, o)
  <2>1. CASE Leave(t, "alreadyOpen")
    BY <1>1, <1>4, <2>1, FailPlays DEF Promised!Failures
  <2>2. ASSUME NEW r \in Answers, Trouble(r), Leave(t, ErrorCode(r.err)) PROVE Plays
    <3>1. r.err \in Errors /\ r.err \notin {"wouldBlock", "inProgress"}
      BY <2>2, AnswerCases DEF Trouble, Failure
    <3> QED
      BY <1>1, <1>4, <2>2, <3>1, ToldFailure, FailPlays
  <2>3. ASSUME NEW f \in Fds, NEW state, link[f] = "closed", state # "closed", Reset(f, state, FALSE, FALSE)
        PROVE  FALSE
    BY <1>4, <2>3 DEF Reset, kernelVars, StreamInv, SocketInv, SocketTypeOK, KernelTypeOK
  <2> QED
    BY <1>4, <2>1, <2>2, <2>3 DEF Open
<1>5. ASSUME impl[o].socket = NoFd, NEW f \in Fds, link[f] = "closed",
             NEW state \in {"fresh", "connected"}, NEW mode, NEW lingers, Reset(f, state, mode, lingers),
             NEW dup, impl' = [impl EXCEPT ![o] = [socket |-> f, state |-> {"stream"} \cup dup]],
             \/ state = "fresh" /\ Leave(t, "ok")
             \/ state = "connected" /\ UNCHANGED call
      PROVE  Plays
  <2>0. UNCHANGED call \/ \E u \in Threads, ec \in Codes : Leave(u, ec) /\ call[u].at # "forget"
    BY <1>1, <1>5
  <2>1. StreamsTold' /\ HoldsSeen' = [HoldsSeen EXCEPT ![o] = f] /\ Promised!Becomes(f, state)
    BY <1>2, <1>5, <2>0, GivenTold
  <2>2. HoldsSeen[o] = NoFd
    BY <1>1, <1>5, FreeHolds
  <2>3. \/ state = "fresh" /\ CallsSeen' = [CallsSeen EXCEPT ![t] = Promised!Done("ok")]
        \/ state = "connected" /\ CallsSeen' = CallsSeen
    <3>1. CASE Leave(t, "ok")
      <4>1. call \in [Threads -> CallType] /\ "ok" \in Results
        BY <1>1, StateTypes DEF StreamInv, SocketInv, Ownership, Results
      <4>2. call'[t] = Returned("ok") /\ \A u \in Threads \ {t} : call'[u] = call[u]
        BY <3>1, <4>1, LeaveEffect
      <4>3. Seen(call'[t]) = Promised!Done("ok")
        BY <4>2 DEF Seen, Returned, Promised!Done
      <4>4. CallsSeen' = [CallsSeen EXCEPT ![t] = Promised!Done("ok")]
        BY <4>2, <4>3, SeenChanged
      <4>5. CASE UNCHANGED call
        BY <1>5, <4>4, <4>5, SeenKept
      <4> QED
        BY <1>5, <4>4, <4>5
    <3>2. CASE UNCHANGED call
      <4>1. CallsSeen' = CallsSeen
        BY <3>2, SeenKept
      <4>2. CASE Leave(t, "ok")
        BY <3>1, <4>2
      <4> QED
        BY <1>5, <4>1, <4>2
    <3> QED
      BY <1>5, <3>1, <3>2
  <2>4. Promised!Obtain(t, o, f)
    <3>1. Promised!Idle(t) /\ link[f] = "closed"
      BY <1>3, <1>5, SeenFields DEF Promised!Idle
    <3>2. \/ Promised!Becomes(f, "fresh") /\ Promised!Returns(t, "ok")
          \/ Promised!Becomes(f, "connected") /\ UNCHANGED CallsSeen
      BY <2>1, <2>3 DEF Promised!Returns
    <3> QED
      BY <2>1, <2>2, <3>1, <3>2 DEF Promised!Obtain
  <2> QED
    BY <2>1, <2>4, CallPlays DEF Plays
<1>6. CASE Open(t, o) /\ ~UNCHANGED <<kernelVars, impl>>
  <2> PICK f \in Fds, kind \in Kinds :
        /\ impl[o].socket = NoFd /\ link[f] = "closed"
        /\ Reset(f, IF kind = "stream" THEN "fresh" ELSE "datagram", FALSE, FALSE)
        /\ impl' = [impl EXCEPT ![o] = [socket |-> f, state |-> {kind}]]
        /\ Leave(t, "ok")
    BY <1>6 DEF Open
  <2>1. kind = "stream" /\ {kind} = {"stream"} \cup {}
    OBVIOUS
  <2>2. /\ Reset(f, "fresh", FALSE, FALSE)
        /\ impl' = [impl EXCEPT ![o] = [socket |-> f, state |-> {"stream"} \cup {}]]
    BY <2>1
  <2> QED
    BY <1>5, <2>2
<1>7. CASE Assign(t, o)
  <2> PICK f \in Fds, mode \in BOOLEAN, lingers \in BOOLEAN, kind \in Kinds :
        /\ impl[o].socket = NoFd /\ link[f] = "closed"
        /\ Reset(f, IF kind = "stream" THEN "connected" ELSE "datagram", mode, lingers)
        /\ impl' = [impl EXCEPT ![o] = [socket |-> f, state |-> {kind, "dup"}]]
    BY <1>7 DEF Assign
  <2>1. kind = "stream" /\ {kind, "dup"} = {"stream"} \cup {"dup"} /\ UNCHANGED call
    BY <1>7 DEF Assign
  <2>2. /\ Reset(f, "connected", mode, lingers)
        /\ impl' = [impl EXCEPT ![o] = [socket |-> f, state |-> {"stream"} \cup {"dup"}]]
    BY <2>1
  <2> QED
    BY <1>5, <2>1, <2>2
<1> QED
  BY <1>4, <1>6, <1>7

LEMMA MovePlays ==
    ASSUME StreamInv, NEW t \in Threads, NEW o \in Sockets, NEW p \in Sockets, MoveConstruct(t, o, p)
    PROVE  Plays
<1>1. /\ ~Busy(o) /\ ~Busy(p) /\ o # p /\ impl[o] = Constructed
      /\ impl' = [impl EXCEPT ![o] = impl[p], ![p] = Constructed]
      /\ UNCHANGED <<kernelVars, call>> /\ UNCHANGED <<link, inbox, fin>>
  BY DEF MoveConstruct, kernelVars
<1>2. Constructed.socket = NoFd
  BY DEF Constructed
<1>3. /\ ~Forgetting(o) /\ ~Forgetting(p) /\ HoldsSeen[o] = NoFd
      /\ \A q \in Sockets : Forgetting(q)' <=> Forgetting(q)
  BY <1>1, <1>2, FreeHolds DEF Forgetting
<1>4. impl \in [Sockets -> ImplType]
  BY StateTypes DEF StreamInv, SocketInv, Ownership
<1>5. /\ impl'[o] = impl[p] /\ impl'[p] = Constructed
      /\ \A q \in Sockets \ {o, p} : impl'[q] = impl[q]
  BY <1>1, <1>4
<1>6. HoldsSeen' = [HoldsSeen EXCEPT ![o] = HoldsSeen[p], ![p] = NoFd]
  <2>1. Held(o)' = Held(p)
    BY <1>3, <1>5 DEF Held
  <2>2. Held(p)' = NoFd
    BY <1>2, <1>3, <1>5 DEF Held
  <2>3. \A q \in Sockets \ {o, p} : Held(q)' = Held(q)
    BY <1>3, <1>5 DEF Held
  <2> QED
    BY <1>1, <2>1, <2>2, <2>3, HoldsMoved
<1>7. CallsSeen' = CallsSeen
  BY <1>1, SeenKept
<1>8. \A u \in Threads : call[u].at = "forget" => call[u].obj \in Sockets \ {o, p}
  BY <1>3 DEF Forgetting, StreamInv, SocketInv, Ownership, StepsKnown, StepKnown, ClosingSteps
<1>9. StreamsTold'
  <2>1. \A q \in Sockets : ObjectTold(q)'
    BY <1>2, <1>5 DEF ObjectTold, StreamInv, StreamsTold
  <2>2. ASSUME NEW u \in Threads PROVE CallTold(call[u])'
    <3>1. call'[u] = call[u] /\ CallTold(call[u])
      BY <1>1 DEF StreamInv, StreamsTold
    <3>2. call[u].at = "forget" => impl'[call[u].obj] = impl[call[u].obj]
      BY <1>5, <1>8
    <3> QED
      BY <3>1, <3>2 DEF CallTold
  <2> QED
    BY <1>1, <2>1, <2>2, LinksKept DEF StreamsTold, StreamInv
<1>10. Promised!Move(o, p)
  BY <1>1, <1>3, <1>6, <1>7 DEF Promised!Move, Promised!connections
<1> QED
  BY <1>9, <1>10 DEF Plays, Promised!Next

\* A call begins with the descriptor of its object, or, if the object is being closed,
\* with the one that is given up.
LEMMA EnterPlays ==
    ASSUME StreamInv, NEW t \in Threads, Idle(t), UNCHANGED <<kernelVars, impl>>,
           NEW op \in {"recv", "send", "connect", "accept"} \cup Closing,
           NEW o \in Sockets, NEW p \in Sockets, NEW step \in Steps, NEW empty \in BOOLEAN,
           Enter(t, op, o, p, step, empty),
           op \in Changing => ~Busy(o), op \in {"accept", "moveAssign"} <=> o # p,
           op \in Waiting => impl[o].socket # NoFd,
           step # "returned", step = "forget" => op \in Closing /\ impl[o].socket = NoFd
    PROVE  Plays
<1>1. /\ call \in [Threads -> CallType] /\ impl \in [Sockets -> ImplType] /\ op \in Operations
      /\ call[t].at # "forget"
  BY StateTypes DEF StreamInv, SocketInv, Ownership, Operations, Waiting, Receiving, Sending, Idle
<1>2. /\ call'[t] = [op |-> op, obj |-> o, peer |-> p, s |-> impl[o].socket,
                     user |-> "user" \in impl[o].state, stream |-> "stream" \in impl[o].state,
                     empty |-> empty, at |-> step, ec |-> "ok"]
      /\ \A u \in Threads \ {t} : call'[u] = call[u]
  BY <1>1, EnterEffect
<1>3. /\ call'[t].op = op /\ call'[t].obj = o /\ call'[t].peer = p /\ call'[t].s = impl[o].socket
      /\ call'[t].user = ("user" \in impl[o].state) /\ call'[t].at = step /\ call'[t].ec = "ok"
      /\ call'[t].stream = ("stream" \in impl[o].state)
  BY <1>2
<1>4. UNCHANGED impl /\ UNCHANGED <<link, inbox, fin>>
  BY DEF kernelVars
<1>5. StreamsTold'
  <2>1. CallTold(call[t])'
    BY <1>1, <1>3, <1>4 DEF CallTold, ObjectTold, ImplType, StreamInv, StreamsTold
  <2>2. \A u \in Threads \ {t} : CallTold(call[u])'
    BY <1>2, <1>4 DEF CallTold, StreamInv, StreamsTold
  <2>3. \A q \in Sockets : ObjectTold(q)'
    BY <1>4 DEF ObjectTold, StreamInv, StreamsTold
  <2> QED
    BY <1>4, <2>1, <2>2, <2>3, LinksKept DEF StreamsTold, StreamInv
<1>6. \A q \in Sockets : Held(q)' = Held(q)
  <2>1. CASE step # "forget"
    <3>1. \A q \in Sockets : Forgetting(q)' <=> Forgetting(q)
      BY <1>1, <1>2, <1>3, <2>1, ForgettingKept
    <3> QED
      BY <1>4, <3>1 DEF Held
  <2>2. CASE step = "forget"
    <3>1. \A q \in Sockets : Forgetting(q)' <=> Forgetting(q) \/ q = o
      BY <1>1, <1>2, <1>3, <2>2 DEF Forgetting
    <3> QED
      BY <1>4, <2>2, <3>1 DEF Held
  <2> QED
    BY <2>1, <2>2
<1>7. HoldsSeen' = HoldsSeen
  BY <1>6, HoldsKept
<1>8. CallsSeen' = [CallsSeen EXCEPT ![t] = [op |-> op, obj |-> o, peer |-> p, s |-> impl[o].socket,
                                             asked |-> "user" \in impl[o].state, ec |-> "ok"]]
  <2>1. Seen(call'[t]) = [op |-> op, obj |-> o, peer |-> p, s |-> impl[o].socket,
                          asked |-> "user" \in impl[o].state, ec |-> "ok"]
    BY <1>3 DEF Seen
  <2> QED
    BY <1>2, <2>1, SeenChanged
<1>9. impl[o].socket \in Promised!Takes(op, o)
  <2>1. CASE ~Forgetting(o)
    BY <2>1, SeenHolds DEF Promised!Takes, Held
  <2>2. CASE Forgetting(o)
    <3> PICK u \in Threads : call[u].at = "forget" /\ call[u].obj = o
      BY <2>2 DEF Forgetting
    <3>1. call[u].op \in Closing /\ call[u].s = impl[o].socket
      BY DEF StreamInv, StreamsTold, CallTold, SocketInv, Ownership, StepsKnown, StepKnown, ClosingSteps
    <3>2. op \in {"recv", "send"}
      BY <2>2, FreeHolds, ClosingChanges
    <3>3. /\ op \in Promised!Transfers
          /\ CallsSeen[u].op \in Promised!Closes /\ CallsSeen[u].obj = o /\ CallsSeen[u].s = impl[o].socket
      BY <3>1, <3>2, SeenFields DEF Promised!Transfers, Promised!Closes, Closing
    <3> QED
      BY <3>3 DEF Promised!Takes
  <2> QED
    BY <2>1, <2>2
<1>10. impl[o].socket # NoFd \/ op \in Promised!Closes
  BY DEF Promised!Closes, Closing, Waiting, Receiving, Sending
<1>11. CallsSeen[t].op = "none"
  BY PlainTypes, IdleThread, SeenFields DEF StreamInv, SocketInv, Plain
<1>12. Promised!Start(t, op, o, p)
  <2>1. ("user" \in impl[o].state) \in BOOLEAN
    OBVIOUS
  <2> QED
    BY <1>4, <1>7, <1>8, <1>9, <1>10, <1>11, <2>1 DEF Promised!Start, Promised!Idle, Promised!connections
<1>13. op \in Promised!Transfers \cup Promised!Closes \cup {"connect", "accept"}
  BY DEF Promised!Transfers, Promised!Closes, Closing
<1> QED
  BY <1>5, <1>12, <1>13, CallPlays DEF Plays

LEMMA BeginPlays ==
    ASSUME StreamInv, NEW t \in Threads, NEW op \in {"recv", "send", "connect", "accept"},
           NEW o \in Sockets, NEW p \in Sockets, NEW empty \in BOOLEAN,
           op = "accept" <=> o # p, Begin(t, op, o, p, empty)
    PROVE  Plays
<1>1. Idle(t) /\ UNCHANGED <<kernelVars, impl>> /\ op \notin Closing /\ "try" \in Steps
  BY DEF Begin, Closing, Steps
<1>2. CASE impl[o].socket = NoFd
  <2>1. Leave(t, "badDescriptor") /\ "badDescriptor" \in Codes /\ call[t].op \notin Closing
    BY <1>1, <1>2, IdleThread DEF Begin, Codes, Errors, StreamInv, SocketInv
  <2> QED
    BY <1>1, <2>1, FailPlays DEF Promised!Failures
<1>3. CASE impl[o].socket # NoFd
  <2>1. Enter(t, op, o, p, "try", empty) /\ (op \in Changing => ~Busy(o))
    BY <1>3 DEF Begin
  <2> QED
    BY <1>1, <1>3, <2>1, EnterPlays
<1> QED
  BY <1>2, <1>3

LEMMA NewCallPlays ==
    ASSUME StreamInv, Kinds \subseteq {"stream"}, NEW t \in Threads, NewCall(t)
    PROVE  Plays
<1>1. ASSUME NEW op \in Closing, NEW o \in Sockets, NEW p \in Sockets,
             op = "moveAssign" <=> o # p, BeginClose(t, op, o, p)
      PROVE  Plays
  <2> DEFINE step == IF impl[o].socket = NoFd THEN "forget"
                     ELSE IF op # "close" /\ "linger" \in impl[o].state THEN "linger"
                     ELSE "close"
  <2>1. /\ Enter(t, op, o, p, step, FALSE) /\ step \in Steps /\ step # "returned"
        /\ step = "forget" => impl[o].socket = NoFd
        /\ Idle(t) /\ ~Busy(o) /\ UNCHANGED <<kernelVars, impl>>
    BY <1>1 DEF BeginClose, Steps
  <2>2. op \notin Waiting /\ (op \in {"accept", "moveAssign"} <=> o # p)
    BY <1>1 DEF Closing, Waiting, Receiving, Sending
  <2> HIDE DEF step
  <2> QED
    BY <2>1, <2>2, EnterPlays
<1>2. ASSUME NEW o \in Sockets, BeginReceive(t, o) \/ BeginSend(t, o) \/ BeginConnect(t, o)
      PROVE  Plays
  BY <1>2, BeginPlays DEF BeginReceive, BeginSend, BeginConnect
<1>3. ASSUME NEW o \in Sockets, NEW p \in Sockets, BeginAccept(t, o, p)
      PROVE  Plays
  <2>1. CASE o # p /\ Begin(t, "accept", o, p, FALSE)
    BY <2>1, BeginPlays
  <2>2. CASE Idle(t) /\ Leave(t, "alreadyOpen") /\ UNCHANGED <<kernelVars, impl>>
    <3>1. "alreadyOpen" \in Codes /\ call[t].op \notin Closing
      BY <2>2, IdleThread DEF Codes, StreamInv, SocketInv
    <3> QED
      BY <2>2, <3>1, FailPlays DEF Promised!Failures
  <2> QED
    BY <1>3, <2>1, <2>2 DEF BeginAccept
<1>4. {"close", "destroy", "moveAssign"} \subseteq Closing
  BY DEF Closing
<1> QED
  BY <1>1, <1>2, <1>3, <1>4, OpenPlays, LinkPlays, ModePlays, MovePlays DEF NewCall

-----------------------------------------------------------------------------
(* The theorems.                                                             *)

LEMMA StreamInit == Init => StreamInv /\ Promised!Init
<1> SUFFICES ASSUME Init PROVE StreamInv /\ Promised!Init
  OBVIOUS
<1>1. SocketInv
  BY SocketInvInit
<1>2. /\ link = [f \in Fds |-> "closed"] /\ inbox = [f \in Fds |-> 0] /\ fin = [f \in Fds |-> FALSE]
  BY DEF Init, KernelInit
<1>3. \A o \in Sockets : impl[o].socket = NoFd
  BY DEF Init, Constructed
<1>4. \A t \in Threads : call[t] = Returned("ok")
  BY DEF Init
<1>5. \A t \in Threads : call[t].at # "forget" /\ call[t].op \notin Waiting
  BY <1>4 DEF Returned, Waiting, Receiving, Sending
<1>6. StreamsTold
  BY <1>2, <1>3, <1>5 DEF StreamsTold, LinkTold, ObjectTold, CallTold
<1>7. HoldsSeen = [o \in Sockets |-> NoFd]
  BY <1>3 DEF HoldsSeen, Held
<1>8. \A t \in Threads : Seen(call[t]) = Promised!Done("ok")
  <2>1. Seen(Returned("ok")) = Promised!Done("ok")
    BY DEF Seen, Returned, Promised!Done
  <2> QED
    BY <1>4, <2>1
<1>9. CallsSeen = [t \in Threads |-> Promised!Done("ok")]
  BY <1>8 DEF CallsSeen
<1> QED
  BY <1>1, <1>2, <1>6, <1>7, <1>9 DEF StreamInv, Promised!Init

LEMMA StreamStep == Kinds \subseteq {"stream"} /\ StreamInv /\ [Next]_vars => StreamInv' /\ Promised!Next
<1> SUFFICES ASSUME Kinds \subseteq {"stream"}, StreamInv, [Next]_vars PROVE StreamInv' /\ Promised!Next
  OBVIOUS
<1>1. SocketInv'
  BY SocketInvStep DEF StreamInv
<1>2. CASE UNCHANGED vars
  <2>1. /\ UNCHANGED <<link, inbox, fin>> /\ UNCHANGED call /\ UNCHANGED impl
    BY <1>2 DEF vars, kernelVars
  <2>2. StreamsTold' /\ HoldsSeen' = HoldsSeen /\ CallsSeen' = CallsSeen
    BY <2>1, LinksKept, AdjustTold DEF StreamInv
  <2> QED
    BY <1>1, <2>1, <2>2, Unseen DEF StreamInv
<1>3. ASSUME NEW t \in Threads, CallStep(t) PROVE Plays
  BY <1>3, TryRecvPlays, TrySendPlays, TryConnectPlays, GetConnectErrorPlays, TryAcceptPlays, PollPlays,
     ClosePlays, CloseDescriptorPlays, ForgetPlays DEF CallStep
<1>4. ASSUME NEW t \in Threads, NewCall(t) PROVE Plays
  BY <1>4, NewCallPlays
<1> QED
  BY <1>1, <1>2, <1>3, <1>4, NetworkPlays DEF Next, Plays, StreamInv

\* With streams only, free numbers have nothing to read, every call is one on a stream,
\* and a close that failed in trouble alone is about to forget its descriptor.
THEOREM StreamsAreTold == Kinds \subseteq {"stream"} => (Spec => []StreamInv)
<1> SUFFICES ASSUME Kinds \subseteq {"stream"} PROVE Spec => []StreamInv
  OBVIOUS
<1>1. StreamInv /\ [Next]_vars => StreamInv'
  BY StreamStep
<1> QED
  BY <1>1, StreamInit, PTL DEF Spec

\* The service keeps the promise of BlockingSockets to every thread, however many use
\* the objects: a call takes effect once, whatever attempts, waits and mode changes are
\* made of it, and a socket and its descriptor part in one step.
THEOREM BlocksAsPromised == Kinds \subseteq {"stream"} => (Spec => ImplementsBlockingSockets)
<1> SUFFICES ASSUME Kinds \subseteq {"stream"} PROVE Spec => ImplementsBlockingSockets
  OBVIOUS
<1>1. StreamInv /\ [Next]_vars => [Promised!Next]_(Promised!vars)
  BY StreamStep
<1>2. Spec => []StreamInv
  BY StreamsAreTold
<1> QED
  BY <1>1, <1>2, StreamInit, PTL DEF Spec, ImplementsBlockingSockets, Promised!Spec
=============================================================================
