----------------------------- MODULE SocketProofs -----------------------------
(***************************************************************************)
(* Theorems about the socket service for any sets of objects, descriptors  *)
(* and threads, streams and datagrams.                                     *)
(*                                                                         *)
(* The properties are consequences of SocketInv of SocketInvariant.  The   *)
(* actions are sorted by what they do to a call, an object and the kernel  *)
(* (first part); one lemma for each sort shows that Ownership is kept and  *)
(* that no descriptor is lost (second part); what an action does to the    *)
(* fate of a connection comes last.                                        *)
(***************************************************************************)
EXTENDS SocketInvariant, FiniteSetTheorems, TLAPS

-----------------------------------------------------------------------------
(* Types.                                                                    *)

CallType == [op : Operations, obj : Sockets \cup {NoSocket}, peer : Sockets \cup {NoSocket},
             s : Fds \cup {NoFd}, user : BOOLEAN, stream : BOOLEAN, empty : BOOLEAN,
             at : Steps, ec : Results]

ImplType == [socket : Fds \cup {NoFd}, state : SUBSET Flags]

LEMMA ReturnedType == \A ec \in Results : Returned(ec) \in CallType
  BY DEF Returned, CallType, Steps, Operations

\* One thread's call changes.
LEMMA CallUpdate ==
    ASSUME NEW f \in [Threads -> CallType], NEW t \in Threads, NEW v \in CallType
    PROVE  LET g == [f EXCEPT ![t] = v] IN
           /\ g \in [Threads -> CallType]
           /\ g[t] = v
           /\ \A u \in Threads \ {t} : g[u] = f[u]
  OBVIOUS

\* The result a call leaves.
LEMMA LeaveEffect ==
    ASSUME call \in [Threads -> CallType], NEW t \in Threads, NEW ec \in Results, Leave(t, ec)
    PROVE  /\ call' \in [Threads -> CallType]
           /\ call'[t] = Returned(ec)
           /\ \A u \in Threads \ {t} : call'[u] = call[u]
  BY ReturnedType, CallUpdate DEF Leave

\* The next step of a call.
LEMMA GoOnEffect ==
    ASSUME call \in [Threads -> CallType], NEW t \in Threads, NEW step \in Steps, GoOn(t, step)
    PROVE  /\ call' \in [Threads -> CallType]
           /\ call'[t] = [call[t] EXCEPT !.at = step]
           /\ \A u \in Threads \ {t} : call'[u] = call[u]
  BY DEF GoOn, CallType

\* The call a thread enters.
LEMMA EnterEffect ==
    ASSUME call \in [Threads -> CallType],
           impl \in [Sockets -> ImplType],
           NEW t \in Threads, NEW op \in Operations, NEW o \in Sockets, NEW p \in Sockets,
           NEW step \in Steps, NEW empty \in BOOLEAN, Enter(t, op, o, p, step, empty)
    PROVE  /\ call' \in [Threads -> CallType]
           /\ call'[t] = [op |-> op, obj |-> o, peer |-> p, s |-> impl[o].socket,
                          user |-> "user" \in impl[o].state,
                          stream |-> "stream" \in impl[o].state,
                          empty |-> empty, at |-> step, ec |-> "ok"]
           /\ \A u \in Threads \ {t} : call'[u] = call[u]
<1>1. "ok" \in Results
  BY DEF Results, Codes
<1> DEFINE entered == [op |-> op, obj |-> o, peer |-> p, s |-> impl[o].socket,
                       user |-> "user" \in impl[o].state,
                       stream |-> "stream" \in impl[o].state,
                       empty |-> empty, at |-> step, ec |-> "ok"]
<1>2. entered \in CallType
  BY <1>1 DEF CallType, ImplType
<1> QED
  BY <1>2, CallUpdate DEF Enter

\* A descriptor that is given out or taken back.
LEMMA ResetEffect ==
    ASSUME KernelTypeOK, NEW f \in Fds, NEW state \in Links, NEW mode \in BOOLEAN,
           NEW lingers \in BOOLEAN, Reset(f, state, mode, lingers)
    PROVE  /\ KernelTypeOK'
           /\ link'[f] = state /\ nonblock'[f] = mode /\ linger'[f] = lingers
           /\ \A g \in Fds \ {f} : link'[g] = link[g] /\ nonblock'[g] = nonblock[g] /\ linger'[g] = linger[g]
  BY KernelAssumption DEF Reset, KernelTypeOK

LEMMA StateTypes ==
    /\ StateOK <=> KernelTypeOK /\ impl \in [Sockets -> ImplType] /\ call \in [Threads -> CallType]
    /\ StateOK' <=> KernelTypeOK' /\ impl' \in [Sockets -> ImplType] /\ call' \in [Threads -> CallType]
  BY DEF StateOK, CallType, ImplType

-----------------------------------------------------------------------------
(* Sorts of steps.                                                           *)

\* The kernel keeps the modes, and which descriptors are open and datagrams.
KernelQuiet ==
    /\ KernelTypeOK'
    /\ UNCHANGED <<nonblock, linger>>
    /\ \A f \in Fds : /\ link'[f] = "closed" <=> link[f] = "closed"
                      /\ link'[f] = "datagram" <=> link[f] = "datagram"

\* A call ends, none of those that close.
Ends(t) ==
    /\ KernelQuiet /\ UNCHANGED impl
    /\ call[t].op \notin Closing
    /\ \E ec \in Results : Leave(t, ec)

\* A call that waits goes on.
Continues(t) ==
    /\ KernelQuiet /\ UNCHANGED impl
    /\ call[t].op \in Waiting
    /\ \E step \in {"try", "poll", "soError"} :
          GoOn(t, step) /\ (step = "soError" => call[t].op = "connect")

\* A call begins.
Begins(t) ==
    /\ UNCHANGED <<kernelVars, impl>>
    /\ Idle(t)
    /\ \E op \in Waiting \cup Closing, o \in Sockets, p \in Sockets, step \in Steps, empty \in BOOLEAN :
          /\ Enter(t, op, o, p, step, empty)
          /\ op \in Changing => ~Busy(o) /\ ~Busy(p)
          /\ op \in {"accept", "moveAssign"} <=> o # p
          /\ op = "accept" => impl[p].socket = NoFd
          /\ IF impl[o].socket = NoFd THEN op \in Closing /\ step = "forget"
             ELSE \/ op \in Waiting /\ step \in {"try", "await"}
                  \/ /\ op \in Closing /\ step \in {"linger", "close"}
                     /\ step = "close" /\ op # "close" => "linger" \notin impl[o].state

\* Object o, which has no descriptor and is in no call any more, gets the free
\* number f.
Gives(o, f) ==
    /\ impl[o].socket = NoFd /\ link[f] = "closed"
    /\ \E kind \in {"stream", "datagram"}, state \in Links \ {"closed"},
          mode \in BOOLEAN, lingers \in BOOLEAN, dup \in SUBSET {"dup"} :
          /\ Reset(f, state, mode, lingers)
          /\ kind = "stream" => state # "datagram"
          /\ dup = {} => ~mode /\ ~lingers
          /\ impl' = [impl EXCEPT ![o] = [socket |-> f, state |-> {kind} \cup dup]]
    /\ \/ UNCHANGED call
       \/ \E t \in Threads : call[t].op \notin Closing /\ \E ec \in Results : Leave(t, ec)
    /\ ~Busy(o)'

\* The mode or the linger option of an object changes with its flags.
Adjusts(o) ==
    /\ ~Busy(o) /\ impl[o].socket \in Fds
    /\ UNCHANGED call /\ KernelTypeOK'
    /\ \A f \in Fds :
          /\ link'[f] = "closed" <=> link[f] = "closed"
          /\ link'[f] = "datagram" <=> link[f] = "datagram"
          /\ f # impl[o].socket => nonblock'[f] = nonblock[f] /\ linger'[f] = linger[f]
    /\ \E flags \in SUBSET Flags, f \in Fds :
          /\ f = impl[o].socket
          /\ impl' = [impl EXCEPT ![o].state = flags]
          /\ \A flag \in {"stream", "dup"} : flag \in flags <=> flag \in impl[o].state
          /\ linger'[f] => "linger" \in flags \/ (linger[f] /\ "linger" \notin impl[o].state)
          /\ NonBlocking \cap flags # {} => nonblock'[f]
          /\ nonblock'[f] => \/ NonBlocking \cap flags # {}
                             \/ nonblock[f] /\ NonBlocking \cap impl[o].state = {}

\* What is shown of every step.
Keeps == Ownership' /\ (NoDescriptorLost => NoDescriptorLost')

-----------------------------------------------------------------------------
(* Each sort of step keeps the ownership of descriptors.                     *)

LEMMA ClosingChanges == Closing \subseteq Changing /\ {"connect", "accept"} \subseteq Changing
  BY DEF Changing

\* As long as the objects of open descriptors, the modes and the owners stay, what is
\* said of owners does; an end of lingering does no harm.
LEMMA ObjectsKept ==
    ASSUME Ownership,
           \A f \in Fds : /\ link'[f] = "closed" <=> link[f] = "closed"
                          /\ link'[f] = "datagram" <=> link[f] = "datagram"
                          /\ nonblock'[f] = nonblock[f]
                          /\ linger'[f] => linger[f],
           \A f \in Fds : Owners(f)' = Owners(f) /\ \A o \in Owners(f) : impl'[o] = impl[o]
    PROVE  /\ OwnersApart' /\ FlagsTell' /\ ModeIsKnown'
           /\ NoDescriptorLost => NoDescriptorLost'
<1>1. OwnersApart'
  BY DEF Ownership, OwnersApart
<1>2. FlagsTell'
  <2>1. ASSUME NEW f \in Fds, NEW o \in Owners(f)'
        PROVE  /\ linger'[f] /\ "dup" \notin impl'[o].state => "linger" \in impl'[o].state
               /\ "stream" \in impl'[o].state => link'[f] # "datagram"
    <3>1. o \in Owners(f) /\ impl'[o] = impl[o]
      BY <2>1
    <3> QED
      BY <3>1 DEF Ownership, FlagsTell
  <2> QED
    BY <2>1 DEF FlagsTell
<1>3. ModeIsKnown'
  <2>1. ASSUME NEW f \in Fds, NEW o \in Owners(f)'
        PROVE  /\ NonBlocking \cap impl'[o].state # {} => nonblock'[f]
               /\ nonblock'[f] /\ "dup" \notin impl'[o].state => NonBlocking \cap impl'[o].state # {}
    <3>1. o \in Owners(f) /\ impl'[o] = impl[o]
      BY <2>1
    <3> QED
      BY <3>1 DEF Ownership, ModeIsKnown
  <2> QED
    BY <2>1 DEF ModeIsKnown
<1>4. NoDescriptorLost => NoDescriptorLost'
  BY DEF NoDescriptorLost
<1> QED
  BY <1>1, <1>2, <1>3, <1>4

\* Owners change only where an object, or a call about to forget one, does.
LEMMA SameOwners ==
    ASSUME UNCHANGED impl, \A o \in Sockets : impl[o].socket # NoFd => (Forgetting(o)' <=> Forgetting(o))
    PROVE  \A f \in Fds : Owners(f)' = Owners(f)
  BY KernelAssumption DEF Owners

\* A step that leaves the calls alone.
LEMMA QuietKeeps ==
    ASSUME Ownership, KernelQuiet, UNCHANGED <<impl, call>>
    PROVE  Keeps
<1>1. \A f \in Fds : Owners(f)' = Owners(f)
  BY DEF Owners, Forgetting
<1>2. StateOK' /\ StepsKnown' /\ Exclusive' /\ InHand' /\ CloseReady'
  BY DEF Ownership, KernelQuiet, StateOK, StepsKnown, Exclusive, Concerns, InHand, HasInHand, CloseReady, ReadyToClose
<1> QED
  BY <1>1, <1>2, ObjectsKept DEF Keeps, Ownership, KernelQuiet

LEMMA EndsKeeps ==
    ASSUME Ownership, NEW t \in Threads, Ends(t)
    PROVE  Keeps
<1> PICK ec \in Results : Leave(t, ec)
  BY DEF Ends
<1>1. /\ call' \in [Threads -> CallType] /\ call'[t] = Returned(ec)
      /\ \A u \in Threads \ {t} : call'[u] = call[u]
  BY LeaveEffect, StateTypes DEF Ownership
<1>2. call'[t].op = "none" /\ call'[t].at = "returned"
  BY <1>1 DEF Returned
<1>3. "none" \notin Waiting \cup Closing \cup Changing /\ "returned" \notin ClosingSteps
  BY DEF Waiting, Closing, Changing, Receiving, Sending, ClosingSteps
<1>4. StateOK'
  BY <1>1, StateTypes DEF Ends, KernelQuiet, Ownership
<1>5. StepsKnown'
  <2>1. StepKnown(call'[t])
    BY <1>2, <1>3 DEF StepKnown
  <2> QED
    BY <1>1, <2>1 DEF Ownership, StepsKnown
<1>6. Exclusive'
  BY <1>1, <1>2, <1>3 DEF Ownership, Exclusive, Concerns
<1>7. InHand' /\ CloseReady'
  BY <1>1, <1>2, <1>3 DEF Ownership, InHand, HasInHand, CloseReady, ReadyToClose, Ends, KernelQuiet
<1>8. \A o \in Sockets : Forgetting(o)' <=> Forgetting(o)
  <2>1. call[t].at # "forget"
    BY DEF Ends, Ownership, StepsKnown, StepKnown, ClosingSteps
  <2> QED
    BY <1>1, <1>2, <2>1 DEF Forgetting
<1> QED
  BY <1>4, <1>5, <1>6, <1>7, <1>8, SameOwners, ObjectsKept DEF Ends, Keeps, Ownership, KernelQuiet

LEMMA ContinuesKeeps ==
    ASSUME Ownership, NEW t \in Threads, Continues(t)
    PROVE  Keeps
<1> PICK step \in {"try", "poll", "soError"} :
            GoOn(t, step) /\ (step = "soError" => call[t].op = "connect")
  BY DEF Continues
<1>1. /\ call' \in [Threads -> CallType] /\ call'[t] = [call[t] EXCEPT !.at = step]
      /\ \A u \in Threads \ {t} : call'[u] = call[u]
  BY GoOnEffect, StateTypes, ZenonT(30) DEF Ownership, Steps
<1>2. /\ call'[t].op = call[t].op /\ call'[t].obj = call[t].obj /\ call'[t].peer = call[t].peer
      /\ call'[t].s = call[t].s /\ call'[t].at = step
  BY <1>1, StateTypes DEF Ownership, CallType
<1>3. call[t].op \in Waiting /\ call[t].op \notin Closing /\ step \notin ClosingSteps /\ step # "returned"
  BY DEF Continues, Waiting, Closing, Receiving, Sending, ClosingSteps
<1>4. StateOK'
  BY <1>1, StateTypes DEF Continues, KernelQuiet, Ownership
<1>5. StepsKnown'
  <2>1. StepKnown(call'[t])
    BY <1>2, <1>3 DEF Ownership, StepsKnown, StepKnown
  <2> QED
    BY <1>1, <2>1 DEF Ownership, StepsKnown
<1>6. Exclusive'
  BY <1>1, <1>2, ZenonT(30) DEF Ownership, Exclusive, Concerns
<1>7. InHand'
  <2>1. call[t].at # "forget"
    BY <1>3 DEF Ownership, StepsKnown, StepKnown, ClosingSteps
  <2>2. HasInHand(call[t])'
    BY <1>2, <2>1 DEF Ownership, InHand, HasInHand, Continues
  <2>3. ASSUME NEW u \in Threads \ {t} PROVE HasInHand(call[u])'
    BY <1>1 DEF Ownership, InHand, HasInHand, Continues
  <2> QED
    BY <2>2, <2>3 DEF InHand
<1>8. CloseReady'
  <2>1. ReadyToClose(call[t])'
    BY <1>2, <1>3 DEF ReadyToClose, Closing, ClosingSteps
  <2>2. ASSUME NEW u \in Threads \ {t} PROVE ReadyToClose(call[u])'
    BY <1>1 DEF Ownership, CloseReady, ReadyToClose, Continues, KernelQuiet
  <2> QED
    BY <2>1, <2>2 DEF CloseReady
<1>9. \A o \in Sockets : Forgetting(o)' <=> Forgetting(o)
  <2>1. call[t].at # "forget" /\ call'[t].at # "forget"
    BY <1>2, <1>3 DEF Ownership, StepsKnown, StepKnown, ClosingSteps
  <2> QED
    BY <1>1, <2>1 DEF Forgetting
<1> QED
  BY <1>4, <1>5, <1>6, <1>7, <1>8, <1>9, SameOwners, ObjectsKept DEF Continues, Keeps, Ownership, KernelQuiet

\* An object in no call that changes it owns what it has.
LEMMA FreeOwns ==
    ASSUME Ownership, NEW o \in Sockets, ~Busy(o)
    PROVE  /\ ~Forgetting(o)
           /\ \A f \in Fds : impl[o].socket = f => o \in Owners(f)
           /\ \A t \in Threads : ~Concerns(t, o)
<1>1. \A t \in Threads : ~Concerns(t, o)
  BY DEF Busy, Concerns
<1>2. ~Forgetting(o)
  BY <1>1, ClosingChanges DEF Forgetting, Ownership, StepsKnown, StepKnown, ClosingSteps, Concerns
<1> QED
  BY <1>1, <1>2 DEF Owners

LEMMA BeginsKeeps ==
    ASSUME Ownership, NEW t \in Threads, Begins(t)
    PROVE  Keeps
<1> PICK op \in Waiting \cup Closing, o \in Sockets, p \in Sockets, step \in Steps, empty \in BOOLEAN :
          /\ Enter(t, op, o, p, step, empty)
          /\ op \in Changing => ~Busy(o) /\ ~Busy(p)
          /\ op \in {"accept", "moveAssign"} <=> o # p
          /\ op = "accept" => impl[p].socket = NoFd
          /\ IF impl[o].socket = NoFd THEN op \in Closing /\ step = "forget"
             ELSE \/ op \in Waiting /\ step \in {"try", "await"}
                  \/ /\ op \in Closing /\ step \in {"linger", "close"}
                     /\ step = "close" /\ op # "close" => "linger" \notin impl[o].state
  BY DEF Begins
<1>1. /\ call' \in [Threads -> CallType]
      /\ call'[t] = [op |-> op, obj |-> o, peer |-> p, s |-> impl[o].socket,
                     user |-> "user" \in impl[o].state, stream |-> "stream" \in impl[o].state,
                     empty |-> empty, at |-> step, ec |-> "ok"]
      /\ \A u \in Threads \ {t} : call'[u] = call[u]
  BY EnterEffect, StateTypes DEF Ownership, Operations
<1>2. /\ call'[t].op = op /\ call'[t].obj = o /\ call'[t].peer = p
      /\ call'[t].s = impl[o].socket /\ call'[t].at = step
  BY <1>1
<1>3. UNCHANGED <<kernelVars, impl>> /\ call[t].at = "returned"
  BY DEF Begins, Idle
<1>4. KernelQuiet
  BY <1>3 DEF KernelQuiet, Ownership, StateOK, KernelTypeOK, kernelVars
<1>5. StateOK'
  BY <1>1, <1>3, <1>4, StateTypes DEF KernelQuiet, Ownership
<1>6. /\ op \in Waiting => op \notin Closing
      /\ step \in {"try", "await"} => step \notin ClosingSteps /\ step # "returned" /\ step # "soError"
      /\ step \in {"linger", "close", "forget"} => step \in ClosingSteps /\ step # "returned" /\ step # "soError"
  BY DEF Waiting, Closing, Receiving, Sending, ClosingSteps
<1>7. StepsKnown'
  <2>1. StepKnown(call[t])'
    BY <1>2, <1>6 DEF StepKnown
  <2>2. ASSUME NEW u \in Threads \ {t} PROVE StepKnown(call[u])'
    BY <1>1 DEF Ownership, StepsKnown, StepKnown
  <2> QED
    BY <2>1, <2>2 DEF StepsKnown
<1>8. Exclusive'
  <2>1. ASSUME NEW q \in Sockets, Concerns(t, q)' PROVE ~\E u \in Threads \ {t} : Concerns(u, q)'
    BY <2>1, <1>1, <1>2, FreeOwns DEF Concerns
  <2> QED
    BY <2>1, <1>1 DEF Ownership, Exclusive, Concerns
<1>9. InHand'
  <2>1. HasInHand(call[t])'
    BY <1>2, <1>3, <1>5, StateTypes DEF HasInHand, ImplType
  <2>2. ASSUME NEW u \in Threads \ {t} PROVE HasInHand(call[u])'
    BY <1>1, <1>3 DEF Ownership, InHand, HasInHand
  <2> QED
    BY <2>1, <2>2 DEF InHand
<1>10. CloseReady'
  <2>1. ReadyToClose(call[t])'
    <3>1. step # "reclose" /\ step # "unblock"
      OBVIOUS
    <3>2. CASE op \in {"destroy", "moveAssign"} /\ step = "close"
      <4>1. op \in Changing /\ "linger" \notin impl[o].state /\ impl[o].socket \in Fds
        BY <3>2, <1>6, StateTypes DEF Changing, Closing, Ownership, ImplType
      <4>2. o \in Owners(impl[o].socket)
        BY <4>1, FreeOwns
      <4>3. ~linger[impl[o].socket] \/ "dup" \in impl[o].state
        BY <4>1, <4>2 DEF Ownership, FlagsTell
      <4> QED
        BY <1>2, <1>3, <3>1, <4>3 DEF ReadyToClose, kernelVars
    <3> QED
      BY <1>2, <3>1, <3>2 DEF ReadyToClose
  <2>2. ASSUME NEW u \in Threads \ {t} PROVE ReadyToClose(call[u])'
    BY <1>1, <1>3 DEF Ownership, CloseReady, ReadyToClose, kernelVars
  <2> QED
    BY <2>1, <2>2 DEF CloseReady
<1>11. \A q \in Sockets : impl[q].socket # NoFd => (Forgetting(q)' <=> Forgetting(q))
  <2>1. ASSUME NEW q \in Sockets, impl[q].socket # NoFd
        PROVE  ~(call[t].at = "forget" /\ call[t].obj = q) /\ ~(call'[t].at = "forget" /\ call'[t].obj = q)
    BY <2>1, <1>2, <1>3
  <2> QED
    BY <1>1, <2>1 DEF Forgetting
<1> QED
  BY <1>3, <1>4, <1>5, <1>7, <1>8, <1>9, <1>10, <1>11, SameOwners, ObjectsKept DEF Keeps, Ownership, KernelQuiet

\* The object of a call that changes it owns the descriptor in hand.
LEMMA InHandOwns ==
    ASSUME Ownership, NEW t \in Threads, call[t].op \in Changing, call[t].at # "forget"
    PROVE  /\ call[t].obj \in Sockets /\ call[t].s \in Fds
           /\ call[t].s = impl[call[t].obj].socket
           /\ ~Forgetting(call[t].obj)
           /\ call[t].obj \in Owners(call[t].s)
           /\ link[call[t].s] # "closed"
<1>1. Changing \subseteq Waiting \cup Closing
  BY DEF Changing, Waiting
<1>2. call[t].obj \in Sockets /\ call[t].s \in Fds /\ call[t].s = impl[call[t].obj].socket
  BY <1>1 DEF Ownership, InHand, HasInHand, StepsKnown, StepKnown
<1>3. ASSUME NEW u \in Threads, call[u].at = "forget", call[u].obj = call[t].obj PROVE FALSE
  <2>1. Concerns(u, call[t].obj) /\ Concerns(t, call[t].obj)
    BY <1>3, ClosingChanges DEF Concerns, Ownership, StepsKnown, StepKnown, ClosingSteps
  <2> QED
    BY <2>1, <1>2, <1>3 DEF Ownership, Exclusive
<1> QED
  BY <1>2, <1>3 DEF Forgetting, Owners, Ownership, OwnersApart

LEMMA GivesKeeps ==
    ASSUME Ownership, NEW o \in Sockets, NEW f \in Fds, Gives(o, f)
    PROVE  Keeps
<1> PICK kind \in {"stream", "datagram"}, state \in Links \ {"closed"},
         mode \in BOOLEAN, lingers \in BOOLEAN, dup \in SUBSET {"dup"} :
            /\ Reset(f, state, mode, lingers)
            /\ kind = "stream" => state # "datagram"
            /\ dup = {} => ~mode /\ ~lingers
            /\ impl' = [impl EXCEPT ![o] = [socket |-> f, state |-> {kind} \cup dup]]
  BY DEF Gives
<1>t. KernelTypeOK /\ impl \in [Sockets -> ImplType] /\ call \in [Threads -> CallType]
  BY StateTypes DEF Ownership
<1>1. /\ call' \in [Threads -> CallType]
      /\ \A u \in Threads : \/ call'[u] = call[u]
                            \/ /\ call'[u].op = "none" /\ call'[u].at = "returned"
                               /\ call[u].op \notin Closing
  <2>1. CASE UNCHANGED call
    BY <2>1, <1>t
  <2>2. ASSUME NEW t \in Threads, call[t].op \notin Closing, NEW ec \in Results, Leave(t, ec)
        PROVE  <1>1!1 /\ <1>1!2
    <3>1. /\ call' \in [Threads -> CallType] /\ call'[t] = Returned(ec)
          /\ \A u \in Threads \ {t} : call'[u] = call[u]
      BY <2>2, <1>t, LeaveEffect
    <3>2. call'[t].op = "none" /\ call'[t].at = "returned"
      BY <3>1 DEF Returned
    <3> QED
      BY <2>2, <3>1, <3>2
  <2> QED
    BY <2>1, <2>2 DEF Gives
<1>2. /\ KernelTypeOK'
      /\ link'[f] = state /\ nonblock'[f] = mode /\ linger'[f] = lingers
      /\ \A g \in Fds \ {f} : link'[g] = link[g] /\ nonblock'[g] = nonblock[g] /\ linger'[g] = linger[g]
  BY <1>t, ResetEffect
<1>3. /\ impl' \in [Sockets -> ImplType]
      /\ impl'[o] = [socket |-> f, state |-> {kind} \cup dup]
      /\ \A p \in Sockets \ {o} : impl'[p] = impl[p]
  BY <1>t DEF ImplType, Flags
<1>4. StateOK'
  BY <1>1, <1>2, <1>3, StateTypes
<1>5. "none" \notin Waiting \cup Closing \cup Changing /\ "returned" \notin ClosingSteps
  BY DEF Waiting, Closing, Changing, Receiving, Sending, ClosingSteps
<1>6. StepsKnown'
  <2>1. ASSUME NEW u \in Threads PROVE StepKnown(call[u])'
    BY <1>1, <1>5 DEF Ownership, StepsKnown, StepKnown
  <2> QED
    BY <2>1 DEF StepsKnown
<1>7. Exclusive'
  BY <1>1, <1>5 DEF Ownership, Exclusive, Concerns
<1>8. \A u \in Threads : call'[u].op \in Changing => call'[u] = call[u] /\ call[u].obj # o /\ call[u].peer # o
  BY <1>1, <1>5 DEF Gives, Busy
<1>9. InHand'
  <2>1. ASSUME NEW u \in Threads PROVE HasInHand(call[u])'
    <3>1. CASE call'[u].op \in Changing
      <4>1. call'[u] = call[u] /\ HasInHand(call[u])
        BY <3>1, <1>8 DEF Ownership, InHand
      <4>2. call[u].obj \in Sockets \ {o} /\ call[u].peer \in Sockets \ {o}
        BY <3>1, <1>8 DEF Ownership, StepsKnown, StepKnown, Changing, Waiting
      <4> QED
        BY <4>1, <4>2, <1>3 DEF HasInHand
    <3>2. CASE call'[u].op \notin Changing
      BY <3>2, ClosingChanges DEF HasInHand
    <3> QED
      BY <3>1, <3>2
  <2> QED
    BY <2>1 DEF InHand
<1>10. CloseReady'
  <2>1. ASSUME NEW u \in Threads, call'[u].at \in ClosingSteps \ {"forget"} PROVE ReadyToClose(call[u])'
    <3>1. call'[u].op \in Changing
      BY <2>1, <1>6, ClosingChanges DEF StepsKnown, StepKnown
    <3>2. call'[u] = call[u] /\ call[u].op \in Changing /\ call[u].at # "forget"
      BY <2>1, <3>1, <1>8
    <3>3. call[u].s \in Fds \ {f} /\ call[u].obj \in Sockets \ {o}
      BY <3>1, <3>2, <1>8, InHandOwns DEF Gives
    <3> QED
      BY <3>2, <3>3, <1>2, <1>3 DEF Ownership, CloseReady, ReadyToClose
  <2>2. ASSUME NEW u \in Threads, call'[u].at \notin ClosingSteps \ {"forget"} PROVE ReadyToClose(call[u])'
    BY <2>2 DEF ReadyToClose, ClosingSteps
  <2> QED
    BY <2>1, <2>2 DEF CloseReady
<1>11. \A q \in Sockets : Forgetting(q)' <=> Forgetting(q)
  <2>1. \A u \in Threads : call[u].op \notin Closing => call[u].at # "forget"
    BY DEF Ownership, StepsKnown, StepKnown, ClosingSteps
  <2> QED
    BY <1>1, <2>1 DEF Forgetting
<1>12. ~Forgetting(o)'
  <2>1. \A u \in Threads : call'[u].at = "forget" => call'[u].op \in Changing
    BY <1>6, ClosingChanges DEF StepsKnown, StepKnown, ClosingSteps
  <2> QED
    BY <2>1, <1>8 DEF Forgetting
<1>13. Owners(f)' = {o} /\ \A g \in Fds \ {f} : Owners(g)' = Owners(g)
  <2>1. Owners(f) = {}
    BY DEF Gives, Ownership, OwnersApart, Owners
  <2>2. \A q \in Sockets \ {o} : q \notin Owners(f)'
    BY <2>1, <1>3, <1>11 DEF Owners
  <2>3. o \in Owners(f)'
    BY <1>3, <1>12 DEF Owners
  <2>4. Owners(f)' = {o}
    BY <2>2, <2>3 DEF Owners
  <2>5. ASSUME NEW g \in Fds \ {f} PROVE Owners(g)' = Owners(g)
    BY <1>3, <1>11, KernelAssumption DEF Owners, Gives
  <2> QED
    BY <2>4, <2>5
<1>14. OwnersApart'
  <2>1. ASSUME NEW g \in Fds, NEW q \in Sockets, q \in Owners(g)'
        PROVE  link'[g] # "closed" /\ \A p \in Owners(g)' : p = q
    BY <2>1, <1>2, <1>13 DEF Ownership, OwnersApart
  <2> QED
    BY <2>1 DEF OwnersApart
<1>15. ASSUME NEW g \in Fds \ {f}, NEW q \in Owners(g)
       PROVE  impl'[q] = impl[q] /\ link'[g] = link[g] /\ nonblock'[g] = nonblock[g] /\ linger'[g] = linger[g]
  BY <1>2, <1>3, KernelAssumption DEF Owners, Gives
<1>16. FlagsTell'
  <2>1. ASSUME NEW g \in Fds, NEW q \in Owners(g)'
        PROVE  /\ linger'[g] /\ "dup" \notin impl'[q].state => "linger" \in impl'[q].state
               /\ "stream" \in impl'[q].state => link'[g] # "datagram"
    <3>1. CASE g = f
      BY <2>1, <3>1, <1>2, <1>3, <1>13
    <3>2. CASE g # f
      BY <2>1, <3>2, <1>13, <1>15 DEF Ownership, FlagsTell
    <3> QED
      BY <3>1, <3>2
  <2> QED
    BY <2>1 DEF FlagsTell
<1>17. ModeIsKnown'
  <2>1. ASSUME NEW g \in Fds, NEW q \in Owners(g)'
        PROVE  /\ NonBlocking \cap impl'[q].state # {} => nonblock'[g]
               /\ nonblock'[g] /\ "dup" \notin impl'[q].state => NonBlocking \cap impl'[q].state # {}
    <3>1. CASE g = f
      BY <2>1, <3>1, <1>2, <1>3, <1>13 DEF NonBlocking
    <3>2. CASE g # f
      BY <2>1, <3>2, <1>13, <1>15 DEF Ownership, ModeIsKnown
    <3> QED
      BY <3>1, <3>2
  <2> QED
    BY <2>1 DEF ModeIsKnown
<1>18. NoDescriptorLost => NoDescriptorLost'
  BY <1>2, <1>13 DEF NoDescriptorLost
<1> QED
  BY <1>4, <1>6, <1>7, <1>9, <1>10, <1>14, <1>16, <1>17, <1>18 DEF Keeps, Ownership

LEMMA AdjustsKeeps ==
    ASSUME Ownership, NEW o \in Sockets, Adjusts(o)
    PROVE  Keeps
<1> PICK flags \in SUBSET Flags, f \in Fds :
          /\ f = impl[o].socket
          /\ impl' = [impl EXCEPT ![o].state = flags]
          /\ \A flag \in {"stream", "dup"} : flag \in flags <=> flag \in impl[o].state
          /\ linger'[f] => "linger" \in flags \/ (linger[f] /\ "linger" \notin impl[o].state)
          /\ NonBlocking \cap flags # {} => nonblock'[f]
          /\ nonblock'[f] => \/ NonBlocking \cap flags # {}
                             \/ nonblock[f] /\ NonBlocking \cap impl[o].state = {}
  BY DEF Adjusts
<1>t. impl \in [Sockets -> ImplType] /\ call \in [Threads -> CallType]
  BY StateTypes DEF Ownership
<1>1. /\ impl' \in [Sockets -> ImplType]
      /\ impl'[o].socket = impl[o].socket /\ impl'[o].state = flags
      /\ \A p \in Sockets \ {o} : impl'[p] = impl[p]
  BY <1>t DEF ImplType
<1>2. StateOK'
  BY <1>1, <1>t, StateTypes DEF Adjusts
<1>3. StepsKnown' /\ Exclusive' /\ InHand'
  <2>1. \A p \in Sockets : impl'[p].socket = impl[p].socket
    BY <1>1
  <2>2. \A t \in Threads : call[t].op \in Changing => call[t].obj \in Sockets /\ call[t].peer \in Sockets
    BY DEF Ownership, StepsKnown, StepKnown, Changing, Waiting
  <2>3. ASSUME NEW t \in Threads PROVE HasInHand(call[t])'
    <3>1. HasInHand(call[t]) /\ call' = call
      BY DEF Ownership, InHand, Adjusts
    <3> QED
      BY <3>1, <2>1, <2>2 DEF HasInHand, Changing
  <2> QED
    BY <2>3 DEF Ownership, StepsKnown, StepKnown, Exclusive, Concerns, InHand, Adjusts
<1>4. \A g \in Fds : Owners(g)' = Owners(g)
  BY <1>1 DEF Owners, Forgetting, Adjusts
<1>5. /\ o \in Owners(f)
      /\ \A g \in Fds \ {f}, q \in Sockets : q \in Owners(g) => q # o
  BY FreeOwns DEF Adjusts, Owners
<1>6. ASSUME NEW g \in Fds \ {f}, NEW q \in Owners(g)
      PROVE  impl'[q] = impl[q] /\ nonblock'[g] = nonblock[g] /\ linger'[g] = linger[g]
  BY <1>1, <1>5 DEF Adjusts, Owners
<1>7. CloseReady'
  <2>1. ASSUME NEW u \in Threads, call[u].at \in ClosingSteps \ {"forget"} PROVE ReadyToClose(call[u])'
    <3>1. call[u].op \in Changing
      BY <2>1, ClosingChanges DEF Ownership, StepsKnown, StepKnown
    <3>2. call[u].obj \in Sockets \ {o} /\ call[u].obj \in Owners(call[u].s) /\ call[u].s \in Fds
      BY <2>1, <3>1, InHandOwns DEF Adjusts, Busy
    <3>3. call[u].s # f
      BY <3>2, <1>5 DEF Ownership, OwnersApart
    <3>4. ReadyToClose(call[u]) /\ call' = call
      BY DEF Ownership, CloseReady, Adjusts
    <3> QED
      BY <3>2, <3>3, <3>4, <1>6 DEF ReadyToClose
  <2>2. ASSUME NEW u \in Threads, call[u].at \notin ClosingSteps \ {"forget"} PROVE ReadyToClose(call[u])'
    BY <2>2 DEF ReadyToClose, ClosingSteps, Adjusts
  <2> QED
    BY <2>1, <2>2 DEF CloseReady
<1>8. OwnersApart'
  BY <1>4 DEF Ownership, OwnersApart, Adjusts
<1>9. FlagsTell'
  <2>1. ASSUME NEW g \in Fds, NEW q \in Owners(g)'
        PROVE  /\ linger'[g] /\ "dup" \notin impl'[q].state => "linger" \in impl'[q].state
               /\ "stream" \in impl'[q].state => link'[g] # "datagram"
    <3>1. CASE g = f
      <4>1. q = o
        BY <2>1, <3>1, <1>4, <1>5 DEF Ownership, OwnersApart, Owners
      <4>2. /\ linger[f] /\ "dup" \notin impl[o].state => "linger" \in impl[o].state
            /\ "stream" \in impl[o].state => link[f] # "datagram"
        BY <1>5 DEF Ownership, FlagsTell
      <4> QED
        BY <3>1, <4>1, <4>2, <1>1 DEF Adjusts
    <3>2. CASE g # f
      <4>1. g \in Fds \ {f} /\ q \in Owners(g) /\ q \in Sockets
        BY <2>1, <3>2, <1>4 DEF Owners
      <4>2. impl'[q] = impl[q] /\ nonblock'[g] = nonblock[g] /\ linger'[g] = linger[g]
        BY <4>1, <1>6
      <4> QED
        BY <4>1, <4>2 DEF Ownership, FlagsTell, Adjusts
    <3> QED
      BY <3>1, <3>2
  <2> QED
    BY <2>1 DEF FlagsTell
<1>10. ModeIsKnown'
  <2>1. ASSUME NEW g \in Fds, NEW q \in Owners(g)'
        PROVE  /\ NonBlocking \cap impl'[q].state # {} => nonblock'[g]
               /\ nonblock'[g] /\ "dup" \notin impl'[q].state => NonBlocking \cap impl'[q].state # {}
    <3>1. CASE g = f
      <4>1. q = o
        BY <2>1, <3>1, <1>4, <1>5 DEF Ownership, OwnersApart, Owners
      <4>2. nonblock[f] /\ "dup" \notin impl[o].state => NonBlocking \cap impl[o].state # {}
        BY <1>5 DEF Ownership, ModeIsKnown
      <4> QED
        BY <3>1, <4>1, <4>2, <1>1
    <3>2. CASE g # f
      <4>1. g \in Fds \ {f} /\ q \in Owners(g) /\ q \in Sockets
        BY <2>1, <3>2, <1>4 DEF Owners
      <4>2. impl'[q] = impl[q] /\ nonblock'[g] = nonblock[g] /\ linger'[g] = linger[g]
        BY <4>1, <1>6
      <4> QED
        BY <4>1, <4>2 DEF Ownership, ModeIsKnown
    <3> QED
      BY <3>1, <3>2
  <2> QED
    BY <2>1 DEF ModeIsKnown
<1>11. NoDescriptorLost => NoDescriptorLost'
  BY <1>4 DEF NoDescriptorLost, Adjusts
<1> QED
  BY <1>2, <1>3, <1>7, <1>8, <1>9, <1>10, <1>11 DEF Keeps, Ownership

\* The next step of a closing call, which has the same object and descriptor in hand.
Advances(t, step) ==
    /\ call' \in [Threads -> CallType]
    /\ call'[t].op = call[t].op /\ call'[t].obj = call[t].obj /\ call'[t].peer = call[t].peer
    /\ call'[t].s = call[t].s /\ call'[t].at = step
    /\ \A u \in Threads \ {t} : call'[u] = call[u]

LEMMA AdvanceKeeps ==
    ASSUME Ownership, NEW t \in Threads, call[t].at \in ClosingSteps \ {"forget"},
           NEW step \in ClosingSteps, Advances(t, step),
           \A o \in Sockets : impl'[o].socket = impl[o].socket
    PROVE  /\ StepsKnown' /\ Exclusive' /\ InHand'
           /\ \A o \in Sockets : Forgetting(o)' <=> Forgetting(o) \/ (step = "forget" /\ o = call[t].obj)
<1> USE DEF Advances
<1>1. step # "returned" /\ step # "soError" /\ "returned" \notin ClosingSteps
  BY DEF ClosingSteps
<1>2. StepsKnown'
  <2>1. StepKnown(call[t])'
    BY <1>1 DEF Ownership, StepsKnown, StepKnown
  <2>2. ASSUME NEW u \in Threads \ {t} PROVE StepKnown(call[u])'
    BY DEF Ownership, StepsKnown, StepKnown
  <2> QED
    BY <2>1, <2>2 DEF StepsKnown
<1>3. Exclusive'
  BY DEF Ownership, Exclusive, Concerns
<1>4. InHand'
  <2>1. \A u \in Threads : call[u].op \in Changing => call[u].obj \in Sockets /\ call[u].peer \in Sockets
    BY DEF Ownership, StepsKnown, StepKnown, Changing, Waiting
  <2>2. ASSUME NEW u \in Threads PROVE HasInHand(call[u])'
    <3>1. /\ call'[u].op = call[u].op /\ call'[u].obj = call[u].obj /\ call'[u].peer = call[u].peer
          /\ call'[u].s = call[u].s
          /\ call'[u].at # "forget" => call[u].at # "forget"
      OBVIOUS
    <3>2. HasInHand(call[u])
      BY DEF Ownership, InHand
    <3> QED
      BY <3>1, <3>2, <2>1 DEF HasInHand, Changing
  <2> QED
    BY <2>2 DEF InHand
<1>5. \A o \in Sockets : Forgetting(o)' <=> Forgetting(o) \/ (step = "forget" /\ o = call[t].obj)
  BY DEF Forgetting
<1> QED
  BY <1>2, <1>3, <1>4, <1>5

LEMMA LingerOffKeeps ==
    ASSUME Ownership, NEW t \in Threads, LingerOff(t)
    PROVE  Keeps
<1> DEFINE f == call[t].s
<1>t. KernelTypeOK /\ impl \in [Sockets -> ImplType] /\ call \in [Threads -> CallType]
  BY StateTypes DEF Ownership
<1>1. call[t].at = "linger" /\ call[t].op \in Changing
  BY ClosingChanges DEF LingerOff, Ownership, StepsKnown, StepKnown, ClosingSteps
<1>2. f \in Fds /\ link[f] # "closed"
  BY <1>1, InHandOwns
<1>3. /\ UNCHANGED <<link, nonblock, inbox, fin, impl>>
      /\ linger' = [linger EXCEPT ![f] = FALSE]
  BY <1>2 DEF LingerOff, lkl_so_linger
<1>4. KernelTypeOK' /\ ~linger'[f] /\ \A g \in Fds : linger'[g] => linger[g]
  BY <1>t, <1>2, <1>3 DEF KernelTypeOK
<1>5. Advances(t, "close")
  <2>1. /\ call' \in [Threads -> CallType] /\ call'[t] = [call[t] EXCEPT !.at = "close"]
        /\ \A u \in Threads \ {t} : call'[u] = call[u]
    BY <1>t, GoOnEffect DEF LingerOff, Steps
  <2> QED
    BY <2>1, <1>t DEF Advances, CallType
<1>6. /\ StepsKnown' /\ Exclusive' /\ InHand'
      /\ \A o \in Sockets : Forgetting(o)' <=> Forgetting(o)
  BY <1>1, <1>3, <1>5, AdvanceKeeps DEF ClosingSteps
<1>7. StateOK'
  BY <1>t, <1>3, <1>4, <1>5, StateTypes DEF Advances
<1>8. CloseReady'
  <2>1. ReadyToClose(call[t])'
    BY <1>4, <1>5 DEF ReadyToClose, Advances
  <2>2. ASSUME NEW u \in Threads \ {t}, call[u].at \in ClosingSteps \ {"forget"}
        PROVE  ReadyToClose(call[u])'
    <3>1. call[u].s \in Fds /\ ReadyToClose(call[u]) /\ call'[u] = call[u]
      BY <2>2, <1>5, InHandOwns, ClosingChanges DEF Ownership, StepsKnown, StepKnown, CloseReady, Advances
    <3> QED
      BY <3>1, <1>3, <1>4 DEF ReadyToClose
  <2>3. ASSUME NEW u \in Threads \ {t}, call[u].at \notin ClosingSteps \ {"forget"}
        PROVE  ReadyToClose(call[u])'
    BY <2>3, <1>5 DEF ReadyToClose, ClosingSteps, Advances
  <2> QED
    BY <2>1, <2>2, <2>3 DEF CloseReady
<1> QED
  BY <1>3, <1>4, <1>6, <1>7, <1>8, SameOwners, ObjectsKept DEF Keeps, Ownership

\* What an answer of the kernel becomes.
LEMMA CodeOfAnswer == \A r \in Answers : ErrorCode(r.err) \in Codes
  BY DEF Answers, Success, Failure, Errors, ErrorCode, Codes

\* A close() that the kernel refused.
LEMMA CloseRefusedKeeps ==
    ASSUME Ownership, NEW t \in Threads, call[t].at = "close", UNCHANGED <<kernelVars, impl>>,
           Advances(t, "unblock")
    PROVE  Keeps
<1>1. KernelQuiet /\ StateOK'
  BY StateTypes DEF KernelQuiet, kernelVars, Ownership, StateOK, KernelTypeOK, Advances
<1>2. /\ StepsKnown' /\ Exclusive' /\ InHand'
      /\ \A o \in Sockets : Forgetting(o)' <=> Forgetting(o)
  BY AdvanceKeeps DEF ClosingSteps
<1>3. CloseReady'
  <2>1. ASSUME NEW u \in Threads PROVE ReadyToClose(call[u])'
    BY DEF ReadyToClose, Advances, kernelVars, Ownership, CloseReady
  <2> QED
    BY <2>1 DEF CloseReady
<1> QED
  BY <1>1, <1>2, <1>3, SameOwners, ObjectsKept DEF Keeps, Ownership, KernelQuiet

\* A close() that frees the number, which the object is then about to forget.
LEMMA ClosedKeeps ==
    ASSUME Ownership, NEW t \in Threads, call[t].at \in {"close", "reclose"},
           NEW f \in Fds, f = call[t].s, Reset(f, "closed", FALSE, FALSE), UNCHANGED impl,
           Advances(t, "forget")
    PROVE  Keeps
<1>t. KernelTypeOK /\ impl \in [Sockets -> ImplType] /\ call \in [Threads -> CallType]
  BY StateTypes DEF Ownership
<1>1. call[t].op \in Changing
  BY ClosingChanges DEF Ownership, StepsKnown, StepKnown, ClosingSteps
<1>2. /\ call[t].obj \in Owners(f) /\ impl[call[t].obj].socket = f
      /\ call[t].obj \in Sockets
  BY <1>1, InHandOwns
<1>3. /\ KernelTypeOK'
      /\ link'[f] = "closed"
      /\ \A g \in Fds \ {f} : link'[g] = link[g] /\ nonblock'[g] = nonblock[g] /\ linger'[g] = linger[g]
  <2>1. "closed" \in Links
    BY DEF Links
  <2> QED
    BY <1>t, <2>1, ResetEffect
<1>4. /\ StepsKnown' /\ Exclusive' /\ InHand'
      /\ \A o \in Sockets : Forgetting(o)' <=> Forgetting(o) \/ o = call[t].obj
  BY AdvanceKeeps DEF ClosingSteps
<1>5. StateOK'
  BY <1>t, <1>3, StateTypes DEF Advances
<1>6. Owners(f)' = {} /\ \A g \in Fds \ {f} : Owners(g)' = Owners(g)
  <2>1. \A o \in Sockets : impl[o].socket = f /\ ~Forgetting(o) => o = call[t].obj
    BY <1>2 DEF Ownership, OwnersApart, Owners
  <2>2. Owners(f)' = {}
    BY <2>1, <1>4 DEF Owners
  <2>3. \A g \in Fds \ {f} : Owners(g)' = Owners(g)
    BY <1>2, <1>4 DEF Owners
  <2> QED
    BY <2>2, <2>3
<1>7. CloseReady'
  <2>1. ReadyToClose(call[t])'
    BY DEF ReadyToClose, Advances
  <2>2. ASSUME NEW u \in Threads \ {t}, call[u].at \in ClosingSteps \ {"forget"}
        PROVE  ReadyToClose(call[u])'
    <3>1. call[u].op \in Changing /\ call'[u] = call[u] /\ ReadyToClose(call[u])
      BY <2>2, ClosingChanges DEF Ownership, StepsKnown, StepKnown, CloseReady, Advances
    <3>2. call[u].s \in Fds /\ call[u].obj \in Sockets /\ call[u].obj \in Owners(call[u].s)
      BY <2>2, <3>1, InHandOwns
    <3>3. call[u].obj # call[t].obj
      BY <1>1, <1>2, <3>1 DEF Ownership, Exclusive, Concerns
    <3>4. call[u].s # f
      BY <1>2, <3>2, <3>3 DEF Ownership, OwnersApart
    <3> QED
      BY <3>1, <3>2, <3>4, <1>3 DEF ReadyToClose
  <2>3. ASSUME NEW u \in Threads \ {t}, call[u].at \notin ClosingSteps \ {"forget"}
        PROVE  ReadyToClose(call[u])'
    BY <2>3 DEF ReadyToClose, ClosingSteps, Advances
  <2> QED
    BY <2>1, <2>2, <2>3 DEF CloseReady
<1>8. OwnersApart'
  <2>1. ASSUME NEW g \in Fds, NEW q \in Sockets, q \in Owners(g)'
        PROVE  link'[g] # "closed" /\ \A p \in Owners(g)' : p = q
    BY <2>1, <1>3, <1>6 DEF Ownership, OwnersApart
  <2> QED
    BY <2>1 DEF OwnersApart
<1>9. ASSUME NEW g \in Fds, NEW q \in Owners(g)'
      PROVE  /\ g \in Fds \ {f} /\ q \in Owners(g)
             /\ impl'[q] = impl[q] /\ link'[g] = link[g] /\ nonblock'[g] = nonblock[g] /\ linger'[g] = linger[g]
  BY <1>9, <1>3, <1>6
<1>10. FlagsTell'
  <2>1. ASSUME NEW g \in Fds, NEW q \in Owners(g)'
        PROVE  /\ linger'[g] /\ "dup" \notin impl'[q].state => "linger" \in impl'[q].state
               /\ "stream" \in impl'[q].state => link'[g] # "datagram"
    BY <2>1, <1>9 DEF Ownership, FlagsTell
  <2> QED
    BY <2>1 DEF FlagsTell
<1>11. ModeIsKnown'
  <2>1. ASSUME NEW g \in Fds, NEW q \in Owners(g)'
        PROVE  /\ NonBlocking \cap impl'[q].state # {} => nonblock'[g]
               /\ nonblock'[g] /\ "dup" \notin impl'[q].state => NonBlocking \cap impl'[q].state # {}
    BY <2>1, <1>9 DEF Ownership, ModeIsKnown
  <2> QED
    BY <2>1 DEF ModeIsKnown
<1>12. NoDescriptorLost => NoDescriptorLost'
  BY <1>3, <1>6 DEF NoDescriptorLost
<1> QED
  BY <1>4, <1>5, <1>7, <1>8, <1>10, <1>11, <1>12 DEF Keeps, Ownership

LEMMA CloseDescriptorKeeps ==
    ASSUME Ownership, NEW t \in Threads, CloseDescriptor(t)
    PROVE  Keeps
<1>t. call \in [Threads -> CallType]
  BY StateTypes DEF Ownership
<1>1. PICK r \in Answers :
        /\ lkl_close(call[t].s, r)
        /\ call' = [call EXCEPT
                      ![t].at = IF @ = "close" /\ r.err = "wouldBlock" THEN "unblock" ELSE "forget",
                      ![t].ec = ErrorCode(r.err)]
  BY DEF CloseDescriptor
<1>2. call[t].at \in {"close", "reclose"} /\ UNCHANGED impl
  BY DEF CloseDescriptor
<1>3. call[t].op \in Changing
  BY <1>2, ClosingChanges DEF Ownership, StepsKnown, StepKnown, ClosingSteps
<1>4. link[call[t].s] # "closed" /\ call[t].s \in Fds
  BY <1>2, <1>3, InHandOwns
<1>5. ErrorCode(r.err) \in Results
  BY CodeOfAnswer DEF Results
<1>6. ASSUME NEW step \in {"unblock", "forget"},
             step = IF call[t].at = "close" /\ r.err = "wouldBlock" THEN "unblock" ELSE "forget"
      PROVE  Advances(t, step)
  <2> DEFINE next == [call[t] EXCEPT !.at = step, !.ec = ErrorCode(r.err)]
  <2>1. next \in CallType
    BY <1>t, <1>5 DEF CallType, Steps
  <2>2. call' = [call EXCEPT ![t] = next]
    BY <1>1, <1>6, <1>t DEF CallType
  <2>3. call' \in [Threads -> CallType] /\ call'[t] = next /\ \A u \in Threads \ {t} : call'[u] = call[u]
    BY <1>t, <2>1, <2>2, CallUpdate
  <2> QED
    BY <1>t, <2>3 DEF Advances, CallType
<1>7. CASE Reset(call[t].s, "closed", FALSE, FALSE) /\ (r = Success(0) \/ Trouble(r))
  <2>1. r.err # "wouldBlock"
    BY <1>7 DEF Success, Trouble, Failure
  <2> QED
    BY <1>2, <1>4, <1>6, <1>7, <2>1, ClosedKeeps
<1>8. CASE nonblock[call[t].s] /\ r = Failure("wouldBlock") /\ UNCHANGED kernelVars
  <2>1. call[t].at = "close" /\ r.err = "wouldBlock"
    BY <1>2, <1>8 DEF Failure, Ownership, CloseReady, ReadyToClose
  <2> QED
    BY <1>2, <1>6, <1>8, <2>1, CloseRefusedKeeps
<1> QED
  BY <1>1, <1>4, <1>7, <1>8 DEF lkl_close

LEMMA UnblockKeeps ==
    ASSUME Ownership, NEW t \in Threads, Unblock(t)
    PROVE  Keeps
<1>t. KernelTypeOK /\ impl \in [Sockets -> ImplType] /\ call \in [Threads -> CallType]
  BY StateTypes DEF Ownership
<1>1. call[t].at = "unblock" /\ call[t].op \in Changing
  BY ClosingChanges DEF Unblock, Ownership, StepsKnown, StepKnown, ClosingSteps
<1> PICK f \in Fds, o \in Sockets :
           f = call[t].s /\ o = call[t].obj /\ link[f] # "closed" /\ o \in Owners(f)
  BY <1>1, InHandOwns
<1>2. /\ UNCHANGED <<link, linger, inbox, fin>>
      /\ nonblock' = [nonblock EXCEPT ![f] = FALSE]
      /\ impl' = [impl EXCEPT ![o].state = @ \ NonBlocking]
  BY DEF Unblock, lkl_fionbio
<1>3. /\ KernelTypeOK' /\ ~nonblock'[f]
      /\ \A g \in Fds \ {f} : nonblock'[g] = nonblock[g]
  BY <1>t, <1>2 DEF KernelTypeOK
<1>4. /\ impl' \in [Sockets -> ImplType]
      /\ impl'[o].socket = impl[o].socket /\ impl'[o].state = impl[o].state \ NonBlocking
      /\ \A q \in Sockets \ {o} : impl'[q] = impl[q]
  BY <1>t, <1>2 DEF ImplType
<1>5. Advances(t, "reclose")
  <2>1. /\ call' \in [Threads -> CallType] /\ call'[t] = [call[t] EXCEPT !.at = "reclose"]
        /\ \A u \in Threads \ {t} : call'[u] = call[u]
    BY <1>t, GoOnEffect DEF Unblock, Steps
  <2> QED
    BY <2>1, <1>t DEF Advances, CallType
<1>6. /\ StepsKnown' /\ Exclusive' /\ InHand'
      /\ \A q \in Sockets : Forgetting(q)' <=> Forgetting(q)
  BY <1>1, <1>4, <1>5, AdvanceKeeps DEF ClosingSteps
<1>7. StateOK'
  BY <1>3, <1>4, <1>5, StateTypes DEF Advances
<1>8. \A q \in Sockets : \A flag \in {"linger", "dup", "stream"} :
          flag \in impl'[q].state <=> flag \in impl[q].state
  BY <1>4 DEF NonBlocking
<1>9. CloseReady'
  <2>1. ReadyToClose(call[t])'
    BY <1>1, <1>2, <1>3, <1>5, <1>8 DEF ReadyToClose, Advances, Ownership, CloseReady
  <2>2. ASSUME NEW u \in Threads \ {t}, call[u].at \in ClosingSteps \ {"forget"}
        PROVE  ReadyToClose(call[u])'
    <3>1. /\ call[u].s \in Fds /\ call[u].obj \in Sockets
          /\ ReadyToClose(call[u]) /\ call'[u] = call[u]
      BY <2>2, <1>5, InHandOwns, ClosingChanges DEF Ownership, StepsKnown, StepKnown, CloseReady, Advances
    <3> QED
      BY <3>1, <1>2, <1>3, <1>8 DEF ReadyToClose
  <2>3. ASSUME NEW u \in Threads \ {t}, call[u].at \notin ClosingSteps \ {"forget"}
        PROVE  ReadyToClose(call[u])'
    BY <2>3, <1>5 DEF ReadyToClose, ClosingSteps, Advances
  <2> QED
    BY <2>1, <2>2, <2>3 DEF CloseReady
<1>10. \A g \in Fds : Owners(g)' = Owners(g)
  BY <1>4, <1>6 DEF Owners
<1>11. OwnersApart' /\ (NoDescriptorLost => NoDescriptorLost')
  BY <1>2, <1>10 DEF Ownership, OwnersApart, NoDescriptorLost
<1>12. FlagsTell'
  <2>1. ASSUME NEW g \in Fds, NEW q \in Owners(g)'
        PROVE  /\ linger'[g] /\ "dup" \notin impl'[q].state => "linger" \in impl'[q].state
               /\ "stream" \in impl'[q].state => link'[g] # "datagram"
    <3>1. q \in Owners(g) /\ q \in Sockets
      BY <2>1, <1>10 DEF Owners
    <3> QED
      BY <3>1, <1>2, <1>8 DEF Ownership, FlagsTell
  <2> QED
    BY <2>1 DEF FlagsTell
<1>13. ModeIsKnown'
  <2>1. ASSUME NEW g \in Fds, NEW q \in Owners(g)'
        PROVE  /\ NonBlocking \cap impl'[q].state # {} => nonblock'[g]
               /\ nonblock'[g] /\ "dup" \notin impl'[q].state => NonBlocking \cap impl'[q].state # {}
    <3>1. q \in Owners(g) /\ q \in Sockets
      BY <2>1, <1>10 DEF Owners
    <3>2. CASE g = f
      <4>1. q = o
        BY <3>1, <3>2 DEF Ownership, OwnersApart, Owners
      <4> QED
        BY <3>2, <4>1, <1>3, <1>4
    <3>3. CASE g # f
      <4>1. impl'[q] = impl[q] /\ nonblock'[g] = nonblock[g]
        BY <3>1, <3>3, <1>3, <1>4 DEF Owners
      <4> QED
        BY <3>1, <4>1 DEF Ownership, ModeIsKnown
    <3> QED
      BY <3>2, <3>3
  <2> QED
    BY <2>1 DEF ModeIsKnown
<1> QED
  BY <1>6, <1>7, <1>9, <1>11, <1>12, <1>13 DEF Keeps, Ownership

\* Calls stay or end, and the objects of those that change one stay.
LEMMA CallsKept ==
    ASSUME Ownership, UNCHANGED kernelVars,
           call' \in [Threads -> CallType], impl' \in [Sockets -> ImplType],
           \A u \in Threads : call'[u] = call[u] \/ (call'[u].op = "none" /\ call'[u].at = "returned"),
           \A u \in Threads : call'[u].op \in Changing =>
               /\ call'[u].at = "forget" \/ impl'[call[u].obj] = impl[call[u].obj]
               /\ impl'[call[u].peer] = impl[call[u].peer]
    PROVE  StateOK' /\ StepsKnown' /\ Exclusive' /\ InHand' /\ CloseReady'
<1>1. "none" \notin Waiting \cup Closing \cup Changing /\ "returned" \notin ClosingSteps
  BY DEF Waiting, Closing, Changing, Receiving, Sending, ClosingSteps
<1>2. StateOK'
  BY StateTypes DEF Ownership, KernelTypeOK, kernelVars
<1>3. StepsKnown'
  <2>1. ASSUME NEW u \in Threads PROVE StepKnown(call[u])'
    BY <1>1 DEF Ownership, StepsKnown, StepKnown
  <2> QED
    BY <2>1 DEF StepsKnown
<1>4. Exclusive'
  BY <1>1 DEF Ownership, Exclusive, Concerns
<1>5. InHand'
  <2>1. ASSUME NEW u \in Threads PROVE HasInHand(call[u])'
    BY <1>1, ClosingChanges DEF Ownership, InHand, HasInHand
  <2> QED
    BY <2>1 DEF InHand
<1>6. CloseReady'
  <2>1. ASSUME NEW u \in Threads, call'[u].at \in ClosingSteps \ {"forget"} PROVE ReadyToClose(call[u])'
    <3>1. call'[u] = call[u] /\ call'[u].op \in Changing
      BY <2>1, <1>1, <1>3, ClosingChanges DEF StepsKnown, StepKnown
    <3>2. impl'[call[u].obj] = impl[call[u].obj]
      BY <2>1, <3>1
    <3> QED
      BY <3>1, <3>2 DEF Ownership, CloseReady, ReadyToClose, kernelVars
  <2>2. ASSUME NEW u \in Threads, call'[u].at \notin ClosingSteps \ {"forget"} PROVE ReadyToClose(call[u])'
    BY <2>2 DEF ReadyToClose, ClosingSteps
  <2> QED
    BY <2>1, <2>2 DEF CloseReady
<1> QED
  BY <1>2, <1>3, <1>4, <1>5, <1>6

\* Object o, which owns nothing, takes over what p has.
LEMMA ObjectMoved ==
    ASSUME Ownership, UNCHANGED kernelVars, NEW o \in Sockets, NEW p \in Sockets, o # p,
           impl' = [impl EXCEPT ![o] = impl[p], ![p] = Constructed],
           \A f \in Fds : o \notin Owners(f),
           ~Forgetting(p), ~Forgetting(o)', ~Forgetting(p)',
           \A q \in Sockets \ {o} : Forgetting(q)' <=> Forgetting(q)
    PROVE  /\ impl' \in [Sockets -> ImplType]
           /\ OwnersApart' /\ FlagsTell' /\ ModeIsKnown'
           /\ NoDescriptorLost => NoDescriptorLost'
<1>t. impl \in [Sockets -> ImplType]
  BY StateTypes DEF Ownership
<1>1. /\ impl' \in [Sockets -> ImplType]
      /\ impl'[o] = impl[p] /\ impl'[p].socket = NoFd
      /\ \A q \in Sockets \ {o, p} : impl'[q] = impl[q]
  BY <1>t DEF ImplType, Constructed
<1> DEFINE before(q) == IF q = o THEN p ELSE q
<1>2. ASSUME NEW f \in Fds
      PROVE  \A q \in Sockets : q \in Owners(f)' <=> q # p /\ before(q) \in Owners(f)
  BY <1>1, KernelAssumption DEF Owners
<1>3. ASSUME NEW f \in Fds, NEW q \in Owners(f)'
      PROVE  /\ q \in Sockets /\ before(q) \in Sockets /\ before(q) \in Owners(f)
             /\ impl'[q] = impl[before(q)] /\ q # p
  BY <1>1, <1>2, <1>3 DEF Owners
<1>4. OwnersApart'
  <2>1. ASSUME NEW f \in Fds, NEW q \in Sockets, q \in Owners(f)', NEW r \in Owners(f)'
        PROVE  link'[f] # "closed" /\ r = q
    <3>1. before(q) \in Owners(f) /\ before(r) \in Owners(f) /\ before(q) \in Sockets
          /\ before(r) \in Sockets /\ q # p /\ r # p
      BY <2>1, <1>3
    <3>2. link[f] # "closed" /\ before(q) = before(r)
      BY <3>1 DEF Ownership, OwnersApart
    <3> QED
      BY <3>1, <3>2 DEF kernelVars
  <2> QED
    BY <2>1 DEF OwnersApart
<1>5. FlagsTell'
  <2>1. ASSUME NEW f \in Fds, NEW q \in Owners(f)'
        PROVE  /\ linger'[f] /\ "dup" \notin impl'[q].state => "linger" \in impl'[q].state
               /\ "stream" \in impl'[q].state => link'[f] # "datagram"
    <3>1. before(q) \in Owners(f) /\ impl'[q] = impl[before(q)]
      BY <2>1, <1>3
    <3> HIDE DEF before
    <3> QED
      BY <3>1 DEF Ownership, FlagsTell, kernelVars
  <2> QED
    BY <2>1 DEF FlagsTell
<1>6. ModeIsKnown'
  <2>1. ASSUME NEW f \in Fds, NEW q \in Owners(f)'
        PROVE  /\ NonBlocking \cap impl'[q].state # {} => nonblock'[f]
               /\ nonblock'[f] /\ "dup" \notin impl'[q].state => NonBlocking \cap impl'[q].state # {}
    <3>1. before(q) \in Owners(f) /\ impl'[q] = impl[before(q)]
      BY <2>1, <1>3
    <3> HIDE DEF before
    <3> QED
      BY <3>1 DEF Ownership, ModeIsKnown, kernelVars
  <2> QED
    BY <2>1 DEF ModeIsKnown
<1>7. NoDescriptorLost => NoDescriptorLost'
  <2>1. ASSUME NoDescriptorLost, NEW f \in Fds, link'[f] # "closed" PROVE Owners(f)' # {}
    <3>1. PICK q \in Owners(f) : q \in Sockets
      BY <2>1 DEF NoDescriptorLost, kernelVars, Owners
    <3>2. IF q = p THEN o \in Owners(f)' ELSE q \in Owners(f)'
      BY <3>1, <1>2
    <3> QED
      BY <3>2
  <2> QED
    BY <2>1 DEF NoDescriptorLost
<1> QED
  BY <1>1, <1>4, <1>5, <1>6, <1>7

LEMMA MoveConstructOwns ==
    ASSUME Ownership, NEW t \in Threads, NEW o \in Sockets, NEW p \in Sockets, MoveConstruct(t, o, p)
    PROVE  Keeps
<1> USE DEF MoveConstruct
<1>1. /\ ~Forgetting(o) /\ ~Forgetting(p)
      /\ \A u \in Threads : ~Concerns(u, o) /\ ~Concerns(u, p)
  BY FreeOwns
<1>2. \A q \in Sockets : Forgetting(q)' <=> Forgetting(q)
  BY DEF Forgetting
<1>3. \A f \in Fds : o \notin Owners(f)
  BY KernelAssumption DEF Owners, Constructed
<1>4. /\ impl' \in [Sockets -> ImplType] /\ OwnersApart' /\ FlagsTell' /\ ModeIsKnown'
      /\ NoDescriptorLost => NoDescriptorLost'
  BY <1>1, <1>2, <1>3, ObjectMoved
<1>5. StateOK' /\ StepsKnown' /\ Exclusive' /\ InHand' /\ CloseReady'
  <2>1. call' = call /\ call \in [Threads -> CallType] /\ impl \in [Sockets -> ImplType]
    BY StateTypes DEF Ownership
  <2>2. ASSUME NEW u \in Threads, call[u].op \in Changing
        PROVE  impl'[call[u].obj] = impl[call[u].obj] /\ impl'[call[u].peer] = impl[call[u].peer]
    <3>1. call[u].obj \in Sockets \ {o, p} /\ call[u].peer \in Sockets \ {o, p}
      BY <2>2, <1>1 DEF Concerns, Ownership, StepsKnown, StepKnown, Changing, Waiting
    <3> QED
      BY <2>1, <3>1
  <2> QED
    BY <2>1, <2>2, <1>4, CallsKept
<1> QED
  BY <1>4, <1>5 DEF Keeps, Ownership

LEMMA ForgetKeeps ==
    ASSUME Ownership, NEW t \in Threads, Forget(t)
    PROVE  Keeps
<1>t. impl \in [Sockets -> ImplType] /\ call \in [Threads -> CallType]
  BY StateTypes DEF Ownership
<1>1. /\ call[t].at = "forget" /\ call[t].op \in Closing /\ call[t].op \in Changing
      /\ call[t].op = "moveAssign" => call[t].obj # call[t].peer
  BY ClosingChanges DEF Forget, Ownership, StepsKnown, StepKnown, ClosingSteps, Closing
<1> PICK o \in Sockets, p \in Sockets : o = call[t].obj /\ p = call[t].peer
  BY <1>1 DEF Ownership, StepsKnown, StepKnown
<1>2. /\ call' \in [Threads -> CallType]
      /\ call'[t].op = "none" /\ call'[t].at = "returned"
      /\ \A u \in Threads \ {t} : call'[u] = call[u]
  <2> PICK ec \in Results : Leave(t, ec)
    <3>1. call[t].ec \in Results /\ "ok" \in Results
      BY <1>t DEF CallType, Results, Codes
    <3> QED
      BY <3>1 DEF Forget
  <2>1. /\ call' \in [Threads -> CallType] /\ call'[t] = Returned(ec)
        /\ \A u \in Threads \ {t} : call'[u] = call[u]
    BY <1>t, LeaveEffect
  <2> QED
    BY <2>1 DEF Returned
<1>3. \A u \in Threads \ {t} : ~Concerns(u, o) /\ ~Concerns(u, p)
  BY <1>1 DEF Concerns, Ownership, Exclusive
<1>4. \A u \in Threads : call[u].at = "forget" => call[u].op \in Changing
  BY ClosingChanges DEF Ownership, StepsKnown, StepKnown, ClosingSteps
<1>5. /\ Forgetting(o) /\ ~Forgetting(o)'
      /\ p # o => ~Forgetting(p) /\ ~Forgetting(p)'
      /\ \A q \in Sockets \ {o} : Forgetting(q)' <=> Forgetting(q)
  BY <1>1, <1>2, <1>3, <1>4 DEF Forgetting, Concerns
<1>6. \A f \in Fds : o \notin Owners(f)
  BY <1>5 DEF Owners
<1>7. "none" \notin Changing
  BY DEF Changing, Closing
<1>8. ASSUME NEW u \in Threads, call'[u].op \in Changing
      PROVE  /\ call[u].op \in Changing /\ call[u].obj \in Sockets \ {o, p} /\ call[u].peer \in Sockets \ {o, p}
  BY <1>8, <1>2, <1>3, <1>7 DEF Concerns, Ownership, StepsKnown, StepKnown, Changing, Waiting
<1>9. CASE call[t].op = "moveAssign"
  <2>1. /\ UNCHANGED kernelVars /\ o # p
        /\ impl' = [impl EXCEPT ![o] = impl[p], ![p] = Constructed]
    BY <1>1, <1>9 DEF Forget
  <2>2. /\ impl' \in [Sockets -> ImplType] /\ OwnersApart' /\ FlagsTell' /\ ModeIsKnown'
        /\ NoDescriptorLost => NoDescriptorLost'
    BY <1>5, <1>6, <2>1, ObjectMoved
  <2>3. StateOK' /\ StepsKnown' /\ Exclusive' /\ InHand' /\ CloseReady'
    <3>1. \A q \in Sockets \ {o, p} : impl'[q] = impl[q]
      BY <2>1, <1>t
    <3> QED
      BY <1>2, <1>8, <2>1, <2>2, <3>1, CallsKept
  <2> QED
    BY <2>2, <2>3 DEF Keeps, Ownership
<1>10. CASE call[t].op # "moveAssign"
  <2>1. /\ UNCHANGED kernelVars
        /\ impl' = [impl EXCEPT ![o] = Constructed]
    BY <1>10 DEF Forget
  <2>2. /\ impl' \in [Sockets -> ImplType] /\ impl'[o].socket = NoFd
        /\ \A q \in Sockets \ {o} : impl'[q] = impl[q]
    BY <2>1, <1>t DEF ImplType, Constructed
  <2>3. \A f \in Fds : Owners(f)' = Owners(f) /\ \A q \in Owners(f) : impl'[q] = impl[q]
    BY <2>2, <1>5, <1>6, KernelAssumption DEF Owners
  <2>4. OwnersApart' /\ FlagsTell' /\ ModeIsKnown' /\ (NoDescriptorLost => NoDescriptorLost')
    BY <2>1, <2>3, ObjectsKept DEF kernelVars
  <2>5. StateOK' /\ StepsKnown' /\ Exclusive' /\ InHand' /\ CloseReady'
    BY <1>2, <1>8, <2>1, <2>2, CallsKept
  <2> QED
    BY <2>4, <2>5 DEF Keeps, Ownership
<1> QED
  BY <1>9, <1>10

-----------------------------------------------------------------------------
(* Which action is of which sort.                                            *)

LEMMA UnchangedQuiet == KernelTypeOK /\ UNCHANGED kernelVars => KernelQuiet
  BY DEF KernelQuiet, KernelTypeOK, kernelVars

\* The calls and the network that change no mode and open and close nothing.
LEMMA QuietCalls ==
    ASSUME KernelTypeOK, NEW f \in Fds \cup {NoFd}, NEW r \in Answers
    PROVE  /\ Network => KernelQuiet
           /\ \A empty \in BOOLEAN : lkl_recvmsg(f, empty, r) => KernelQuiet
           /\ lkl_sendmsg(f, r) => KernelQuiet
           /\ f \in Fds /\ lkl_connect(f, r) => KernelQuiet
           /\ \A ready \in BOOLEAN : lkl_poll(f, ready, r) => KernelQuiet
           /\ \A pending \in {"ok", "refused"} : f \in Fds /\ lkl_so_error(f, r, pending) => KernelQuiet
<1>1. Network => KernelQuiet
  <2>1. ASSUME NEW g \in Fds, Established(g) PROVE KernelQuiet
    BY <2>1 DEF Established, KernelQuiet, KernelTypeOK, Links
  <2>2. ASSUME NEW g \in Fds, Arrives(g) PROVE KernelQuiet
    <3>1. inbox[g] + 1 \in 0..MaxIn
      BY <2>2, KernelAssumption DEF Arrives, KernelTypeOK
    <3> QED
      BY <2>2, <3>1 DEF Arrives, KernelQuiet, KernelTypeOK
  <2>3. ASSUME NEW g \in Fds, PeerCloses(g) PROVE KernelQuiet
    BY <2>3 DEF PeerCloses, KernelQuiet, KernelTypeOK
  <2> QED
    BY <2>1, <2>2, <2>3 DEF Network
<1>2. ASSUME NEW empty \in BOOLEAN, lkl_recvmsg(f, empty, r) PROVE KernelQuiet
  <2>1. CASE UNCHANGED kernelVars
    BY <2>1, UnchangedQuiet
  <2>2. CASE inbox[f] > 0 /\ inbox' = [inbox EXCEPT ![f] = @ - 1] /\ UNCHANGED <<link, nonblock, linger, fin>>
    <3>1. f \in Fds => inbox[f] - 1 \in 0..MaxIn
      BY <2>2, KernelAssumption DEF KernelTypeOK
    <3>2. inbox' \in [Fds -> 0..MaxIn]
      BY <2>2, <3>1 DEF KernelTypeOK
    <3> QED
      BY <2>2, <3>2 DEF KernelQuiet, KernelTypeOK
  <2> QED
    BY <1>2, <2>1, <2>2 DEF lkl_recvmsg
<1>3. lkl_sendmsg(f, r) => KernelQuiet
  BY UnchangedQuiet DEF lkl_sendmsg
<1>4. ASSUME f \in Fds, lkl_connect(f, r) PROVE KernelQuiet
  <2>1. CASE UNCHANGED kernelVars
    BY <2>1, UnchangedQuiet
  <2>2. ASSUME NEW next \in {"connecting", "connected"}, link[f] \in {"fresh", "refused"},
               link' = [link EXCEPT ![f] = next], UNCHANGED <<nonblock, linger, inbox, fin>>
        PROVE  KernelQuiet
    BY <1>4, <2>2 DEF KernelQuiet, KernelTypeOK, Links
  <2> QED
    BY <1>4, <2>1, <2>2 DEF lkl_connect
<1>5. ASSUME NEW ready \in BOOLEAN, lkl_poll(f, ready, r) PROVE KernelQuiet
  BY <1>5, UnchangedQuiet DEF lkl_poll
<1>6. ASSUME NEW pending \in {"ok", "refused"}, f \in Fds, lkl_so_error(f, r, pending) PROVE KernelQuiet
  <2>1. CASE UNCHANGED kernelVars
    BY <2>1, UnchangedQuiet
  <2>2. CASE link[f] = "refused" /\ link' = [link EXCEPT ![f] = "fresh"] /\ UNCHANGED <<nonblock, linger, inbox, fin>>
    BY <1>6, <2>2 DEF KernelQuiet, KernelTypeOK, Links
  <2> QED
    BY <1>6, <2>1, <2>2 DEF lkl_so_error
<1> QED
  BY <1>1, <1>2, <1>3, <1>4, <1>5, <1>6

\* A call that waits ends or goes on.
LEMMA WaitingKeeps ==
    ASSUME Ownership, NEW t \in Threads, call[t].op \in Waiting, KernelQuiet, UNCHANGED impl,
           \/ \E ec \in Codes : Leave(t, ec)
           \/ GoOn(t, "poll") \/ GoOn(t, "try")
           \/ GoOn(t, "soError") /\ call[t].op = "connect"
    PROVE  Keeps
<1>1. CASE \E ec \in Codes : Leave(t, ec)
  <2>1. Ends(t)
    BY <1>1 DEF Ends, Waiting, Closing, Receiving, Sending, Results
  <2> QED
    BY <2>1, EndsKeeps
<1>2. CASE \/ GoOn(t, "poll") \/ GoOn(t, "try")
           \/ GoOn(t, "soError") /\ call[t].op = "connect"
  <2>1. Continues(t)
    BY <1>2 DEF Continues
  <2> QED
    BY <2>1, ContinuesKeeps
<1> QED
  BY <1>1, <1>2

\* A call that fails, or waits for want of an answer.
LEMMA RefusedEffect ==
    ASSUME NEW t \in Threads, NEW r \in Answers, Refused(t, r)
    PROVE  GoOn(t, "poll") \/ \E ec \in Codes : Leave(t, ec)
  BY CodeOfAnswer DEF Refused

LEMMA ReceivedEffect ==
    ASSUME NEW t \in Threads, NEW r \in Answers, Received(t, r)
    PROVE  GoOn(t, "poll") \/ \E ec \in Codes : Leave(t, ec)
<1>1. "ok" \in Codes /\ "eof" \in Codes
  BY DEF Codes
<1> QED
  BY <1>1, RefusedEffect DEF Received

\* A thread that is in no call.
LEMMA IdleThread ==
    ASSUME Ownership, NEW t \in Threads, Idle(t)
    PROVE  call[t].op \notin Waiting \cup Closing
  BY DEF Idle, Ownership, StepsKnown, StepKnown

\* A call that fails at once.
LEMMA FailsKeeps ==
    ASSUME Ownership, NEW t \in Threads, Idle(t), UNCHANGED <<kernelVars, impl>>,
           NEW ec \in Codes, Leave(t, ec)
    PROVE  Keeps
<1>1. KernelQuiet
  BY UnchangedQuiet, StateTypes DEF Ownership
<1>2. Ends(t)
  BY <1>1, IdleThread DEF Ends, Results
<1> QED
  BY <1>2, EndsKeeps

LEMMA TryRecvKeeps ==
    ASSUME Ownership, NEW t \in Threads, TryRecv(t)
    PROVE  Keeps
<1>1. call[t].op \in Waiting /\ call[t].s \in Fds \cup {NoFd} /\ call[t].empty \in BOOLEAN /\ KernelTypeOK
  BY StateTypes DEF TryRecv, At, Waiting, Receiving, Ownership, CallType
<1>2. UNCHANGED impl /\ "ok" \in Codes
  BY DEF TryRecv, Codes
<1>3. CASE NoOp(t) /\ Leave(t, "ok") /\ UNCHANGED kernelVars
  BY <1>1, <1>2, <1>3, UnchangedQuiet, WaitingKeeps
<1>4. ASSUME NEW r \in Answers, lkl_recvmsg(call[t].s, call[t].empty, r), Received(t, r)
      PROVE  Keeps
  <2>1. KernelQuiet
    BY <1>1, <1>4, QuietCalls
  <2> QED
    BY <1>1, <1>2, <1>4, <2>1, ReceivedEffect, WaitingKeeps
<1> QED
  BY <1>3, <1>4 DEF TryRecv

LEMMA TrySendKeeps ==
    ASSUME Ownership, NEW t \in Threads, TrySend(t)
    PROVE  Keeps
<1>1. call[t].op \in Waiting /\ KernelTypeOK
  BY StateTypes DEF TrySend, At, Waiting, Sending, Ownership
<1>2. UNCHANGED impl /\ "ok" \in Codes
  BY DEF TrySend, Codes
<1>3. UNCHANGED kernelVars /\ \/ Leave(t, "ok")
                              \/ \E r \in Answers : Refused(t, r)
  BY DEF TrySend, lkl_sendmsg
<1> QED
  BY <1>1, <1>2, <1>3, UnchangedQuiet, RefusedEffect, WaitingKeeps

LEMMA PollKeeps ==
    ASSUME Ownership, NEW t \in Threads, Poll(t)
    PROVE  Keeps
<1>1. call[t].op \in Waiting /\ KernelTypeOK
  BY StateTypes DEF Poll, Ownership, StepsKnown, StepKnown, ClosingSteps
<1>2. UNCHANGED <<kernelVars, impl>>
  BY DEF Poll, lkl_poll
<1>3. \/ \E r \in Answers : Leave(t, ErrorCode(r.err))
      \/ GoOn(t, "try")
      \/ GoOn(t, "soError") /\ call[t].op = "connect"
  BY DEF Poll
<1> QED
  BY <1>1, <1>2, <1>3, UnchangedQuiet, CodeOfAnswer, WaitingKeeps

LEMMA TryConnectKeeps ==
    ASSUME Ownership, NEW t \in Threads, TryConnect(t)
    PROVE  Keeps
<1>1. /\ call[t].op \in Waiting /\ call[t].op \in Changing
      /\ call[t].at # "forget" /\ KernelTypeOK
  BY StateTypes DEF TryConnect, At, Waiting, Changing, Ownership
<1>2. call[t].s \in Fds
  BY <1>1, InHandOwns
<1>3. PICK r \in Answers :
        /\ lkl_connect(call[t].s, r)
        /\ CASE r.err = "inProgress" -> GoOn(t, "poll")
             [] r.err = "wouldBlock" -> Leave(t, "noBufferSpace")
             [] OTHER -> Leave(t, ErrorCode(r.err))
  BY DEF TryConnect
<1>4. "noBufferSpace" \in Codes /\ UNCHANGED impl
  BY DEF Codes, TryConnect
<1>5. KernelQuiet
  BY <1>1, <1>2, <1>3, QuietCalls
<1>6. GoOn(t, "poll") \/ \E ec \in Codes : Leave(t, ec)
  BY <1>3, <1>4, CodeOfAnswer
<1> QED
  BY <1>1, <1>4, <1>5, <1>6, WaitingKeeps

LEMMA GetConnectErrorKeeps ==
    ASSUME Ownership, NEW t \in Threads, GetConnectError(t)
    PROVE  Keeps
<1>1. /\ call[t].op \in Waiting /\ call[t].op \in Changing
      /\ call[t].at # "forget" /\ KernelTypeOK
  BY StateTypes DEF GetConnectError, At, Waiting, Changing, Ownership
<1>2. call[t].s \in Fds
  BY <1>1, InHandOwns
<1>3. PICK r \in Answers, pending \in {"ok", "refused"} :
        /\ lkl_so_error(call[t].s, r, pending)
        /\ Leave(t, IF r.n = 0 THEN pending ELSE ErrorCode(r.err))
  BY DEF GetConnectError
<1>4. {"ok", "refused"} \subseteq Codes /\ UNCHANGED impl
  BY DEF Codes, GetConnectError
<1>5. KernelQuiet
  BY <1>1, <1>2, <1>3, QuietCalls
<1> QED
  BY <1>1, <1>3, <1>4, <1>5, CodeOfAnswer, WaitingKeeps

LEMMA TryAcceptKeeps ==
    ASSUME Ownership, NEW t \in Threads, TryAccept(t)
    PROVE  Keeps
<1>1. /\ call[t].op = "accept" /\ call[t].op \in Waiting /\ call[t].op \in Changing
      /\ call[t].op \notin Closing /\ call[t].at # "forget"
  BY DEF TryAccept, At, Waiting, Changing, Closing
<1> PICK p \in Sockets, s \in Fds : p = call[t].peer /\ s = call[t].s
  BY <1>1, InHandOwns DEF Ownership, StepsKnown, StepKnown
<1>2. KernelTypeOK /\ call \in [Threads -> CallType]
  BY StateTypes DEF Ownership
<1>3. ASSUME NEW g \in Fds, lkl_accept(s, g, Success(g)), Leave(t, "ok"),
             impl' = [impl EXCEPT ![p] = [socket |-> g, state |-> {"stream", "dup"}]]
      PROVE  Keeps
  <2>1. Success(g).err = "ok" /\ \A e \in Errors : Failure(e).err # "ok"
    BY DEF Success, Failure, Errors
  <2>2. /\ \A e \in Errors : Success(g) # Failure(e)
        /\ {"other", "unmapped", "badDescriptor", "aborted", "wouldBlock"} \subseteq Errors
    BY <2>1 DEF Errors
  <2>3. link[g] = "closed" /\ Reset(g, "connected", FALSE, linger[s])
    BY <1>3, <2>2 DEF lkl_accept, Trouble
  <2>4. impl[p].socket = NoFd
    BY <1>1 DEF Ownership, InHand, HasInHand
  <2>5. ~Busy(p)'
    <3>1. "ok" \in Results
      BY DEF Results, Codes
    <3>2. /\ call'[t].op = "none" /\ \A u \in Threads \ {t} : call'[u] = call[u]
      <4>1. call'[t] = Returned("ok") /\ \A u \in Threads \ {t} : call'[u] = call[u]
        BY <1>2, <1>3, <3>1, LeaveEffect
      <4> QED
        BY <4>1 DEF Returned
    <3>3. \A u \in Threads \ {t} : ~Concerns(u, p)
      BY <1>1 DEF Ownership, Exclusive, Concerns
    <3>4. "none" \notin Changing
      BY DEF Changing, Closing
    <3>5. ASSUME NEW u \in Threads, call'[u].op \in Changing, p \in {call'[u].obj, call'[u].peer}
          PROVE  FALSE
      BY <3>2, <3>3, <3>4, <3>5 DEF Concerns
    <3> QED
      BY <3>5 DEF Busy
  <2>6. /\ linger[s] \in BOOLEAN /\ "connected" \in Links \ {"closed"} /\ "ok" \in Results
        /\ {"stream", "dup"} = {"stream"} \cup {"dup"}
    BY <1>2 DEF KernelTypeOK, Links, Results, Codes
  <2>7. \E kind \in {"stream", "datagram"}, state \in Links \ {"closed"},
           mode \in BOOLEAN, lingers \in BOOLEAN, dup \in SUBSET {"dup"} :
           /\ Reset(g, state, mode, lingers)
           /\ kind = "stream" => state # "datagram"
           /\ dup = {} => ~mode /\ ~lingers
           /\ impl' = [impl EXCEPT ![p] = [socket |-> g, state |-> {kind} \cup dup]]
    <3> USE <2>6
    <3> WITNESS "stream" \in {"stream", "datagram"}
    <3> WITNESS "connected" \in Links \ {"closed"}
    <3> WITNESS FALSE \in BOOLEAN
    <3> WITNESS linger[s] \in BOOLEAN
    <3> WITNESS {"dup"} \in SUBSET {"dup"}
    <3> QED
      BY <1>3, <2>3
  <2>8. Gives(p, g)
    BY <1>1, <1>3, <2>3, <2>4, <2>5, <2>6, <2>7 DEF Gives
  <2> QED
    BY <2>8, GivesKeeps
<1>4. ASSUME NEW e \in Errors, NEW g \in Fds, lkl_accept(s, g, Failure(e)),
             GoOn(t, "poll") \/ Leave(t, ErrorCode(e)), UNCHANGED impl
      PROVE  Keeps
  <2>1. UNCHANGED kernelVars
    BY <1>4 DEF lkl_accept, Failure, Success, Errors
  <2>2. ErrorCode(e) \in Codes
    BY DEF ErrorCode, Codes
  <2> QED
    BY <1>1, <1>2, <1>4, <2>1, <2>2, UnchangedQuiet, WaitingKeeps
<1> QED
  BY <1>3, <1>4 DEF TryAccept

LEMMA CallStepKeeps ==
    ASSUME Ownership, NEW t \in Threads, CallStep(t)
    PROVE  Keeps
  BY TryRecvKeeps, TrySendKeeps, TryConnectKeeps, GetConnectErrorKeeps, TryAcceptKeeps, PollKeeps,
     LingerOffKeeps, CloseDescriptorKeeps, UnblockKeeps, ForgetKeeps DEF CallStep

\* The ways to change a mode and what the flags remember of it.
LEMMA ModeAdjusts ==
    ASSUME Ownership, NEW o \in Sockets, ~Busy(o), impl[o].socket # NoFd,
           NEW value \in BOOLEAN, lkl_fionbio(impl[o].socket, value),
           NEW flags \in SUBSET Flags, impl' = [impl EXCEPT ![o].state = flags],
           \A flag \in {"stream", "dup", "linger"} : flag \in flags <=> flag \in impl[o].state,
           value <=> NonBlocking \cap flags # {},
           UNCHANGED call
    PROVE  Adjusts(o)
<1>t. KernelTypeOK /\ impl \in [Sockets -> ImplType]
  BY StateTypes DEF Ownership
<1> PICK f \in Fds : f = impl[o].socket
  BY <1>t DEF ImplType
<1>1. link[f] # "closed"
  BY FreeOwns DEF Ownership, OwnersApart
<1>2. UNCHANGED <<link, linger, inbox, fin>> /\ nonblock' = [nonblock EXCEPT ![f] = value]
  BY <1>1 DEF lkl_fionbio
<1>3. KernelTypeOK' /\ nonblock'[f] = value /\ \A g \in Fds \ {f} : nonblock'[g] = nonblock[g]
  BY <1>t, <1>2 DEF KernelTypeOK
<1>4. /\ \A g \in Fds : /\ link'[g] = "closed" <=> link[g] = "closed"
                        /\ link'[g] = "datagram" <=> link[g] = "datagram"
                        /\ g # impl[o].socket => nonblock'[g] = nonblock[g] /\ linger'[g] = linger[g]
  BY <1>2, <1>3
<1>5. /\ linger'[f] => "linger" \in flags \/ (linger[f] /\ "linger" \notin impl[o].state)
      /\ NonBlocking \cap flags # {} => nonblock'[f]
      /\ nonblock'[f] => NonBlocking \cap flags # {}
  BY <1>2, <1>3
<1>6. impl[o].socket \in Fds /\ UNCHANGED call
  OBVIOUS
<1>7. \A flag \in {"stream", "dup"} : flag \in flags <=> flag \in impl[o].state
  OBVIOUS
<1>8. \E next \in SUBSET Flags, g \in Fds :
          /\ g = impl[o].socket
          /\ impl' = [impl EXCEPT ![o].state = next]
          /\ \A flag \in {"stream", "dup"} : flag \in next <=> flag \in impl[o].state
          /\ linger'[g] => "linger" \in next \/ (linger[g] /\ "linger" \notin impl[o].state)
          /\ NonBlocking \cap next # {} => nonblock'[g]
          /\ nonblock'[g] => \/ NonBlocking \cap next # {}
                             \/ nonblock[g] /\ NonBlocking \cap impl[o].state = {}
  BY <1>5, <1>7
<1> QED
  BY <1>3, <1>4, <1>6, <1>8 DEF Adjusts

LEMMA SetUserKeeps ==
    ASSUME Ownership, NEW t \in Threads, NEW o \in Sockets, NEW value \in BOOLEAN,
           SetUserNonBlocking(t, o, value)
    PROVE  Keeps
<1> DEFINE flags == IF value THEN impl[o].state \cup {"user"} ELSE impl[o].state \ NonBlocking
<1>1. impl[o].state \in SUBSET Flags
  BY StateTypes DEF Ownership, ImplType
<1>2. /\ flags \in SUBSET Flags
      /\ \A flag \in {"stream", "dup", "linger"} : flag \in flags <=> flag \in impl[o].state
      /\ value <=> NonBlocking \cap flags # {}
  BY <1>1 DEF Flags, NonBlocking
<1>3. impl' = [impl EXCEPT ![o].state = flags]
  BY DEF SetUserNonBlocking
<1> HIDE DEF flags
<1>4. Adjusts(o)
  BY <1>2, <1>3, ModeAdjusts DEF SetUserNonBlocking
<1> QED
  BY <1>4, AdjustsKeeps

LEMMA SetInternalKeeps ==
    ASSUME Ownership, NEW t \in Threads, NEW o \in Sockets, NEW value \in BOOLEAN,
           SetInternalNonBlocking(t, o, value)
    PROVE  Keeps
<1> DEFINE flags == IF value THEN impl[o].state \cup {"internal"} ELSE impl[o].state \ {"internal"}
<1>1. impl[o].state \in SUBSET Flags /\ (value \/ "user" \notin impl[o].state)
  BY StateTypes DEF Ownership, ImplType, SetInternalNonBlocking
<1>2. /\ flags \in SUBSET Flags
      /\ \A flag \in {"stream", "dup", "linger"} : flag \in flags <=> flag \in impl[o].state
      /\ value <=> NonBlocking \cap flags # {}
  BY <1>1 DEF Flags, NonBlocking
<1>3. impl' = [impl EXCEPT ![o].state = flags]
  BY DEF SetInternalNonBlocking
<1> HIDE DEF flags
<1>4. Adjusts(o)
  BY <1>2, <1>3, ModeAdjusts DEF SetInternalNonBlocking
<1> QED
  BY <1>4, AdjustsKeeps

LEMMA SetLingerKeeps ==
    ASSUME Ownership, NEW t \in Threads, NEW o \in Sockets, NEW value \in BOOLEAN,
           SetLinger(t, o, value)
    PROVE  Keeps
<1>t. KernelTypeOK /\ impl \in [Sockets -> ImplType]
  BY StateTypes DEF Ownership
<1> DEFINE flags == impl[o].state \cup {"linger"}
<1> PICK f \in Fds : f = impl[o].socket
  BY <1>t DEF ImplType, SetLinger
<1>1. link[f] # "closed" /\ o \in Owners(f)
  BY FreeOwns DEF Ownership, OwnersApart, SetLinger
<1>2. UNCHANGED <<link, nonblock, inbox, fin, call>> /\ linger' = [linger EXCEPT ![f] = value]
  BY <1>1 DEF lkl_so_linger, SetLinger
<1>3. KernelTypeOK' /\ \A g \in Fds \ {f} : linger'[g] = linger[g]
  BY <1>t, <1>2 DEF KernelTypeOK
<1>4. /\ flags \in SUBSET Flags /\ "linger" \in flags
      /\ \A flag \in {"stream", "dup"} : flag \in flags <=> flag \in impl[o].state
      /\ NonBlocking \cap flags = NonBlocking \cap impl[o].state
  BY <1>t DEF Flags, NonBlocking, ImplType
<1>5. impl' = [impl EXCEPT ![o].state = flags]
  BY DEF SetLinger
<1>6. NonBlocking \cap flags # {} => nonblock'[f]
  BY <1>1, <1>2, <1>4 DEF Ownership, ModeIsKnown
<1> HIDE DEF flags
<1>7. \A g \in Fds : /\ link'[g] = "closed" <=> link[g] = "closed"
                     /\ link'[g] = "datagram" <=> link[g] = "datagram"
                     /\ g # impl[o].socket => nonblock'[g] = nonblock[g] /\ linger'[g] = linger[g]
  BY <1>2, <1>3
<1>8. nonblock'[f] => NonBlocking \cap flags # {} \/ (nonblock[f] /\ NonBlocking \cap impl[o].state = {})
  BY <1>2, <1>4
<1>9. Adjusts(o)
  BY <1>2, <1>3, <1>4, <1>5, <1>6, <1>7, <1>8 DEF Adjusts, SetLinger
<1> QED
  BY <1>9, AdjustsKeeps

LEMMA OpenKeeps ==
    ASSUME Ownership, NEW t \in Threads, NEW o \in Sockets, Open(t, o)
    PROVE  Keeps
<1>1. "ok" \in Codes /\ "alreadyOpen" \in Codes
  BY DEF Codes
<1>2. ASSUME UNCHANGED <<kernelVars, impl>>, NEW ec \in Codes, Leave(t, ec)
      PROVE  Keeps
  BY <1>2, FailsKeeps DEF Open
<1>3. ASSUME impl[o].socket = NoFd, NEW f \in Fds, NEW kind \in Kinds, link[f] = "closed",
             Reset(f, IF kind = "stream" THEN "fresh" ELSE "datagram", FALSE, FALSE),
             impl' = [impl EXCEPT ![o] = [socket |-> f, state |-> {kind}]],
             Leave(t, "ok")
      PROVE  Keeps
  <2> DEFINE state == IF kind = "stream" THEN "fresh" ELSE "datagram"
  <2>1. /\ kind \in {"stream", "datagram"} /\ state \in Links \ {"closed"} /\ {kind} \cup {} = {kind}
        /\ kind = "stream" => state # "datagram"
    BY KindsAssumption DEF Links
  <2>r. Reset(f, state, FALSE, FALSE)
    BY <1>3
  <2> HIDE DEF state
  <2>2. \E k \in {"stream", "datagram"}, s \in Links \ {"closed"},
           mode \in BOOLEAN, lingers \in BOOLEAN, dup \in SUBSET {"dup"} :
           /\ Reset(f, s, mode, lingers)
           /\ k = "stream" => s # "datagram"
           /\ dup = {} => ~mode /\ ~lingers
           /\ impl' = [impl EXCEPT ![o] = [socket |-> f, state |-> {k} \cup dup]]
    <3> USE <2>1, <2>r
    <3> WITNESS kind \in {"stream", "datagram"}
    <3> WITNESS state \in Links \ {"closed"}
    <3> WITNESS FALSE \in BOOLEAN
    <3> WITNESS FALSE \in BOOLEAN
    <3> WITNESS {} \in SUBSET {"dup"}
    <3> QED
      BY <1>3
  <2>3. ~Busy(o)'
    <3>1. call \in [Threads -> CallType] /\ "ok" \in Results
      BY <1>1, StateTypes DEF Ownership, Results
    <3>2. call'[t] = Returned("ok") /\ \A u \in Threads \ {t} : call'[u] = call[u]
      BY <1>3, <3>1, LeaveEffect
    <3>3. call'[t].op \notin Changing
      BY <3>2 DEF Returned, Changing, Closing
    <3>4. ASSUME NEW u \in Threads, call'[u].op \in Changing, o \in {call'[u].obj, call'[u].peer}
          PROVE  FALSE
      BY <3>2, <3>3, <3>4 DEF Open, Busy
    <3> QED
      BY <3>4 DEF Busy
  <2>4. call[t].op \notin Closing /\ "ok" \in Results
    BY <1>1, IdleThread DEF Open, Results
  <2>5. Gives(o, f)
    BY <1>3, <2>2, <2>3, <2>4 DEF Gives
  <2> QED
    BY <2>5, GivesKeeps
<1>4. CASE impl[o].socket # NoFd /\ Leave(t, "alreadyOpen") /\ UNCHANGED <<kernelVars, impl>>
  BY <1>1, <1>2, <1>4
<1>5. ASSUME NEW r \in Answers, Leave(t, ErrorCode(r.err)), UNCHANGED <<kernelVars, impl>>
      PROVE  Keeps
  BY <1>2, <1>5, CodeOfAnswer
<1> QED
  BY <1>3, <1>4, <1>5 DEF Open

LEMMA AssignKeeps ==
    ASSUME Ownership, NEW t \in Threads, NEW o \in Sockets, Assign(t, o)
    PROVE  Keeps
<1> PICK f \in Fds, m \in BOOLEAN, l \in BOOLEAN, kind \in Kinds :
          /\ link[f] = "closed"
          /\ Reset(f, IF kind = "stream" THEN "connected" ELSE "datagram", m, l)
          /\ impl' = [impl EXCEPT ![o] = [socket |-> f, state |-> {kind, "dup"}]]
  BY DEF Assign
<1> DEFINE state == IF kind = "stream" THEN "connected" ELSE "datagram"
<1>1. /\ kind \in {"stream", "datagram"} /\ state \in Links \ {"closed"}
      /\ {kind} \cup {"dup"} = {kind, "dup"} /\ {"dup"} \in SUBSET {"dup"}
      /\ kind = "stream" => state # "datagram"
  BY KindsAssumption DEF Links
<1>r. Reset(f, state, m, l) /\ impl' = [impl EXCEPT ![o] = [socket |-> f, state |-> {kind, "dup"}]]
  OBVIOUS
<1> HIDE DEF state
<1>2. \E k \in {"stream", "datagram"}, s \in Links \ {"closed"},
           mode \in BOOLEAN, lingers \in BOOLEAN, dup \in SUBSET {"dup"} :
           /\ Reset(f, s, mode, lingers)
           /\ k = "stream" => s # "datagram"
           /\ dup = {} => ~mode /\ ~lingers
           /\ impl' = [impl EXCEPT ![o] = [socket |-> f, state |-> {k} \cup dup]]
  <2> USE <1>1, <1>r
  <2> WITNESS kind \in {"stream", "datagram"}
  <2> WITNESS state \in Links \ {"closed"}
  <2> WITNESS m \in BOOLEAN
  <2> WITNESS l \in BOOLEAN
  <2> WITNESS {"dup"} \in SUBSET {"dup"}
  <2> QED
    OBVIOUS
<1>3. Gives(o, f)
  BY <1>2 DEF Gives, Assign, Busy
<1> QED
  BY <1>3, GivesKeeps

LEMMA ListenKeeps ==
    ASSUME Ownership, NEW t \in Threads, NEW o \in Sockets, Listen(t, o)
    PROVE  Keeps
<1>1. KernelTypeOK
  BY StateTypes DEF Ownership
<1>2. KernelQuiet
  BY <1>1 DEF Listen, KernelQuiet, KernelTypeOK, Links
<1> QED
  BY <1>2, QuietKeeps DEF Listen

LEMMA ShutdownKeeps ==
    ASSUME Ownership, NEW t \in Threads, NEW o \in Sockets, Shutdown(t, o)
    PROVE  Keeps
<1>1. KernelTypeOK
  BY StateTypes DEF Ownership
<1>2. KernelQuiet
  BY <1>1 DEF Shutdown, KernelQuiet, KernelTypeOK
<1> QED
  BY <1>2, QuietKeeps DEF Shutdown

\* A call that waits begins; the peer of an accept() is another object and not open.
LEMMA BeginKeeps ==
    ASSUME Ownership, NEW t \in Threads, NEW op \in Waiting, NEW o \in Sockets, NEW p \in Sockets,
           NEW empty \in BOOLEAN, Begin(t, op, o, p, empty),
           op = "accept" <=> o # p, op = "accept" => impl[p].socket = NoFd
    PROVE  Keeps
<1>1. CASE impl[o].socket = NoFd
  <2>1. Leave(t, "badDescriptor") /\ "badDescriptor" \in Codes
    BY <1>1 DEF Begin, Codes, Errors
  <2> QED
    BY <2>1, FailsKeeps DEF Begin
<1>2. CASE impl[o].socket # NoFd
  <2>1. Enter(t, op, o, p, "try", empty) /\ "try" \in Steps /\ op # "moveAssign"
    BY <1>2 DEF Begin, Steps, Waiting, Receiving, Sending
  <2>2. Begins(t)
    BY <1>2, <2>1 DEF Begins, Begin
  <2> QED
    BY <2>2, BeginsKeeps
<1> QED
  BY <1>1, <1>2

LEMMA BeginCloseKeeps ==
    ASSUME Ownership, NEW t \in Threads, NEW op \in Closing, NEW o \in Sockets, NEW p \in Sockets,
           BeginClose(t, op, o, p), op = "moveAssign" <=> o # p
    PROVE  Keeps
<1> DEFINE step == IF impl[o].socket = NoFd THEN "forget"
                   ELSE IF op # "close" /\ "linger" \in impl[o].state THEN "linger"
                   ELSE "close"
<1>1. /\ Enter(t, op, o, p, step, FALSE) /\ step \in Steps /\ op # "accept" /\ op \in Changing
      /\ IF impl[o].socket = NoFd THEN step = "forget"
         ELSE step \in {"linger", "close"} /\ (step = "close" /\ op # "close" => "linger" \notin impl[o].state)
  BY DEF BeginClose, Steps, Closing, Changing
<1> HIDE DEF step
<1>2. Begins(t)
  BY <1>1 DEF Begins, BeginClose
<1> QED
  BY <1>2, BeginsKeeps

LEMMA NewCallKeeps ==
    ASSUME Ownership, NEW t \in Threads, NewCall(t)
    PROVE  Keeps
<1>1. {"recv", "send", "connect", "accept"} \subseteq Waiting /\ {"close", "destroy", "moveAssign"} \subseteq Closing
  BY DEF Waiting, Receiving, Sending, Closing
<1>2. ASSUME NEW o \in Sockets, StartOp(t, o) PROVE Keeps
  BY <1>2, SetInternalKeeps DEF StartOp
<1>3. ASSUME NEW o \in Sockets, BeginReceive(t, o) \/ BeginSend(t, o) \/ BeginConnect(t, o)
      PROVE  Keeps
  BY <1>1, <1>3, BeginKeeps DEF BeginReceive, BeginSend, BeginConnect
<1>4. ASSUME NEW o \in Sockets, NEW op \in {"close", "destroy"}, BeginClose(t, op, o, o)
      PROVE  Keeps
  BY <1>1, <1>4, BeginCloseKeeps
<1>5. ASSUME NEW o \in Sockets, NEW p \in Sockets, BeginAccept(t, o, p)
      PROVE  Keeps
  <2>1. CASE o # p /\ impl[p].socket = NoFd /\ Begin(t, "accept", o, p, FALSE)
    BY <1>1, <2>1, BeginKeeps
  <2>2. CASE Idle(t) /\ Leave(t, "alreadyOpen") /\ UNCHANGED <<kernelVars, impl>>
    <3>1. "alreadyOpen" \in Codes
      BY DEF Codes
    <3> QED
      BY <2>2, <3>1, FailsKeeps
  <2> QED
    BY <1>5, <2>1, <2>2 DEF BeginAccept
<1>6. ASSUME NEW o \in Sockets, NEW p \in Sockets, o # p /\ BeginClose(t, "moveAssign", o, p)
      PROVE  Keeps
  BY <1>1, <1>6, BeginCloseKeeps
<1> QED
  BY <1>2, <1>3, <1>4, <1>5, <1>6, OpenKeeps, AssignKeeps, ListenKeeps, ShutdownKeeps, SetUserKeeps,
     SetInternalKeeps, SetLingerKeeps, MoveConstructOwns DEF NewCall

LEMMA StepKeeps == Ownership /\ [Next]_vars => Keeps
<1>1. ASSUME Ownership, Network, UNCHANGED <<impl, call>> PROVE Keeps
  <2>1. Success(0) \in Answers /\ NoFd \in Fds \cup {NoFd} /\ KernelTypeOK
    BY <1>1, StateTypes DEF Answers, Ownership
  <2> QED
    BY <1>1, <2>1, QuietCalls, QuietKeeps
<1>2. ASSUME Ownership, UNCHANGED vars PROVE Keeps
  BY <1>2, UnchangedQuiet, QuietKeeps, StateTypes DEF vars, Ownership
<1> QED
  BY <1>1, <1>2, CallStepKeeps, NewCallKeeps DEF Next

-----------------------------------------------------------------------------
(* The fate of connections, and the calls and results SocketOps has.         *)

\* The operations and results of SocketOps itself.
Plain(c) == c.op \in Waiting \cup Closing \cup {"none"} /\ c.ec \in Codes

LEMMA PlainTypes ==
    /\ SocketTypeOK <=> StateOK /\ \A t \in Threads : Plain(call[t])
    /\ SocketTypeOK' <=> StateOK' /\ \A t \in Threads : Plain(call[t])'
<1> DEFINE PlainType == [op : Waiting \cup Closing \cup {"none"},
                         obj : Sockets \cup {NoSocket}, peer : Sockets \cup {NoSocket},
                         s : Fds \cup {NoFd}, user : BOOLEAN, stream : BOOLEAN,
                         empty : BOOLEAN, at : Steps, ec : Codes]
<1>1. ASSUME NEW c PROVE c \in PlainType <=> c \in CallType /\ Plain(c)
  BY DEF CallType, Plain, Operations, Results
<1> HIDE DEF PlainType
<1>2. /\ SocketTypeOK <=> KernelTypeOK /\ impl \in [Sockets -> ImplType] /\ call \in [Threads -> PlainType]
      /\ SocketTypeOK' <=> KernelTypeOK' /\ impl' \in [Sockets -> ImplType] /\ call' \in [Threads -> PlainType]
  BY DEF SocketTypeOK, ImplType, PlainType
<1>3. ASSUME NEW f
      PROVE  f \in [Threads -> PlainType] <=>
             f \in [Threads -> CallType] /\ \A t \in Threads : Plain(f[t])
  BY <1>1
<1> QED
  BY <1>2, <1>3, StateTypes DEF Plain

\* What a step of thread t may do to the state of a connection.
LinksOf(t) ==
    \A f \in Fds : \/ link'[f] = link[f]
                   \/ link[f] = "closed"
                   \/ f = call[t].s /\ call[t].op \in Changing /\ call[t].at # "forget"
                   \/ \E o \in Owners(f) : ~Busy(o)

Told == SocketTypeOK' /\ ConnectKnown'

\* Another thread's attempt stays as it is known.
LEMMA ThreadTells ==
    ASSUME SocketInv, StateOK', NEW t \in Threads, LinksOf(t),
           \A u \in Threads \ {t} : call'[u] = call[u],
           Plain(call[t])', AttemptKnown(call[t])'
    PROVE  Told
<1>1. SocketTypeOK'
  BY PlainTypes DEF SocketInv, Plain
<1>2. ASSUME NEW u \in Threads \ {t}, call[u].op = "connect" PROVE AttemptKnown(call[u])'
  <2>1. call[u].op \in Changing /\ call[u].at # "forget"
    BY <1>2, ClosingChanges DEF Changing, SocketInv, Ownership, StepsKnown, StepKnown, ClosingSteps, Closing
  <2> PICK f \in Fds, o \in Sockets :
             f = call[u].s /\ o = call[u].obj /\ link[f] # "closed" /\ o \in Owners(f)
    BY <2>1, InHandOwns DEF SocketInv
  <2>2. \A p \in Owners(f) : p = o
    BY DEF SocketInv, Ownership, OwnersApart
  <2>3. ~Concerns(t, o)
    BY <2>1 DEF SocketInv, Ownership, Exclusive, Concerns
  <2>4. Busy(o)
    BY <2>1 DEF Busy
  <2>5. f = call[t].s /\ call[t].op \in Changing /\ call[t].at # "forget" => FALSE
    BY <2>2, <2>3, InHandOwns DEF Concerns, SocketInv
  <2>6. link'[f] = link[f]
    BY <2>2, <2>4, <2>5 DEF LinksOf
  <2> QED
    BY <2>6 DEF SocketInv, ConnectKnown, AttemptKnown
<1>3. ASSUME NEW u \in Threads \ {t}, call[u].op # "connect" PROVE AttemptKnown(call[u])'
  BY <1>3 DEF AttemptKnown
<1> QED
  BY <1>1, <1>2, <1>3 DEF Told, ConnectKnown

LEMMA LeaveTells ==
    ASSUME SocketInv, StateOK', NEW t \in Threads, LinksOf(t), NEW ec \in Codes, Leave(t, ec)
    PROVE  Told
<1>1. call \in [Threads -> CallType] /\ ec \in Results
  BY StateTypes DEF SocketInv, Ownership, Results
<1>2. call'[t] = Returned(ec) /\ \A u \in Threads \ {t} : call'[u] = call[u]
  BY <1>1, LeaveEffect
<1>3. call'[t].op = "none" /\ call'[t].ec = ec
  BY <1>2 DEF Returned
<1>4. Plain(call[t])' /\ AttemptKnown(call[t])'
  BY <1>3 DEF Plain, AttemptKnown
<1> QED
  BY <1>2, <1>4, ThreadTells

LEMMA GoOnTells ==
    ASSUME SocketInv, StateOK', NEW t \in Threads, LinksOf(t), NEW step \in Steps, GoOn(t, step),
           call[t].op = "connect" =>
               /\ call[t].stream => link'[call[t].s] # "datagram"
               /\ step = "poll" => link'[call[t].s] \in {"connecting", "connected", "refused"}
               /\ step = "soError" => link'[call[t].s] \in {"connected", "refused"}
    PROVE  Told
<1>1. call \in [Threads -> CallType]
  BY StateTypes DEF SocketInv, Ownership
<1>2. call'[t] = [call[t] EXCEPT !.at = step] /\ \A u \in Threads \ {t} : call'[u] = call[u]
  BY <1>1, GoOnEffect
<1>3. /\ call'[t].op = call[t].op /\ call'[t].ec = call[t].ec /\ call'[t].s = call[t].s
      /\ call'[t].stream = call[t].stream /\ call'[t].at = step
  BY <1>1, <1>2 DEF CallType
<1>4. Plain(call[t])'
  BY <1>3, PlainTypes DEF SocketInv, Plain
<1>5. AttemptKnown(call[t])'
  BY <1>3 DEF AttemptKnown
<1> QED
  BY <1>2, <1>4, <1>5, ThreadTells

LEMMA EnterTells ==
    ASSUME SocketInv, StateOK', NEW t \in Threads, UNCHANGED link,
           NEW op \in Waiting \cup Closing, NEW o \in Sockets, NEW p \in Sockets,
           NEW step \in Steps, NEW empty \in BOOLEAN, Enter(t, op, o, p, step, empty),
           op = "connect" => step = "try" /\ impl[o].socket # NoFd /\ ~Busy(o)
    PROVE  Told
<1>1. call \in [Threads -> CallType] /\ impl \in [Sockets -> ImplType] /\ "ok" \in Codes
  BY StateTypes DEF SocketInv, Ownership, Codes
<1>2. /\ call'[t] = [op |-> op, obj |-> o, peer |-> p, s |-> impl[o].socket,
                     user |-> "user" \in impl[o].state, stream |-> "stream" \in impl[o].state,
                     empty |-> empty, at |-> step, ec |-> "ok"]
      /\ \A u \in Threads \ {t} : call'[u] = call[u]
  BY <1>1, EnterEffect DEF Operations
<1>3. /\ call'[t].op = op /\ call'[t].ec = "ok" /\ call'[t].at = step /\ call'[t].s = impl[o].socket
      /\ call'[t].stream => "stream" \in impl[o].state
  <2>1. call'[t].op = op /\ call'[t].ec = "ok" /\ call'[t].at = step /\ call'[t].s = impl[o].socket
    BY <1>2
  <2>2. call'[t].stream = ("stream" \in impl[o].state)
    <3> DEFINE c == call'[t]
               user == "user" \in impl[o].state
               stream == "stream" \in impl[o].state
               s == impl[o].socket
    <3>1. c = [op |-> op, obj |-> o, peer |-> p, s |-> s, user |-> user, stream |-> stream,
               empty |-> empty, at |-> step, ec |-> "ok"]
      BY <1>2
    <3> HIDE DEF c, user, stream, s
    <3>2. c.stream = stream
      BY <3>1
    <3> QED
      BY <3>2 DEF c, stream
  <2> QED
    BY <2>1, <2>2, Zenon
<1>4. Plain(call[t])'
  BY <1>1, <1>3 DEF Plain
<1>5. AttemptKnown(call[t])'
  <2>1. CASE op = "connect"
    <3>1. impl[o].socket \in Fds /\ o \in Owners(impl[o].socket)
      BY <1>1, <2>1, FreeOwns DEF ImplType, SocketInv
    <3>2. "stream" \in impl[o].state => link[impl[o].socket] # "datagram"
      BY <3>1 DEF SocketInv, Ownership, FlagsTell
    <3> QED
      BY <1>3, <2>1, <3>2 DEF AttemptKnown
  <2>2. CASE op # "connect"
    BY <1>3, <2>2 DEF AttemptKnown
  <2> QED
    BY <2>1, <2>2
<1>6. LinksOf(t)
  BY DEF LinksOf
<1> QED
  BY <1>2, <1>4, <1>5, <1>6, ThreadTells

\* A step of an idle thread that leaves the calls alone.
LEMMA QuietTells ==
    ASSUME SocketInv, StateOK', UNCHANGED call, NEW t \in Threads, Idle(t), LinksOf(t)
    PROVE  Told
<1>1. call[t].op # "connect" /\ Plain(call[t])
  BY IdleThread, PlainTypes DEF SocketInv, Waiting
<1>2. Plain(call[t])' /\ AttemptKnown(call[t])'
  BY <1>1 DEF Plain, AttemptKnown
<1> QED
  BY <1>2, ThreadTells

LEMMA NetworkTells ==
    ASSUME SocketInv, StateOK', UNCHANGED call,
           \A f \in Fds : \/ link'[f] = link[f]
                          \/ link[f] = "connecting" /\ link'[f] \in {"connected", "refused"}
    PROVE  Told
<1>1. SocketTypeOK'
  BY PlainTypes DEF SocketInv, Plain
<1>2. ASSUME NEW u \in Threads PROVE AttemptKnown(call[u])'
  <2>1. CASE call[u].op = "connect"
    <3>1. call[u].op \in Changing /\ call[u].at # "forget"
      BY <2>1, ClosingChanges DEF Changing, SocketInv, Ownership, StepsKnown, StepKnown, ClosingSteps, Closing
    <3>2. call[u].s \in Fds
      BY <3>1, InHandOwns DEF SocketInv
    <3> QED
      BY <3>2 DEF SocketInv, ConnectKnown, AttemptKnown
  <2>2. CASE call[u].op # "connect"
    BY <2>2 DEF AttemptKnown
  <2> QED
    BY <2>1, <2>2
<1> QED
  BY <1>1, <1>2 DEF Told, ConnectKnown

\* A call other than connect() that ends or goes on, no link changing.
LEMMA WaitingTells ==
    ASSUME SocketInv, StateOK', NEW t \in Threads, call[t].op # "connect", UNCHANGED link,
           \/ \E ec \in Codes : Leave(t, ec)
           \/ \E step \in Steps : GoOn(t, step)
    PROVE  Told
<1>1. LinksOf(t)
  BY DEF LinksOf
<1> QED
  BY <1>1, LeaveTells, GoOnTells

LEMMA TryRecvTells ==
    ASSUME SocketInv, StateOK', NEW t \in Threads, TryRecv(t)
    PROVE  Told
<1>1. call[t].op # "connect" /\ "ok" \in Codes /\ "poll" \in Steps
  BY DEF TryRecv, At, Codes, Steps
<1>2. UNCHANGED link
  BY DEF TryRecv, lkl_recvmsg, kernelVars
<1>3. GoOn(t, "poll") \/ \E ec \in Codes : Leave(t, ec)
  BY <1>1, ReceivedEffect DEF TryRecv
<1> QED
  BY <1>1, <1>2, <1>3, WaitingTells

LEMMA TrySendTells ==
    ASSUME SocketInv, StateOK', NEW t \in Threads, TrySend(t)
    PROVE  Told
<1>1. call[t].op # "connect" /\ "ok" \in Codes /\ "poll" \in Steps
  BY DEF TrySend, At, Codes, Steps
<1>2. UNCHANGED link
  BY DEF TrySend, lkl_sendmsg, kernelVars
<1>3. GoOn(t, "poll") \/ \E ec \in Codes : Leave(t, ec)
  BY <1>1, RefusedEffect DEF TrySend
<1> QED
  BY <1>1, <1>2, <1>3, WaitingTells

\* A connect() has in hand the descriptor of its object.
LEMMA ConnectInHand ==
    ASSUME Ownership, NEW t \in Threads, call[t].op = "connect"
    PROVE  call[t].op \in Changing /\ call[t].at # "forget" /\ call[t].s \in Fds /\ link[call[t].s] # "closed"
<1>1. call[t].op \in Changing /\ call[t].at # "forget"
  BY ClosingChanges DEF Changing, Ownership, StepsKnown, StepKnown, ClosingSteps, Closing
<1> QED
  BY <1>1, InHandOwns

LEMMA PollTells ==
    ASSUME SocketInv, StateOK', NEW t \in Threads, Poll(t)
    PROVE  Told
<1>1. UNCHANGED link /\ {"try", "soError"} \subseteq Steps
  BY DEF Poll, lkl_poll, kernelVars, Steps
<1>2. CASE call[t].op # "connect"
  <2>1. GoOn(t, "try") \/ \E ec \in Codes : Leave(t, ec)
    BY <1>2, CodeOfAnswer DEF Poll
  <2> QED
    BY <1>1, <1>2, <2>1, WaitingTells
<1>3. CASE call[t].op = "connect"
  <2>1. LinksOf(t)
    BY <1>1 DEF LinksOf
  <2>2. PICK r \in Answers :
          /\ lkl_poll(call[t].s, Sendable(call[t].s), r)
          /\ \/ r.n < 0 /\ Leave(t, ErrorCode(r.err))
             \/ r.n > 0 /\ GoOn(t, "soError")
    BY <1>3 DEF Poll, Receiving
  <2>3. CASE Leave(t, ErrorCode(r.err))
    BY <2>1, <2>3, CodeOfAnswer, LeaveTells
  <2>4. CASE r.n > 0 /\ GoOn(t, "soError")
    <3>1. link[call[t].s] # "connecting"
      BY <2>2, <2>4 DEF lkl_poll, Trouble, Failure, Sendable
    <3>2. link[call[t].s] \in {"connected", "refused"}
      BY <1>3, <3>1 DEF SocketInv, ConnectKnown, AttemptKnown, Poll
    <3> QED
      BY <1>1, <1>3, <2>1, <2>4, <3>2, GoOnTells
  <2> QED
    BY <2>2, <2>3, <2>4
<1> QED
  BY <1>2, <1>3

\* A failure other than those connect() tells apart has changed nothing.
LEMMA TryConnectTells ==
    ASSUME SocketInv, StateOK', NEW t \in Threads, TryConnect(t)
    PROVE  Told
<1>1. call[t].op = "connect"
  BY DEF TryConnect, At
<1> PICK f \in Fds : f = call[t].s /\ link[f] # "closed" /\ call[t].op \in Changing /\ call[t].at # "forget"
  BY <1>1, ConnectInHand DEF SocketInv
<1>2. PICK r \in Answers :
        /\ lkl_connect(f, r)
        /\ CASE r.err = "inProgress" -> GoOn(t, "poll")
             [] r.err = "wouldBlock" -> Leave(t, "noBufferSpace")
             [] OTHER -> Leave(t, ErrorCode(r.err))
  BY DEF TryConnect
<1>3. \A g \in Fds \ {f} : link'[g] = link[g]
  BY <1>2 DEF lkl_connect, kernelVars, SocketInv, Ownership, StateOK, KernelTypeOK
<1>4. LinksOf(t)
  BY <1>3 DEF LinksOf
<1>5. CASE r.err = "inProgress"
  <2>1. link'[f] = "connecting"
    BY <1>2, <1>5 DEF lkl_connect, Trouble, Failure, Success, SocketInv, Ownership, StateOK, KernelTypeOK
  <2>2. "poll" \in Steps /\ GoOn(t, "poll")
    BY <1>2, <1>5 DEF Steps
  <2> QED
    BY <1>4, <2>1, <2>2, GoOnTells
<1>6. CASE r.err # "inProgress"
  <2>1. \E ec \in Codes : Leave(t, ec)
    BY <1>2, <1>6, CodeOfAnswer DEF Codes
  <2> QED
    BY <1>4, <2>1, LeaveTells
<1> QED
  BY <1>5, <1>6

LEMMA GetConnectErrorTells ==
    ASSUME SocketInv, StateOK', NEW t \in Threads, GetConnectError(t)
    PROVE  Told
<1>1. call[t].op = "connect"
  BY DEF GetConnectError, At
<1> PICK f \in Fds : f = call[t].s /\ call[t].op \in Changing /\ call[t].at # "forget"
  BY <1>1, ConnectInHand DEF SocketInv
<1>2. PICK r \in Answers, pending \in {"ok", "refused"} :
        lkl_so_error(f, r, pending) /\ Leave(t, IF r.n = 0 THEN pending ELSE ErrorCode(r.err))
  BY DEF GetConnectError
<1>3. \A g \in Fds \ {f} : link'[g] = link[g]
  BY <1>2 DEF lkl_so_error, kernelVars, SocketInv, Ownership, StateOK, KernelTypeOK
<1>4. LinksOf(t)
  BY <1>3 DEF LinksOf
<1>5. \E ec \in Codes : Leave(t, ec)
  BY <1>2, CodeOfAnswer DEF Codes
<1> QED
  BY <1>4, <1>5, LeaveTells

\* Descriptor f is given out.
LEMMA GivenLinks ==
    ASSUME StateOK, NEW t \in Threads, NEW f \in Fds, NEW state, NEW mode, NEW lingers,
           Reset(f, state, mode, lingers), link[f] = "closed"
    PROVE  LinksOf(t)
  BY DEF StateOK, KernelTypeOK, Reset, LinksOf

LEMMA TryAcceptTells ==
    ASSUME SocketInv, StateOK', NEW t \in Threads, TryAccept(t)
    PROVE  Told
<1>1. call[t].op # "connect" /\ "ok" \in Codes /\ "poll" \in Steps
  BY DEF TryAccept, At, Codes, Steps
<1>2. ASSUME NEW g \in Fds, lkl_accept(call[t].s, g, Success(g)), Leave(t, "ok") PROVE Told
  <2>1. Success(g).err = "ok" /\ \A e \in Errors : Failure(e).err # "ok"
    BY DEF Success, Failure, Errors
  <2>2. /\ \A e \in Errors : Success(g) # Failure(e)
        /\ {"other", "unmapped", "badDescriptor", "aborted", "wouldBlock"} \subseteq Errors
    BY <2>1 DEF Errors
  <2>3. link[g] = "closed" /\ Reset(g, "connected", FALSE, linger[call[t].s])
    BY <1>2, <2>2 DEF lkl_accept, Trouble
  <2>4. LinksOf(t)
    BY <2>3, GivenLinks DEF SocketInv, Ownership
  <2> QED
    BY <1>1, <1>2, <2>4, LeaveTells
<1>3. ASSUME NEW e \in Errors, NEW g \in Fds, lkl_accept(call[t].s, g, Failure(e)),
             GoOn(t, "poll") \/ Leave(t, ErrorCode(e))
      PROVE  Told
  <2>1. UNCHANGED link
    BY <1>3 DEF lkl_accept, Failure, Success, Errors, kernelVars
  <2>2. ErrorCode(e) \in Codes
    BY DEF ErrorCode, Codes
  <2> QED
    BY <1>1, <1>3, <2>1, <2>2, WaitingTells
<1> QED
  BY <1>2, <1>3 DEF TryAccept

LEMMA ClosingTells ==
    ASSUME SocketInv, StateOK', NEW t \in Threads,
           LingerOff(t) \/ CloseDescriptor(t) \/ Unblock(t) \/ Forget(t)
    PROVE  Told
<1>t. call \in [Threads -> CallType]
  BY StateTypes DEF SocketInv, Ownership
<1>1. call[t].at \in ClosingSteps
  BY DEF LingerOff, CloseDescriptor, Unblock, Forget, ClosingSteps
<1>2. call[t].op # "connect" /\ call[t].op \in Changing
  BY <1>1, ClosingChanges DEF SocketInv, Ownership, StepsKnown, StepKnown, Closing
<1>3. CASE LingerOff(t) \/ Unblock(t) \/ Forget(t)
  <2>1. UNCHANGED link
    BY <1>3 DEF LingerOff, Unblock, Forget, lkl_so_linger, lkl_fionbio, kernelVars
  <2>2. call[t].ec \in Codes /\ "ok" \in Codes /\ {"close", "reclose"} \subseteq Steps
    BY PlainTypes DEF SocketInv, Plain, Codes, Steps
  <2>3. \/ \E ec \in Codes : Leave(t, ec)
        \/ \E step \in Steps : GoOn(t, step)
    BY <1>3, <2>2 DEF LingerOff, Unblock, Forget
  <2> QED
    BY <1>2, <2>1, <2>3, WaitingTells
<1>4. CASE CloseDescriptor(t)
  <2>1. PICK r \in Answers, step \in {"unblock", "forget"} :
          /\ lkl_close(call[t].s, r)
          /\ call' = [call EXCEPT ![t].at = step, ![t].ec = ErrorCode(r.err)]
    BY <1>4 DEF CloseDescriptor
  <2>2. call[t].at # "forget"
    BY <1>4 DEF CloseDescriptor
  <2>3. LinksOf(t)
    BY <1>2, <2>1, <2>2 DEF LinksOf, lkl_close, Reset, kernelVars, SocketInv, Ownership, StateOK, KernelTypeOK
  <2>4. /\ call'[t].op = call[t].op /\ call'[t].ec = ErrorCode(r.err)
        /\ \A u \in Threads \ {t} : call'[u] = call[u]
    BY <2>1, <1>t DEF CallType
  <2>5. Plain(call[t])' /\ AttemptKnown(call[t])'
    BY <1>2, <2>4, CodeOfAnswer, PlainTypes DEF Plain, AttemptKnown, SocketInv
  <2> QED
    BY <2>3, <2>4, <2>5, ThreadTells
<1> QED
  BY <1>3, <1>4

LEMMA OpenTells ==
    ASSUME SocketInv, StateOK', NEW t \in Threads, NEW o \in Sockets, Open(t, o) \/ Assign(t, o)
    PROVE  Told
<1>1. LinksOf(t)
  <2>1. CASE UNCHANGED kernelVars
    BY <2>1 DEF LinksOf, kernelVars
  <2>2. ASSUME NEW f \in Fds, NEW state, NEW mode, NEW lingers, link[f] = "closed", Reset(f, state, mode, lingers)
        PROVE  LinksOf(t)
    BY <2>2, GivenLinks DEF SocketInv, Ownership
  <2>3. CASE Open(t, o)
    BY <2>1, <2>2, <2>3 DEF Open
  <2>4. CASE Assign(t, o)
    BY <2>2, <2>4 DEF Assign
  <2> QED
    BY <2>3, <2>4
<1>2. CASE Open(t, o)
  <2>1. \E ec \in Codes : Leave(t, ec)
    BY <1>2, CodeOfAnswer DEF Open, Codes
  <2> QED
    BY <1>1, <2>1, LeaveTells
<1>3. CASE Assign(t, o)
  BY <1>1, <1>3, QuietTells DEF Assign
<1> QED
  BY <1>2, <1>3

LEMMA AdjustTells ==
    ASSUME SocketInv, StateOK', NEW t \in Threads, NEW o \in Sockets,
           \/ Listen(t, o) \/ Shutdown(t, o) \/ StartOp(t, o)
           \/ \E value \in BOOLEAN : \/ SetUserNonBlocking(t, o, value)
                                     \/ SetInternalNonBlocking(t, o, value)
                                     \/ SetLinger(t, o, value)
           \/ \E p \in Sockets : MoveConstruct(t, o, p)
    PROVE  Told
<1>1. Idle(t) /\ UNCHANGED call
  BY DEF Listen, Shutdown, StartOp, SetUserNonBlocking, SetInternalNonBlocking, SetLinger, MoveConstruct
<1>2. LinksOf(t)
  <2>1. CASE Listen(t, o)
    <3> PICK f \in Fds : f = impl[o].socket /\ link' = [link EXCEPT ![f] = "listening"]
      BY <2>1 DEF Listen
    <3>1. o \in Owners(f) /\ ~Busy(o)
      BY <2>1, FreeOwns DEF Listen, SocketInv
    <3>2. \A g \in Fds \ {f} : link'[g] = link[g]
      BY DEF SocketInv, Ownership, StateOK, KernelTypeOK
    <3> QED
      BY <3>1, <3>2 DEF LinksOf
  <2>2. CASE ~Listen(t, o)
    <3>1. UNCHANGED link
      BY <2>2 DEF Shutdown, StartOp, SetUserNonBlocking, SetInternalNonBlocking, SetLinger, MoveConstruct,
                  lkl_fionbio, lkl_so_linger, kernelVars
    <3> QED
      BY <3>1 DEF LinksOf
  <2> QED
    BY <2>1, <2>2
<1> QED
  BY <1>1, <1>2, QuietTells

LEMMA BeginTells ==
    ASSUME SocketInv, StateOK', NEW t \in Threads,
           NEW op \in {"recv", "send", "connect", "accept"}, NEW o \in Sockets, NEW p \in Sockets,
           NEW empty \in BOOLEAN, Begin(t, op, o, p, empty)
    PROVE  Told
<1>1. UNCHANGED link /\ "badDescriptor" \in Codes /\ "try" \in Steps /\ op \in Waiting
  BY DEF Begin, kernelVars, Codes, Errors, Steps, Waiting, Receiving, Sending
<1>2. CASE impl[o].socket = NoFd
  <2>1. LinksOf(t) /\ Leave(t, "badDescriptor")
    BY <1>1, <1>2 DEF LinksOf, Begin
  <2> QED
    BY <1>1, <2>1, LeaveTells
<1>3. CASE impl[o].socket # NoFd
  <2>1. Enter(t, op, o, p, "try", empty) /\ (op = "connect" => ~Busy(o))
    BY <1>3 DEF Begin, Changing
  <2> QED
    BY <1>1, <1>3, <2>1, EnterTells
<1> QED
  BY <1>2, <1>3

LEMMA NewCallTells ==
    ASSUME SocketInv, StateOK', NEW t \in Threads, NewCall(t)
    PROVE  Told
<1>1. ASSUME NEW op \in Closing, NEW o \in Sockets, NEW p \in Sockets, BeginClose(t, op, o, p)
      PROVE  Told
  <2> DEFINE step == IF impl[o].socket = NoFd THEN "forget"
                     ELSE IF op # "close" /\ "linger" \in impl[o].state THEN "linger"
                     ELSE "close"
  <2>1. /\ Enter(t, op, o, p, step, FALSE) /\ step \in Steps /\ op # "connect"
        /\ UNCHANGED link
    BY <1>1 DEF BeginClose, Steps, Closing, kernelVars
  <2> HIDE DEF step
  <2> QED
    BY <2>1, EnterTells
<1>2. ASSUME NEW o \in Sockets, BeginReceive(t, o) \/ BeginSend(t, o) \/ BeginConnect(t, o)
      PROVE  Told
  BY <1>2, BeginTells DEF BeginReceive, BeginSend, BeginConnect
<1>3. ASSUME NEW o \in Sockets, NEW p \in Sockets, BeginAccept(t, o, p)
      PROVE  Told
  <2>1. CASE Begin(t, "accept", o, p, FALSE)
    BY <2>1, BeginTells
  <2>2. CASE Leave(t, "alreadyOpen") /\ UNCHANGED <<kernelVars, impl>>
    <3>1. "alreadyOpen" \in Codes /\ LinksOf(t)
      BY <2>2 DEF Codes, LinksOf, kernelVars
    <3> QED
      BY <2>2, <3>1, LeaveTells
  <2> QED
    BY <1>3, <2>1, <2>2 DEF BeginAccept
<1>4. {"close", "destroy", "moveAssign"} \subseteq Closing
  BY DEF Closing
<1>5. ASSUME NEW o \in Sockets,
             \/ Open(t, o) \/ Assign(t, o) \/ Listen(t, o) \/ Shutdown(t, o) \/ StartOp(t, o)
             \/ \E value \in BOOLEAN : \/ SetUserNonBlocking(t, o, value)
                                       \/ SetInternalNonBlocking(t, o, value)
                                       \/ SetLinger(t, o, value)
             \/ \E p \in Sockets : MoveConstruct(t, o, p)
      PROVE  Told
  BY <1>5, OpenTells, AdjustTells
<1> QED
  BY <1>1, <1>2, <1>3, <1>4, <1>5 DEF NewCall

-----------------------------------------------------------------------------
(* What a step of one thread leaves to the others, and what its call returns. *)

\* A thread changes no call but its own.
LEMMA OwnCallOnly ==
    ASSUME SocketInv, NEW t \in Threads, CallStep(t) \/ NewCall(t)
    PROVE  \A u \in Threads \ {t} : call'[u] = call[u]
<1>t. call \in [Threads -> CallType]
  BY StateTypes DEF SocketInv, Ownership
<1>1. ASSUME NEW c, call' = [call EXCEPT ![t] = c] PROVE \A u \in Threads \ {t} : call'[u] = call[u]
  BY <1>1, <1>t
<1>2. ASSUME \/ \E ec : Leave(t, ec)
             \/ \E step : GoOn(t, step)
             \/ \E op, o, p, step, empty : Enter(t, op, o, p, step, empty)
      PROVE  \A u \in Threads \ {t} : call'[u] = call[u]
  BY <1>t, <1>2 DEF Leave, GoOn, Enter
<1>3. ASSUME UNCHANGED call PROVE \A u \in Threads \ {t} : call'[u] = call[u]
  BY <1>3
<1>4. CASE CloseDescriptor(t)
  BY <1>t, <1>4 DEF CloseDescriptor
<1>5. CASE CallStep(t) /\ ~CloseDescriptor(t)
  <2>1. \/ \E ec : Leave(t, ec)
        \/ \E step : GoOn(t, step)
    <3>1. CASE TryRecv(t) \/ TrySend(t)
      BY <3>1, ReceivedEffect, RefusedEffect DEF TryRecv, TrySend
    <3>2. CASE TryConnect(t) \/ GetConnectError(t) \/ TryAccept(t) \/ Poll(t)
      BY <3>2 DEF TryConnect, GetConnectError, TryAccept, Poll
    <3>3. CASE LingerOff(t) \/ Unblock(t) \/ Forget(t)
      BY <3>3 DEF LingerOff, Unblock, Forget
    <3> QED
      BY <1>5, <3>1, <3>2, <3>3 DEF CallStep
  <2> QED
    BY <1>2, <2>1
<1>6. CASE NewCall(t)
  <2>1. \/ \E ec : Leave(t, ec)
        \/ \E op, o, p, step, empty : Enter(t, op, o, p, step, empty)
        \/ UNCHANGED call
    <3>1. ASSUME NEW op, NEW o \in Sockets, NEW p \in Sockets, NEW empty \in BOOLEAN,
                 Begin(t, op, o, p, empty) \/ BeginClose(t, op, o, p)
          PROVE  <2>1!1 \/ <2>1!2
      BY <3>1 DEF Begin, BeginClose
    <3>2. ASSUME NEW o \in Sockets,
                 BeginReceive(t, o) \/ BeginSend(t, o) \/ BeginConnect(t, o)
                 \/ \E op \in {"close", "destroy"} : BeginClose(t, op, o, o)
          PROVE  <2>1!1 \/ <2>1!2
      BY <3>1, <3>2 DEF BeginReceive, BeginSend, BeginConnect
    <3>3. ASSUME NEW o \in Sockets, NEW p \in Sockets,
                 BeginAccept(t, o, p) \/ BeginClose(t, "moveAssign", o, p)
          PROVE  <2>1!1 \/ <2>1!2
      BY <3>1, <3>3 DEF BeginAccept
    <3>4. ASSUME NEW o \in Sockets, Open(t, o) \/ Assign(t, o) PROVE <2>1!1 \/ <2>1!3
      BY <3>4 DEF Open, Assign
    <3>5. ASSUME NEW o \in Sockets,
                 \/ Listen(t, o) \/ Shutdown(t, o) \/ StartOp(t, o)
                 \/ \E value \in BOOLEAN : \/ SetUserNonBlocking(t, o, value)
                                           \/ SetInternalNonBlocking(t, o, value)
                                           \/ SetLinger(t, o, value)
                 \/ \E p \in Sockets : MoveConstruct(t, o, p)
          PROVE  UNCHANGED call
      BY <3>5 DEF Listen, Shutdown, StartOp, SetUserNonBlocking, SetInternalNonBlocking, SetLinger, MoveConstruct
    <3> QED
      BY <1>6, <3>2, <3>3, <3>4, <3>5 DEF NewCall
  <2> QED
    BY <1>2, <1>3, <2>1
<1> QED
  BY <1>4, <1>5, <1>6

\* The step that makes a call that waits return is one of that call's.
LEMMA ReturnsByItself ==
    ASSUME SocketInv, [Next]_vars, NEW t \in Threads, call[t].op \in Waiting, NEW ec, call'[t] = Returned(ec)
    PROVE  \/ TryRecv(t) \/ TrySend(t) \/ TryConnect(t) \/ GetConnectError(t) \/ TryAccept(t) \/ Poll(t)
<1>1. "none" \notin Waiting /\ Returned(ec).op = "none"
  BY DEF Waiting, Receiving, Sending, Returned
<1>2. ~UNCHANGED call
  BY <1>1
<1>3. PICK u \in Threads : CallStep(u) \/ NewCall(u)
  BY <1>2 DEF Next, vars
<1>4. u = t
  BY <1>1, <1>3, OwnCallOnly
<1>5. ~NewCall(t)
  <2>1. NewCall(t) => Idle(t)
    BY DEF NewCall, Open, Assign, Listen, Shutdown, StartOp, SetUserNonBlocking, SetInternalNonBlocking,
           SetLinger, BeginReceive, BeginSend, BeginConnect, Begin, BeginClose, MoveConstruct, BeginAccept
  <2> QED
    BY <2>1, IdleThread DEF SocketInv
<1>6. ~(LingerOff(t) \/ CloseDescriptor(t) \/ Unblock(t) \/ Forget(t))
  <2>1. call[t].at \notin ClosingSteps
    BY DEF SocketInv, Ownership, StepsKnown, StepKnown, Waiting, Closing, Receiving, Sending
  <2> QED
    BY <2>1 DEF LingerOff, CloseDescriptor, Unblock, Forget, ClosingSteps
<1> QED
  BY <1>3, <1>4, <1>5, <1>6 DEF CallStep

\* A call that goes on has not returned, and one that leaves returns what it leaves.
LEMMA WhatIsReturned ==
    ASSUME SocketInv, NEW t \in Threads, call[t].op \in Waiting, NEW ec, call'[t] = Returned(ec)
    PROVE  /\ \A step \in Steps : ~GoOn(t, step)
           /\ \A code \in Codes : Leave(t, code) => code = ec
<1>t. call \in [Threads -> CallType]
  BY StateTypes DEF SocketInv, Ownership
<1>1. call'[t].op = "none" /\ call'[t].ec = ec /\ "none" \notin Waiting
  BY DEF Returned, Waiting, Receiving, Sending
<1>2. ASSUME NEW step \in Steps, GoOn(t, step) PROVE FALSE
  <2>1. call'[t] = [call[t] EXCEPT !.at = step]
    BY <1>t, <1>2, GoOnEffect
  <2> QED
    BY <1>t, <1>1, <2>1 DEF CallType
<1>3. ASSUME NEW code \in Codes, Leave(t, code) PROVE code = ec
  <2>1. call'[t] = Returned(code)
    BY <1>t, <1>3, LeaveEffect DEF Results
  <2> QED
    BY <1>1, <2>1 DEF Returned
<1> QED
  BY <1>2, <1>3

LEMMA SameCode == \A r \in Answers :
    /\ ErrorCode(r.err) = "wouldBlock" => r.err = "wouldBlock"
    /\ ErrorCode(r.err) = "ok" => r.err = "ok"
  BY DEF ErrorCode

\* would_block is returned only to a user who asked for it.
LEMMA AskedStep ==
    ASSUME SocketInv, [Next]_vars, NEW t \in Threads, call[t].op \in Waiting, call'[t] = Returned("wouldBlock")
    PROVE  call[t].user
<1>1. ASSUME NEW r \in Answers, Refused(t, r) PROVE call[t].user
  BY <1>1, WhatIsReturned, CodeOfAnswer, SameCode DEF Refused, Steps
<1>2. /\ {"ok", "eof", "noBufferSpace", "refused", "wouldBlock"} \subseteq Codes
      /\ {"poll", "try", "soError"} \subseteq Steps
      /\ ~Leave(t, "ok") /\ ~Leave(t, "eof") /\ ~Leave(t, "noBufferSpace") /\ ~Leave(t, "refused")
      /\ ~GoOn(t, "poll") /\ ~GoOn(t, "try") /\ ~GoOn(t, "soError")
  <2>1. /\ {"ok", "eof", "noBufferSpace", "refused", "wouldBlock"} \subseteq Codes
        /\ {"poll", "try", "soError"} \subseteq Steps
    BY DEF Codes, Errors, Steps
  <2> QED
    BY <2>1, WhatIsReturned
<1>3. CASE TryRecv(t)
  BY <1>1, <1>2, <1>3 DEF TryRecv, Received
<1>4. CASE TrySend(t)
  BY <1>1, <1>2, <1>4 DEF TrySend
<1>5. ASSUME NEW r \in Answers, Leave(t, ErrorCode(r.err)) PROVE r.err = "wouldBlock"
  BY <1>2, <1>5, WhatIsReturned, CodeOfAnswer, SameCode
<1>6. ~TryConnect(t)
  BY <1>2, <1>5 DEF TryConnect
<1>7. ~GetConnectError(t)
  <2>1. ASSUME NEW r \in Answers, NEW pending \in {"ok", "refused"}, lkl_so_error(call[t].s, r, pending)
        PROVE  r.err # "wouldBlock"
    BY <2>1 DEF lkl_so_error, Trouble, Failure, Success
  <2> QED
    BY <1>2, <1>5, <2>1 DEF GetConnectError
<1>8. ~Poll(t)
  <2>1. ASSUME NEW r \in Answers, NEW ready, lkl_poll(call[t].s, ready, r) PROVE r.err # "wouldBlock"
    BY <2>1 DEF lkl_poll, Trouble, Failure, Success
  <2> QED
    BY <1>2, <1>5, <2>1 DEF Poll
<1>9. CASE TryAccept(t)
  <2>1. PICK e \in Errors : /\ ~GoOn(t, "poll") => Leave(t, ErrorCode(e))
                            /\ e = "wouldBlock" /\ ~call[t].user => GoOn(t, "poll")
    BY <1>2, <1>9 DEF TryAccept
  <2>2. ErrorCode(e) \in Codes
    BY DEF ErrorCode, Codes
  <2>3. ErrorCode(e) = "wouldBlock"
    BY <1>2, <2>1, <2>2, WhatIsReturned
  <2>4. e = "wouldBlock"
    BY <2>3 DEF ErrorCode
  <2> QED
    BY <1>2, <2>1, <2>4
<1> QED
  BY <1>3, <1>4, <1>6, <1>7, <1>8, <1>9, ReturnsByItself

\* connect() on a stream tells success only of a connection that stands.
LEMMA ConnectedStep ==
    ASSUME SocketInv, [Next]_vars, NEW t \in Threads,
           call[t].op = "connect", call[t].stream, call'[t] = Returned("ok")
    PROVE  link'[call[t].s] = "connected"
<1>1. /\ call[t].op \in Waiting /\ call[t].op \notin {"recv", "send", "accept"}
      /\ call[t].s \in Fds /\ link[call[t].s] # "closed"
  BY ConnectInHand DEF Waiting, SocketInv
<1>2. /\ {"ok", "noBufferSpace", "refused"} \subseteq Codes
      /\ {"poll", "try", "soError"} \subseteq Steps
      /\ ~Leave(t, "noBufferSpace") /\ ~Leave(t, "refused")
      /\ ~GoOn(t, "poll") /\ ~GoOn(t, "try") /\ ~GoOn(t, "soError")
  <2>1. /\ {"ok", "noBufferSpace", "refused"} \subseteq Codes
        /\ {"poll", "try", "soError"} \subseteq Steps
    BY DEF Codes, Steps
  <2> QED
    BY <1>1, <2>1, WhatIsReturned
<1>3. ASSUME NEW r \in Answers, Leave(t, ErrorCode(r.err)) PROVE r.err = "ok"
  BY <1>1, <1>2, <1>3, WhatIsReturned, CodeOfAnswer, SameCode
<1>4. CASE TryConnect(t)
  <2>1. PICK r \in Answers : lkl_connect(call[t].s, r) /\ r.err = "ok"
    BY <1>2, <1>3, <1>4 DEF TryConnect
  <2>2. link[call[t].s] # "datagram"
    BY DEF SocketInv, ConnectKnown, AttemptKnown
  <2>3. link' = [link EXCEPT ![call[t].s] = "connected"]
    BY <1>1, <2>1, <2>2 DEF lkl_connect, Trouble, Failure
  <2> QED
    BY <1>1, <2>3 DEF SocketInv, Ownership, StateOK, KernelTypeOK
<1>5. CASE GetConnectError(t)
  <2>1. PICK r \in Answers, pending \in {"ok", "refused"} :
          /\ lkl_so_error(call[t].s, r, pending)
          /\ Leave(t, IF r.n = 0 THEN pending ELSE ErrorCode(r.err))
    BY <1>5 DEF GetConnectError
  <2>2. r.err = "ok" \/ r.n = 0
    BY <1>3, <2>1
  <2>3. r.n = 0 /\ pending = "ok"
    BY <1>2, <2>1, <2>2 DEF lkl_so_error, Trouble, Failure, Success
  <2>4. UNCHANGED link /\ link[call[t].s] \notin {"closed", "refused"}
    BY <2>1, <2>3, <1>1 DEF lkl_so_error, Trouble, Failure, kernelVars
  <2>5. link[call[t].s] \in {"connected", "refused"}
    BY <1>5 DEF GetConnectError, At, SocketInv, ConnectKnown, AttemptKnown
  <2> QED
    BY <2>4, <2>5
<1>6. ~Poll(t)
  <2>1. ASSUME NEW r \in Answers, NEW ready, lkl_poll(call[t].s, ready, r), r.n < 0 PROVE r.err # "ok"
    BY <2>1 DEF lkl_poll, Trouble, Failure, Success
  <2> QED
    BY <1>2, <1>3, <2>1 DEF Poll
<1> QED
  BY <1>1, <1>4, <1>5, <1>6, ReturnsByItself DEF TryRecv, TrySend, TryAccept, At

-----------------------------------------------------------------------------
(* The theorems.                                                             *)

LEMMA SocketInvInit == Init => SocketInv
<1> SUFFICES ASSUME Init PROVE SocketInv
  OBVIOUS
<1>1. KernelTypeOK /\ \A f \in Fds : link[f] = "closed"
  BY KernelAssumption DEF Init, KernelInit, KernelTypeOK, Links
<1>2. impl \in [Sockets -> ImplType] /\ \A o \in Sockets : impl[o].socket = NoFd
  BY DEF Init, Constructed, ImplType
<1>3. "ok" \in Results /\ "ok" \in Codes
  BY DEF Results, Codes
<1>4. call \in [Threads -> CallType] /\ \A t \in Threads : call[t] = Returned("ok")
  BY <1>3, ReturnedType DEF Init
<1>5. \A t \in Threads : call[t].op = "none" /\ call[t].at = "returned" /\ call[t].ec = "ok"
  BY <1>4 DEF Returned
<1>6. "none" \notin Waiting \cup Closing \cup Changing /\ "returned" \notin ClosingSteps
  BY DEF Waiting, Closing, Changing, Receiving, Sending, ClosingSteps
<1>7. \A f \in Fds : Owners(f) = {}
  BY <1>2, KernelAssumption DEF Owners
<1>8. StateOK /\ SocketTypeOK
  BY <1>1, <1>2, <1>3, <1>4, <1>5, StateTypes, PlainTypes DEF Plain
<1>9. StepsKnown /\ Exclusive /\ InHand /\ CloseReady /\ ConnectKnown
  BY <1>5, <1>6 DEF StepsKnown, StepKnown, Exclusive, Concerns, InHand, HasInHand, CloseReady, ReadyToClose,
                    ConnectKnown, AttemptKnown
<1>10. OwnersApart /\ FlagsTell /\ ModeIsKnown /\ NoDescriptorLost
  BY <1>1, <1>7 DEF OwnersApart, FlagsTell, ModeIsKnown, NoDescriptorLost
<1> QED
  BY <1>8, <1>9, <1>10 DEF SocketInv, Ownership

LEMMA SocketInvStep == SocketInv /\ [Next]_vars => SocketInv'
<1> SUFFICES ASSUME SocketInv, [Next]_vars PROVE SocketInv'
  OBVIOUS
<1>1. Ownership' /\ NoDescriptorLost' /\ StateOK'
  BY StepKeeps DEF SocketInv, Keeps, Ownership
<1>2. ASSUME NEW t \in Threads, CallStep(t) PROVE Told
  BY <1>1, <1>2, TryRecvTells, TrySendTells, TryConnectTells, GetConnectErrorTells, TryAcceptTells,
     PollTells, ClosingTells DEF CallStep
<1>3. ASSUME NEW t \in Threads, NewCall(t) PROVE Told
  BY <1>1, <1>3, NewCallTells
<1>4. ASSUME UNCHANGED call, UNCHANGED link PROVE Told
  BY <1>1, <1>4, NetworkTells
<1>5. ASSUME Network, UNCHANGED call PROVE Told
  <2>1. \A f \in Fds : \/ link'[f] = link[f]
                       \/ link[f] = "connecting" /\ link'[f] \in {"connected", "refused"}
    BY <1>5 DEF Network, Established, Arrives, PeerCloses, SocketInv, Ownership, StateOK, KernelTypeOK
  <2> QED
    BY <1>1, <1>5, <2>1, NetworkTells
<1>6. Told
  BY <1>2, <1>3, <1>4, <1>5 DEF Next, vars, kernelVars
<1> QED
  BY <1>1, <1>6 DEF SocketInv, Told

\* The inductive invariant holds in every behaviour of the service.
THEOREM SocketInvariantHolds == Spec => []SocketInv
  BY SocketInvInit, SocketInvStep, PTL DEF Spec

\* Every variable keeps to its type.
THEOREM SocketTypes == Spec => []SocketTypeOK
<1>1. SocketInv => SocketTypeOK
  BY DEF SocketInv
<1> QED
  BY <1>1, SocketInvariantHolds, PTL

\* No open descriptor is without an object that will close it, whichever of
\* close(), the moves and accept() came when and were refused.
THEOREM NoneIsLost == Spec => []NoDescriptorLost
<1>1. SocketInv => NoDescriptorLost
  BY DEF SocketInv
<1> QED
  BY <1>1, SocketInvariantHolds, PTL

\* A descriptor has one object at most, and an object that has one has an open one.
THEOREM OneOwner == Spec => []OwnedOnce
<1>1. ASSUME SocketInv, NEW f \in Fds
      PROVE  Cardinality(Owners(f)) <= 1 /\ (Owners(f) # {} => link[f] # "closed")
  <2>1. \A o \in Owners(f) : o \in Sockets
    BY DEF Owners
  <2>2. CASE Owners(f) = {}
    BY <2>2, FS_EmptySet
  <2>3. CASE Owners(f) # {}
    <3> PICK o \in Sockets : o \in Owners(f)
      BY <2>1, <2>3
    <3>1. link[f] # "closed" /\ Owners(f) = {o}
      BY <1>1 DEF SocketInv, Ownership, OwnersApart
    <3>2. Cardinality(Owners(f)) = 1
      BY <3>1, FS_Singleton
    <3> QED
      BY <3>1, <3>2
  <2> QED
    BY <2>2, <2>3
<1>2. SocketInv => OwnedOnce
  BY <1>1 DEF OwnedOnce
<1> QED
  BY <1>2, SocketInvariantHolds, PTL

\* The flags of an object tell whether its descriptor blocks.
THEOREM ModesAreKnown == Spec => []ModeIsKnown
<1>1. SocketInv => ModeIsKnown
  BY DEF SocketInv, Ownership
<1> QED
  BY <1>1, SocketInvariantHolds, PTL

\* No destructor waits for data to be sent.
THEOREM DestructorsDoNotWait == Spec => []DestructorDoesNotLinger
<1>1. SocketInv => DestructorDoesNotLinger
  BY DEF SocketInv, Ownership, CloseReady, ReadyToClose, DestructorDoesNotLinger
<1> QED
  BY <1>1, SocketInvariantHolds, PTL

\* A user who did not ask for non-blocking calls is never told would_block.
THEOREM CallsBlockUnlessAsked == Spec => BlocksUnlessAsked
<1>1. SocketInv /\ [Next]_vars =>
        [\A t \in Threads :
           call[t].op \in Waiting /\ call'[t] = Returned("wouldBlock") => call[t].user]_vars
  BY AskedStep
<1> QED
  BY <1>1, SocketInvariantHolds, PTL DEF Spec, BlocksUnlessAsked

\* connect() does not tell success of an attempt that failed.
THEOREM ConnectTellsTheTruth == Spec => ConnectedWhenTold
<1>1. SocketInv /\ [Next]_vars =>
        [\A t \in Threads :
           call[t].op = "connect" /\ call[t].stream /\ call'[t] = Returned("ok") =>
               link'[call[t].s] = "connected"]_vars
  BY ConnectedStep
<1> QED
  BY <1>1, SocketInvariantHolds, PTL DEF Spec, ConnectedWhenTold
=============================================================================
