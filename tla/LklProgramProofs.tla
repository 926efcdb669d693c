--------------------------- MODULE LklProgramProofs ---------------------------
(***************************************************************************)
(* Proofs about LklProgram: a server without a network has said so, and no *)
(* call tells the error of another, for every set of error numbers LKL and *)
(* the host may produce.                                                   *)
(***************************************************************************)
EXTENDS LklProgram, TLAPS

\* The stages of main() that only a complete command line leads to.
Starting == {"create", "add", "start", "ifindex", "address", "ifup", "listen", "serving"}

\* What init_lkl() has done when it is at a step, and what main() knows after it.
BootInv ==
    /\ stage \in Starting => given.complete /\ ~given.help /\ ~given.version
    /\ stage \in {"parse", "create", "add"} => network = {}
    /\ stage \in {"start", "ifindex"} => network = {"added"}
    /\ stage = "address" => kernel = "up" /\ network = {"added", "index"}
    /\ stage = "ifup" => kernel = "up" /\ network = {"added", "index", "addressed"}
    /\ stage \in {"listen", "serving"} =>
          \/ kernel = "up" /\ network = {"added", "index", "addressed", "up"}
          \/ "failure" \in said

\* Every step of the start keeps BootInv: a step of init_lkl() is added to the network
\* or its failure is printed, and only a running kernel lets it succeed.
LEMMA BootStep == BootInv /\ Boot => BootInv'
<1> SUFFICES ASSUME BootInv, Boot PROVE BootInv'
  OBVIOUS
<1> USE DEF BootInv, Starting, Say, Answered
<1>1. CASE ParseConfig
  BY <1>1 DEF ParseConfig
<1>2. CASE CreateDevice
  BY <1>2 DEF CreateDevice
<1>3. CASE AddDevice
  BY <1>3 DEF AddDevice
<1>4. CASE StartKernel
  BY <1>4 DEF StartKernel
<1>5. CASE GetIfindex
  BY <1>5 DEF GetIfindex, Configure
<1>6. CASE SetAddress
  BY <1>6 DEF SetAddress, Configure
<1>7. CASE SetUp
  BY <1>7 DEF SetUp, Configure
<1>8. CASE Listen
  BY <1>8 DEF Listen
<1>9. CASE CallWithoutKernel
  BY <1>9 DEF CallWithoutKernel
<1>10. CASE HaltLkl
  BY <1>10 DEF HaltLkl
<1> QED
  BY <1>1, <1>2, <1>3, <1>4, <1>5, <1>6, <1>7, <1>8, <1>9, <1>10 DEF Boot

\* main() serves without a network only after init_lkl() has printed an error.
THEOREM NeverSilent == Spec => []ServesOrSays
<1>1. Init => BootInv
  BY DEF Init, BootInit, BootInv, Starting
<1>2. BootInv /\ [Next]_vars => BootInv'
  <2> SUFFICES ASSUME BootInv, [Next]_vars PROVE BootInv'
    OBVIOUS
  <2>1. CASE Boot
    BY <2>1, BootStep
  <2>2. CASE UNCHANGED bootVars
    BY <2>2 DEF BootInv, Starting, bootVars
  <2> QED
    BY <2>1, <2>2 DEF Next, vars
<1>3. BootInv => ServesOrSays
  BY DEF BootInv, ServesOrSays, Starting
<1> QED
  BY <1>1, <1>2, <1>3, PTL DEF Spec

-----------------------------------------------------------------------------
\* A call that clears errno first tells its own error: error_wrapper() after
\* lkl_set_errno().
LEMMA CallTellsOwn ==
    ASSUME NEW r \in Answers \cup {1}, NEW op, NEW value,
           op \notin {"sockatmark", "available"}, Call(op, r, value)
    PROVE  ErrorIsOwn'
<1>1. r = 0 \/ r = 1 \/ \E e \in Nat \ {0} : r = -e
  BY CallsAssumption DEF Answers, Fails
<1>2. PICK before \in {0} \cup LayerErrors :
         /\ last'.op = op /\ last'.answer = r
         /\ last'.n = (IF r < 0 THEN -1 ELSE r)
         /\ last'.ec = (IF r < 0 THEN IF -r \in Known THEN -r ELSE before ELSE 0)
  BY DEF Call, Left, Told, lkl_set_errno
<1>3. CASE r \in {0, 1}
  BY <1>2, <1>3 DEF ErrorIsOwn, Known, FirstNumbers, MiddleNumbers, LastNumbers
<1>4. CASE \E e \in Nat \ {0} : r = -e
  <2> PICK e \in Nat \ {0} : r = -e
    BY <1>4
  <2>1. r < 0 /\ -r = e /\ ~(-1 >= 0)
    OBVIOUS
  <2> QED
    BY <1>2, <2>1 DEF ErrorIsOwn
<1> QED
  BY <1>1, <1>3, <1>4

\* So does a call that is refused before it reaches LKL, or answered without it.
LEMMA OwnAnswer ==
    ASSUME last'.answer = 0, last'.n \in {-1, 0}, last'.n = 0 => last'.ec = 0
    PROVE  ErrorIsOwn'
BY DEF ErrorIsOwn, Known, FirstNumbers, MiddleNumbers, LastNumbers

LEMMA RefusalTellsOwn ==
    ASSUME NEW op, NEW number, Refuse(op, number)
    PROVE  ErrorIsOwn'
BY OwnAnswer DEF Refuse

\* sockatmark() and available() tell a number that lkl_set_errno() knows.
LEMMA InspectTellsOwn ==
    ASSUME NEW op \in {"sockatmark", "available"}, Inspect(op)
    PROVE  ErrorIsOwn'
<1>1. CASE NotOpen(op)
  BY <1>1, RefusalTellsOwn DEF NotOpen
<1>2. ASSUME NEW r \in Answers, NEW before \in Left(errno),
             errno' = lkl_set_errno(r, before),
             last' = [op |-> op, n |-> IF r < 0 THEN -1 ELSE 0, answer |-> r,
                      ec |-> IF r >= 0 THEN 0 ELSE IF errno' = ENOTTY THEN ENOTSOCK ELSE errno',
                      value |-> 0]
      PROVE  ErrorIsOwn'
  <2>1. r = 0 \/ \E e \in Nat \ {0} : r = -e
    BY CallsAssumption DEF Answers, Fails
  <2>2. CASE r = 0
    BY <1>2, <2>2, OwnAnswer
  <2>3. CASE \E e \in Nat \ {0} : r = -e
    <3> PICK e \in Nat \ {0} : r = -e
      BY <2>3
    <3>1. r < 0 /\ -r = e /\ ~(r >= 0)
      OBVIOUS
    <3>2. /\ last'.op \in {"sockatmark", "available"} /\ last'.n = -1 /\ last'.answer = r
          /\ last'.ec = (IF errno' = ENOTTY THEN ENOTSOCK ELSE errno')
      BY <1>2, <3>1
    <3>3. e \in Known => errno' = e
      BY <1>2, <3>1 DEF lkl_set_errno
    <3> QED
      BY <3>1, <3>2, <3>3 DEF ErrorIsOwn
  <2> QED
    BY <2>1, <2>2, <2>3
<1> QED
  BY <1>1, <1>2 DEF Inspect

\* Each call of the service tells its own error.
LEMMA CallsTellOwn == ErrorIsOwn /\ Calls => ErrorIsOwn'
<1> SUFFICES ASSUME ErrorIsOwn, Calls PROVE ErrorIsOwn'
  OBVIOUS
<1>1. CASE OpenSocket
  BY <1>1, CallTellsOwn DEF OpenSocket
<1>2. CASE CloseSocket
  BY <1>2 DEF CloseSocket, ErrorIsOwn
<1>3. CASE SocketPair
  BY <1>3, CallTellsOwn DEF SocketPair
<1>4. CASE Bind
  BY <1>4, CallTellsOwn, RefusalTellsOwn DEF Bind, NotOpen
<1>5. CASE GetSockName
  BY <1>5, CallTellsOwn, RefusalTellsOwn DEF GetSockName, Endpoint, NotOpen
<1>6. CASE GetPeerName
  BY <1>6, CallTellsOwn, RefusalTellsOwn DEF GetPeerName, Endpoint, NotOpen
<1>7. CASE SetSockOpt
  <2>1. CASE NotOpen("setsockopt") \/ AlwaysFail("setsockopt")
    BY <2>1, RefusalTellsOwn DEF NotOpen, AlwaysFail
  <2>2. CASE SetLingerOption
    BY <2>2, CallTellsOwn DEF SetLingerOption
  <2>3. ASSUME NEW rightSize \in BOOLEAN, NEW value \in BOOLEAN, SetAborted(rightSize, value)
        PROVE  ErrorIsOwn'
    BY <2>3, RefusalTellsOwn, OwnAnswer DEF SetAborted
  <2>4. ASSUME NEW size \in Sizes, SetBuffer(size) PROVE ErrorIsOwn'
    BY <2>4, CallTellsOwn DEF SetBuffer
  <2> QED
    BY <1>7, <2>1, <2>2, <2>3, <2>4 DEF SetSockOpt
<1>8. CASE GetSockOpt
  <2>1. CASE NotOpen("getsockopt") \/ AlwaysFail("getsockopt")
    BY <2>1, RefusalTellsOwn DEF NotOpen, AlwaysFail
  <2>2. CASE GetBuffer
    BY <2>2, CallTellsOwn DEF GetBuffer
  <2>3. ASSUME NEW rightSize \in BOOLEAN, GetAborted(rightSize) PROVE ErrorIsOwn'
    BY <2>3, RefusalTellsOwn, OwnAnswer DEF GetAborted
  <2> QED
    BY <1>8, <2>1, <2>2, <2>3 DEF GetSockOpt
<1>9. CASE SockAtMark \/ Available
  BY <1>9, InspectTellsOwn DEF SockAtMark, Available
<1>10. CASE Select
  BY <1>10, CallTellsOwn DEF Select
<1>11. ASSUME NEW cmd \in {"FIONBIO", "other"}, NEW value \in BOOLEAN, Ioctl(cmd, value)
       PROVE  ErrorIsOwn'
  BY <1>11, CallTellsOwn, RefusalTellsOwn DEF Ioctl, NotOpen
<1> QED
  BY <1>1, <1>2, <1>3, <1>4, <1>5, <1>6, <1>7, <1>8, <1>9, <1>10, <1>11 DEF Calls

\* No call tells an error that another call, or other code of the thread, left behind.
THEOREM ErrorsAreOwn == Spec => []ErrorIsOwn
<1>1. Init => ErrorIsOwn
  BY DEF Init, CallInit, ErrorIsOwn, Known, FirstNumbers, MiddleNumbers, LastNumbers
<1>2. ErrorIsOwn /\ [Next]_vars => ErrorIsOwn'
  <2> SUFFICES ASSUME ErrorIsOwn, [Next]_vars PROVE ErrorIsOwn'
    OBVIOUS
  <2>1. CASE Calls
    BY <2>1, CallsTellOwn
  <2>2. CASE last' = last
    BY <2>2 DEF ErrorIsOwn
  <2> QED
    BY <2>1, <2>2 DEF Next, Serve, HostCode, vars, callVars
<1> QED
  BY <1>1, <1>2, PTL DEF Spec

-----------------------------------------------------------------------------
\* What the user set last is what the kernel, or the object, has.
OptionsKept ==
    /\ asked \in [size : Nat, aborted : BOOLEAN]
    /\ asked.aborted <=> "aborted" \in state
    /\ asked.size # 0 => buffer = 2 * asked.size

\* A call that reads no option leaves none to be compared.
LEMMA ReadsNothing ==
    ASSUME last'.op \notin {"getAborted", "getBuffer"} PROVE OptionsReadBack'
  BY DEF OptionsReadBack

LEMMA CallOperation ==
    ASSUME NEW op, NEW r, NEW value, Call(op, r, value) PROVE last'.op = op
  BY DEF Call, Told

LEMMA RefuseOperation ==
    ASSUME NEW op, NEW number, Refuse(op, number) PROVE last'.op = op /\ last'.n # 0
  BY DEF Refuse

\* A refused call tells no option.
LEMMA RefusalReadsNothing ==
    ASSUME NEW op, NEW number, Refuse(op, number) PROVE OptionsReadBack'
  BY RefuseOperation DEF OptionsReadBack

\* Setting an option notes what was set; reading one finds what was noted.
LEMMA OptionsStep == OptionsKept /\ OptionsReadBack /\ Calls => OptionsKept' /\ OptionsReadBack'
<1> SUFFICES ASSUME OptionsKept, OptionsReadBack, Calls PROVE OptionsKept' /\ OptionsReadBack'
  OBVIOUS
<1>1. CASE OpenSocket
  <2>1. OptionsKept'
    BY <1>1 DEF OpenSocket, OptionsKept
  <2>2. last'.op = "socket"
    BY <1>1, CallOperation DEF OpenSocket
  <2> QED
    BY <2>1, <2>2, ReadsNothing
<1>2. CASE CloseSocket
  BY <1>2 DEF CloseSocket, OptionsKept, OptionsReadBack
<1>3. CASE /\ UNCHANGED <<asked, state, buffer>>
           /\ SocketPair \/ Bind \/ GetSockName \/ GetPeerName \/ SockAtMark \/ Available \/ Select
  <2>1. OptionsKept'
    BY <1>3 DEF OptionsKept
  <2>2. CASE SocketPair \/ Select
    BY <2>1, <2>2, CallOperation, ReadsNothing DEF SocketPair, Select
  <2>3. CASE Bind
    BY <2>1, <2>3, CallOperation, ReadsNothing, RefusalReadsNothing DEF Bind, NotOpen
  <2>4. CASE GetSockName \/ GetPeerName
    BY <2>1, <2>4, CallOperation, ReadsNothing, RefusalReadsNothing DEF GetSockName, GetPeerName, Endpoint, NotOpen
  <2>5. CASE SockAtMark \/ Available
    BY <2>1, <2>5, ReadsNothing, RefusalReadsNothing DEF SockAtMark, Available, Inspect, NotOpen
  <2> QED
    BY <1>3, <2>2, <2>3, <2>4, <2>5
<1>4. UNCHANGED <<asked, state, buffer>> \/ OpenSocket \/ CloseSocket \/ SetSockOpt
      \/ \E cmd \in {"FIONBIO", "other"}, value \in BOOLEAN : Ioctl(cmd, value)
  BY DEF Calls, SocketPair, Select, Bind, GetSockName, GetPeerName, Endpoint, NotOpen, SockAtMark, Available,
         Inspect, GetSockOpt, AlwaysFail, GetBuffer, GetAborted
<1>5. CASE SetSockOpt
  <2>1. CASE NotOpen("setsockopt") \/ AlwaysFail("setsockopt")
    BY <2>1, RefusalReadsNothing DEF NotOpen, AlwaysFail, OptionsKept
  <2>2. CASE SetLingerOption
    BY <2>2, CallOperation, ReadsNothing DEF SetLingerOption, OptionsKept
  <2>3. ASSUME NEW rightSize \in BOOLEAN, NEW value \in BOOLEAN, SetAborted(rightSize, value)
        PROVE  OptionsKept' /\ OptionsReadBack'
    <3>1. OptionsKept'
      BY <2>3 DEF SetAborted, OptionsKept
    <3>2. last'.op = "setsockopt"
      BY <2>3, RefuseOperation DEF SetAborted
    <3> QED
      BY <3>1, <3>2, ReadsNothing
  <2>4. ASSUME NEW size \in Sizes, SetBuffer(size) PROVE OptionsKept' /\ OptionsReadBack'
    <3>1. OptionsKept'
      BY <2>4, CallsAssumption DEF SetBuffer, OptionsKept
    <3>2. last'.op = "setsockopt"
      BY <2>4, CallOperation DEF SetBuffer
    <3> QED
      BY <3>1, <3>2, ReadsNothing
  <2> QED
    BY <1>5, <2>1, <2>2, <2>3, <2>4 DEF SetSockOpt
<1>6. CASE GetSockOpt
  <2>1. OptionsKept'
    BY <1>6 DEF GetSockOpt, NotOpen, AlwaysFail, GetBuffer, GetAborted, OptionsKept
  <2>2. CASE NotOpen("getsockopt") \/ AlwaysFail("getsockopt")
    BY <2>1, <2>2, RefusalReadsNothing DEF NotOpen, AlwaysFail
  <2>3. CASE GetBuffer
    <3> PICK r \in Answers : Call("getBuffer", r, IF r = 0 THEN buffer \div 2 ELSE 0)
      BY <2>3 DEF GetBuffer
    <3>1. r = 0 \/ \E e \in Nat \ {0} : r = -e
      BY CallsAssumption DEF Answers, Fails
    <3>2. /\ last'.op = "getBuffer" /\ last'.n = (IF r < 0 THEN -1 ELSE r)
          /\ last'.value = (IF r = 0 THEN buffer \div 2 ELSE 0)
      BY DEF Call, Told
    <3>3. asked.size # 0 => buffer \div 2 = asked.size
      BY DEF OptionsKept
    <3>4. UNCHANGED asked
      BY <2>3 DEF GetBuffer
    <3> QED
      BY <2>1, <3>1, <3>2, <3>3, <3>4 DEF OptionsReadBack
  <2>4. ASSUME NEW rightSize \in BOOLEAN, GetAborted(rightSize) PROVE OptionsReadBack'
    BY <2>4, RefusalReadsNothing DEF GetAborted, OptionsKept, OptionsReadBack
  <2> QED
    BY <1>6, <2>1, <2>2, <2>3, <2>4 DEF GetSockOpt
<1>7. ASSUME NEW cmd \in {"FIONBIO", "other"}, NEW value \in BOOLEAN, Ioctl(cmd, value)
      PROVE  OptionsKept' /\ OptionsReadBack'
  <2>1. OptionsKept'
    BY <1>7 DEF Ioctl, NotOpen, OptionsKept
  <2> QED
    BY <1>7, <2>1, CallOperation, ReadsNothing, RefusalReadsNothing DEF Ioctl, NotOpen
<1> QED
  BY <1>1, <1>2, <1>3, <1>4, <1>5, <1>6, <1>7 DEF Calls

\* An option that is read with success is what the user set last, for every size.
THEOREM OptionsAreRead == Spec => []OptionsReadBack
<1>1. Init => OptionsKept /\ OptionsReadBack
  BY DEF Init, CallInit, OptionsKept, OptionsReadBack
<1>2. OptionsKept /\ OptionsReadBack /\ [Next]_vars => OptionsKept' /\ OptionsReadBack'
  <2> SUFFICES ASSUME OptionsKept, OptionsReadBack, [Next]_vars PROVE OptionsKept' /\ OptionsReadBack'
    OBVIOUS
  <2>1. CASE Calls
    BY <2>1, OptionsStep
  <2>2. CASE UNCHANGED <<open, state, buffer, asked, last>>
    BY <2>2 DEF OptionsKept, OptionsReadBack
  <2> QED
    BY <2>1, <2>2 DEF Next, Serve, HostCode, vars, callVars
<1> QED
  BY <1>1, <1>2, PTL DEF Spec
=============================================================================
