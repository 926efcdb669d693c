------------------------------- MODULE LklCalls -------------------------------
(***************************************************************************)
(* The calls of the socket service that never wait: names, options, the    *)
(* amount of data, the mode, select().  Each is one kernel call; what can  *)
(* go wrong is its error, which goes from LKL to the host's errno of the   *)
(* thread (lkl_set_errno()), and from there to an error_code.  One thread  *)
(* uses one socket; whatever else it runs may leave anything in errno.     *)
(***************************************************************************)
EXTENDS Integers, FiniteSets

CONSTANTS KernelErrors,  \* numbers LKL may answer a call with, those it should
                         \* have kept to itself included
          HostErrors,    \* what other code of the thread may leave in errno
          LayerErrors,   \* what the host layer of LKL may leave there while it runs a call
          Sizes          \* buffer sizes, within the limits of the kernel

ASSUME CallsAssumption ==
    /\ KernelErrors \subseteq Nat \ {0} /\ Sizes \subseteq Nat \ {0}
    /\ HostErrors \subseteq Nat /\ LayerErrors \subseteq Nat

VARIABLES errno,   \* errno of the thread
          open,    \* impl.socket_ is a descriptor
          state,   \* the part of impl.state_ the calls here touch
          buffer,  \* SO_SNDBUF in the kernel
          name,    \* the socket has a local name
          asked,   \* history: what set_option() last set with success
          last     \* the last call: its result, its error_code, what it told

callVars == <<errno, open, state, buffer, name, asked, last>>

EBADF == 9   EINVAL == 22   ENOTTY == 25   ENOTSOCK == 88

CallInit ==
    /\ errno \in HostErrors
    /\ open = FALSE /\ state = {} /\ buffer = 0 /\ name = FALSE
    /\ asked = [size |-> 0, aborted |-> FALSE]
    /\ last = [op |-> "none", n |-> 0, ec |-> 0, answer |-> 0, value |-> 0]

-----------------------------------------------------------------------------
(* errno.  41 and 58 are not assigned, 133 is the last.                      *)

FirstNumbers == 1..49 \ {41}
MiddleNumbers == 50..100 \ {58}
LastNumbers == 101..133
Known == FirstNumbers \cup MiddleNumbers \cup LastNumbers

\* errno after a call that answered r; each number has the same name on both sides.
lkl_set_errno(r, before) == IF -r \in Known THEN -r ELSE before

\* The wrapper of a call, which answered r, then error_wrapper() and the tests of the
\* result after it.
Told(op, before, r, value) ==
    /\ errno' = lkl_set_errno(r, before)
    /\ last' = [op |-> op, n |-> IF r < 0 THEN -1 ELSE r, ec |-> IF r < 0 THEN errno' ELSE 0,
                answer |-> r, value |-> value]

\* What is in errno when LKL has answered: what was there before the call, or what the
\* host layer of LKL, which runs on the same thread, left.
Left(before) == {before} \cup LayerErrors

\* Faulty variant: errno is not cleared.
CallStale(op, r, value) == \E before \in Left(errno) : Told(op, before, r, value)

\* clear_last_error(), the call, error_wrapper().
Call(op, r, value) == \E before \in Left(0) : Told(op, before, r, value)

Refuse(op, number) ==
    /\ last' = [op |-> op, n |-> -1, ec |-> number, answer |-> 0, value |-> 0]
    /\ UNCHANGED errno

Fails == {-e : e \in KernelErrors}
Answers == {0} \cup Fails

NotOpen(op) == ~open /\ Refuse(op, EBADF) /\ UNCHANGED <<open, state, buffer, name, asked>>

\* Other code of the thread.
HostCode ==
    /\ errno' \in HostErrors
    /\ UNCHANGED <<open, state, buffer, name, asked, last>>

-----------------------------------------------------------------------------
(* socket(), bind(), and what names a socket has.                            *)

OpenSocket ==
    /\ ~open
    /\ \E r \in Answers :
          /\ Call("socket", r, 0)
          /\ open' = (r = 0)
          /\ buffer' \in IF r = 0 THEN {2 * size : size \in Sizes} ELSE {buffer}
    /\ state' = {} /\ name' = FALSE /\ asked' = [size |-> 0, aborted |-> FALSE]

CloseSocket ==
    /\ open
    /\ open' = FALSE /\ state' = {} /\ buffer' = 0 /\ name' = FALSE
    /\ asked' = [size |-> 0, aborted |-> FALSE]
    /\ UNCHANGED <<errno, last>>

SocketPair ==
    /\ \E r \in Answers : Call("socketpair", r, 0)
    /\ UNCHANGED <<open, state, buffer, name, asked>>

Bind ==
    \/ NotOpen("bind")
    \/ /\ open
       /\ \E r \in Answers :
             /\ r = 0 => ~name
             /\ Call("bind", r, 0)
             /\ name' = (name \/ r = 0)
       /\ UNCHANGED <<open, state, buffer, asked>>

\* A failure is told by an empty endpoint as well, whatever the error_code.
Endpoint(op, exists) ==
    \/ NotOpen(op)
    \/ /\ open
       /\ \E r \in Answers : Call(op, r, IF r = 0 /\ exists THEN 1 ELSE 0)
       /\ UNCHANGED <<open, state, buffer, name, asked>>

GetSockName == Endpoint("getsockname", name)
GetPeerName == Endpoint("getpeername", TRUE)

-----------------------------------------------------------------------------
(* Options.  always_fail and enable_connection_aborted are not the kernel's. *)

AlwaysFail(op) == open /\ Refuse(op, EINVAL) /\ UNCHANGED <<open, state, buffer, name, asked>>

SetAborted(rightSize, value) ==
    /\ open
    /\ \/ ~rightSize /\ Refuse("setsockopt", EINVAL) /\ UNCHANGED <<state, asked>>
       \/ /\ rightSize
          /\ state' = IF value THEN state \cup {"aborted"} ELSE state \ {"aborted"}
          /\ asked' = [asked EXCEPT !.aborted = value]
          /\ last' = [op |-> "setsockopt", n |-> 0, ec |-> 0, answer |-> 0, value |-> 0]
          /\ UNCHANGED errno
    /\ UNCHANGED <<open, buffer, name>>

\* The kernel doubles the size of a buffer.
SetBuffer(size) ==
    /\ open
    /\ \E r \in Answers :
          /\ Call("setsockopt", r, 0)
          /\ buffer' = IF r = 0 THEN 2 * size ELSE buffer
          /\ asked' = IF r = 0 THEN [asked EXCEPT !.size = size] ELSE asked
    /\ UNCHANGED <<open, state, name>>

\* That the user has set the option is noted before it is known whether he has.
SetLingerOption ==
    /\ open
    /\ \E r \in Answers : Call("setsockopt", r, 0)
    /\ state' = state \cup {"linger"}
    /\ UNCHANGED <<open, buffer, name, asked>>

SetSockOpt ==
    \/ NotOpen("setsockopt") \/ AlwaysFail("setsockopt") \/ SetLingerOption
    \/ \E rightSize, value \in BOOLEAN : SetAborted(rightSize, value)
    \/ \E size \in Sizes : SetBuffer(size)

GetAborted(rightSize) ==
    /\ open
    /\ \/ ~rightSize /\ Refuse("getAborted", EINVAL)
       \/ /\ rightSize
          /\ last' = [op |-> "getAborted", n |-> 0, ec |-> 0, answer |-> 0,
                      value |-> IF "aborted" \in state THEN 1 ELSE 0]
          /\ UNCHANGED errno
    /\ UNCHANGED <<open, state, buffer, name, asked>>

\* Faulty variant: the size is told as the kernel has it.
GetBufferRaw ==
    /\ open
    /\ \E r \in Answers : Call("getBuffer", r, IF r = 0 THEN buffer ELSE 0)
    /\ UNCHANGED <<open, state, buffer, name, asked>>

\* "The retrieved value is divided by 2".
GetBuffer ==
    /\ open
    /\ \E r \in Answers : Call("getBuffer", r, IF r = 0 THEN buffer \div 2 ELSE 0)
    /\ UNCHANGED <<open, state, buffer, name, asked>>

GetSockOpt ==
    \/ NotOpen("getsockopt") \/ AlwaysFail("getsockopt") \/ GetBuffer
    \/ \E rightSize \in BOOLEAN : GetAborted(rightSize)

-----------------------------------------------------------------------------
(* ioctl() and select().                                                     *)

\* Neither clears errno first; "not a typewriter" means that it is not a socket.
Inspect(op) ==
    \/ NotOpen(op)
    \/ /\ open
       /\ \E r \in Answers, before \in Left(errno) :
             /\ errno' = lkl_set_errno(r, before)
             /\ last' = [op |-> op, n |-> IF r < 0 THEN -1 ELSE 0, answer |-> r,
                         ec |-> IF r >= 0 THEN 0
                                ELSE IF errno' = ENOTTY THEN ENOTSOCK ELSE errno',
                         value |-> 0]
       /\ UNCHANGED <<open, state, buffer, name, asked>>

SockAtMark == Inspect("sockatmark")
Available == Inspect("available")

\* A new mode is noted when the kernel has taken it.
Ioctl(cmd, value) ==
    \/ NotOpen("ioctl")
    \/ /\ open
       /\ \E r \in Answers :
             /\ Call("ioctl", r, 0)
             /\ state' = IF r < 0 \/ cmd # "FIONBIO" THEN state
                         ELSE IF value THEN state \cup {"user"}
                         ELSE state \ {"user", "internal"}
       /\ UNCHANGED <<open, buffer, name, asked>>

Select ==
    /\ \E r \in Answers \cup {1} : Call("select", r, 0)
    /\ UNCHANGED <<open, state, buffer, name, asked>>

-----------------------------------------------------------------------------
Calls ==
    \/ OpenSocket \/ CloseSocket \/ SocketPair \/ Bind \/ GetSockName \/ GetPeerName
    \/ SetSockOpt \/ GetSockOpt \/ SockAtMark \/ Available \/ Select
    \/ \E cmd \in {"FIONBIO", "other"}, value \in BOOLEAN : Ioctl(cmd, value)
=============================================================================
