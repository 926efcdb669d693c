---------------------------- MODULE RelayInvariant ----------------------------
(***************************************************************************)
(* The inductive invariant of RelayStreams, RelayInv.  StreamsIntact is    *)
(* not kept by itself: it says nothing before the user id was read, and a  *)
(* read that loses what the thread still holds would break it.  The other  *)
(* parts tell where the units are while handshake() runs, when a thread    *)
(* holds some, and what the client may have sent before its reply.         *)
(***************************************************************************)
EXTENDS RelayProperties

Unit == {"request", "id", "nul", "host", "remote", "success", "failed"} \X Nat

Places == {"none", "request", "userid", "connect", "refuse", "reply", "spawn",
           "read", "write", "eof", "over", "failed", "thrown"}

VariablesOK ==
    /\ script \in [Sides -> Seq(Unit)] /\ sent \in [Sides -> Nat]
    /\ ended \in [Sides -> BOOLEAN] /\ eager \in BOOLEAN
    /\ in \in [Sides -> Seq(Unit)] /\ got \in [Sides -> Seq(Unit)]
    /\ hand \in [Sides -> Seq(Unit)]
    /\ pc \in [Sides -> Places] /\ up \in [Sides -> BOOLEAN] /\ closing \in BOOLEAN
    /\ dropped \in Seq(Unit) /\ whole \in BOOLEAN

ScriptKnown ==
    /\ \E n \in 0..MaxId : script["host"] = Header(n) \o Data("host")
    /\ script["remote"] = Data("remote")

\* Units of the request, the user id and its terminator.
HeaderLength == Len(script["host"]) - MaxData

\* Until the user id is read, all that the client sent waits, but for the request.
BeforeUserId ==
    /\ pc["host"] \in {"request", "userid"} =>
          /\ dropped = <<>> /\ hand["host"] = <<>> /\ got["remote"] = <<>>
          /\ in["host"] =
                SubSeq(script["host"], IF pc["host"] = "request" THEN 1 ELSE 2, sent["host"])
    /\ pc["host"] = "userid" => sent["host"] >= 1
    /\ dropped = <<>> => pc["host"] \in {"request", "userid", "thrown"} /\ ~whole

\* Until the remote thread runs, the client gets no more than the reply.
BeforeRemote ==
    /\ pc["host"] \in {"request", "userid", "connect", "refuse", "reply"} => got["host"] = <<>>
    /\ pc["host"] \in {"request", "userid", "connect", "refuse", "reply", "spawn"} =>
          pc["remote"] = "none"
    /\ pc["host"] = "spawn" => got["host"] = <<<<"success", 0>>>>
    /\ pc["remote"] = "none" => Len(got["host"]) <= 1
    /\ pc["remote"] # "none" => got["host"] # <<>> /\ Head(got["host"]) = <<"success", 0>>
    /\ got["host"] # <<>> => Head(got["host"]) \in {<<"success", 0>>, <<"failed", 0>>}

\* A thread holds units only to write them, and has found the end only when nothing
\* is left to read and nothing can follow.
ThreadsHold ==
    \A side \in Sides :
        /\ hand[side] # <<>> => pc[side] \in {"write", "failed"}
        /\ pc[side] = "eof" => in[side] = <<>> /\ (ended[side] \/ ~up[side])

\* A client that waits for the reply has sent nothing after the terminator before, and
\* the terminator is the last unit of its header.
UserIdAlone ==
    ~eager => /\ got["host"] = <<>> => sent["host"] <= HeaderLength
              /\ whole => Len(dropped) = HeaderLength - 1

\* The inductive invariant.  It holds the types of the variables, the places of the two
\* threads in handshake(), receiveHost() and receiveRemote(), and StreamsIntact.
RelayInv ==
    /\ RelayTypeOK /\ VariablesOK /\ ScriptKnown
    /\ BeforeUserId /\ BeforeRemote /\ ThreadsHold /\ UserIdAlone
    /\ StreamsIntact
=============================================================================
