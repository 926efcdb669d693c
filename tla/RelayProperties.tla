---------------------------- MODULE RelayProperties ----------------------------
(***************************************************************************)
(* What client and destination may count on of the data between them.      *)
(***************************************************************************)
EXTENDS RelayStreams

RelayTypeOK ==
    /\ \A side \in Sides :
          /\ sent[side] \in 0..Len(script[side])
          /\ Len(hand[side]) <= MaxRead
          /\ pc[side] = "write" => hand[side] # <<>>
    /\ Len(dropped) <= MaxFirst

\* What the client got after the reply.
AfterReply == IF got["host"] = <<>> THEN <<>> ELSE Tail(got["host"])

\* Nothing is lost, doubled or reordered between one read and the next, whatever part
\* of the buffer a write takes: what was sent is what was dropped as the user id, then
\* what was passed on, what a thread holds and what waits (receiveHost(),
\* receiveRemote()).
StreamsIntact ==
    /\ dropped # <<>> =>
          dropped \o got["remote"] \o hand["host"] \o in["host"] =
              SubSeq(script["host"], 2, sent["host"])
    /\ AfterReply \o hand["remote"] \o in["remote"] = SubSeq(script["remote"], 1, sent["remote"])

\* A client that waits for the reply before it sends payload, and whose user id arrives
\* in one piece, finds nothing of it relayed.  It is all that the read_until() of
\* handshake() guarantees, which does not wait for the terminator.
UserIdStays ==
    whole /\ ~eager => IsPrefix(got["remote"], Data("host"))

\* The client gets one reply, before any data, and nothing after a refusal.
ReplyFirst ==
    got["host"] # <<>> =>
        /\ Head(got["host"]) \in {<<"success", 0>>, <<"failed", 0>>}
        /\ Head(got["host"]) = <<"failed", 0>> => Len(got["host"]) = 1
        /\ IsPrefix(Tail(got["host"]), Data("remote"))

\* The end of one side stops the connection and cuts the other direction off, but all
\* that the ended side sent after the user id has been written to the other by then.
EndedSideComplete ==
    /\ pc["host"] = "eof" =>
          dropped \o got["remote"] = SubSeq(script["host"], 2, sent["host"])
    /\ pc["remote"] = "eof" => AfterReply = SubSeq(script["remote"], 1, sent["remote"])

\* While nothing fails or ends, each direction delivers what is sent, also when the
\* other direction has failed and ended without a stop (catch of receiveHost()).
RelayDelivers ==
    /\ \A n \in 1..MaxData :
          sent["remote"] >= n ~> Len(got["host"]) > n \/ closing \/ pc["remote"] = "failed"
    /\ \A n \in 1..MaxData + MaxId + 2 :
          sent["host"] >= n /\ up["remote"] ~>
              Len(dropped \o got["remote"]) >= n - 1 \/ closing \/ pc["host"] = "failed"
=============================================================================
