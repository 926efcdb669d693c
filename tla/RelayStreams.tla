----------------------------- MODULE RelayStreams -----------------------------
(***************************************************************************)
(* The data of one SocksConnection: what the client sends, request, user   *)
(* id, terminator and payload, what the destination sends, and what        *)
(* becomes of each unit in handshake(), receiveHost() and receiveRemote(). *)
(* SocksServer has the life of the connection; here the server keeps       *)
(* running, and closes the sockets once a stop was asked for.              *)
(*                                                                         *)
(* A unit is some bytes that travel together: the 8 bytes of the request   *)
(* are one.  "host" is the side of the client and the thread that reads    *)
(* from it, "remote" the side of the destination and its thread.           *)
(***************************************************************************)
EXTENDS Integers, Sequences, SequencesExt

CONSTANTS MaxId,    \* bound: units of the user id
          MaxData,  \* bound: units of payload, either way
          MaxFirst, \* units the read of the user id takes: 512 bytes, by read_until()
          MaxRead   \* units a read of the loops takes: their 1500 bytes

ASSUME RelayAssumption ==
    MaxId \in Nat /\ MaxData \in Nat /\ MaxFirst \in Nat \ {0} /\ MaxRead \in Nat \ {0}

VARIABLES
    script,   \* script[side]: all that the peer on that side wants to send
    sent,     \* sent[side]: how much of it it has sent
    ended,    \* ended[side]: the peer has closed its direction
    eager,    \* the client sends payload before it has seen the reply
    in,       \* in[side]: units that arrived and were not read
    got,      \* got[side]: units written to the peer on that side
    hand,     \* hand[side]: units that the thread of that side has read and not written
    pc,       \* pc[side]: where the thread of that side is
    up,       \* up[side]: the connection on that side stands
    closing,  \* the destructor of the connection has begun
    dropped,  \* the units read as the user id
    whole     \* history: the user id was all there when it was read

peers == <<script, sent, ended, eager>>
history == <<dropped, whole>>
vars == <<peers, in, got, hand, pc, up, closing, history>>

Sides == {"host", "remote"}
Other(side) == CHOOSE s \in Sides : s # side

Nul == <<"nul", 0>>
Header(n) == <<<<"request", 0>>>> \o [i \in 1..n |-> <<"id", i>>] \o <<Nul>>
Data(side) == [i \in 1..MaxData |-> <<side, i>>]

Init ==
    /\ \E n \in 0..MaxId :
          script = [host |-> Header(n) \o Data("host"), remote |-> Data("remote")]
    /\ sent = [side \in Sides |-> 0]
    /\ ended = [side \in Sides |-> FALSE]
    /\ eager \in BOOLEAN
    /\ in = [side \in Sides |-> <<>>]
    /\ got = [side \in Sides |-> <<>>]
    /\ hand = [side \in Sides |-> <<>>]
    /\ pc = [host |-> "request", remote |-> "none"]
    /\ up = [host |-> TRUE, remote |-> FALSE]
    /\ closing = FALSE
    /\ dropped = <<>> /\ whole = FALSE

Goto(side, step) == pc' = [pc EXCEPT ![side] = step]

-----------------------------------------------------------------------------
(* The peers.                                                                *)

\* A client that is not eager sends payload only after a reply.
Awaits(side, unit) == side = "host" /\ unit \in ToSet(Data("host")) /\ ~eager /\ got["host"] = <<>>

Sends(side) ==
    /\ up[side] /\ ~ended[side] /\ sent[side] < Len(script[side])
    /\ LET unit == script[side][sent[side] + 1]
       IN  /\ ~Awaits(side, unit)
           /\ in' = [in EXCEPT ![side] = Append(@, unit)]
    /\ sent' = [sent EXCEPT ![side] = @ + 1]
    /\ UNCHANGED <<script, ended, eager, got, hand, pc, up, closing, history>>

Ends(side) ==
    /\ up[side] /\ ~ended[side]
    /\ ended' = [ended EXCEPT ![side] = TRUE]
    /\ UNCHANGED <<script, sent, eager, in, got, hand, pc, up, closing, history>>

-----------------------------------------------------------------------------
(* handshake(), on the host thread.                                          *)

ReadRequest ==
    /\ pc["host"] = "request" /\ in["host"] # <<>>
    /\ in' = [in EXCEPT !["host"] = Tail(@)]
    /\ Goto("host", "userid")
    /\ UNCHANGED <<peers, got, hand, up, closing, history>>

\* Faulty variant: more than the buffer holds.
ArrivedAll(side, most) == in[side]

\* What one read takes, of a buffer with room for so many units.
Arrived(side, most) == SubSeq(in[side], 1, IF Len(in[side]) < most THEN Len(in[side]) ELSE most)

\* Faulty variant: the user id is read up to the first byte.
ReadUserIdByte ==
    /\ pc["host"] = "userid" /\ in["host"] # <<>>
    /\ dropped' = <<Head(in["host"])>>
    /\ whole' = (Nul \in ToSet(Arrived("host", MaxFirst)))
    /\ in' = [in EXCEPT !["host"] = Tail(@)]
    /\ Goto("host", "connect")
    /\ UNCHANGED <<peers, got, hand, up, closing>>

\* read_until() for the delimiter "\0", which as a C string is the empty string and is
\* found in whatever arrives first: one read, whose data is not used.
ReadUserId ==
    /\ pc["host"] = "userid" /\ in["host"] # <<>>
    /\ dropped' = Arrived("host", MaxFirst)
    /\ whole' = (Nul \in ToSet(dropped'))
    /\ in' = [in EXCEPT !["host"] = SubSeq(@, Len(dropped') + 1, Len(@))]
    /\ Goto("host", "connect")
    /\ UNCHANGED <<peers, got, hand, up, closing>>

\* Faulty variant: the remote thread is started before the client has its reply.
ConnectAndSpawn ==
    /\ pc["host"] = "connect"
    /\ \/ /\ pc' = [pc EXCEPT !["host"] = "reply", !["remote"] = "read"]
          /\ up' = [up EXCEPT !["remote"] = TRUE]
       \/ Goto("host", "refuse") /\ UNCHANGED up
    /\ UNCHANGED <<peers, in, got, hand, closing, history>>

\* An attempt that fails with an error that lkl_set_errno() does not know is answered
\* like one that succeeds (SocketOps).
Connect ==
    /\ pc["host"] = "connect"
    /\ \/ Goto("host", "reply") /\ up' \in {up, [up EXCEPT !["remote"] = TRUE]}
       \/ Goto("host", "refuse") /\ UNCHANGED up
    /\ UNCHANGED <<peers, in, got, hand, closing, history>>

Respond(response, next) ==
    /\ up["host"]
    /\ got' = [got EXCEPT !["host"] = Append(@, <<response, 0>>)]
    /\ Goto("host", next)
    /\ UNCHANGED <<peers, in, hand, up, closing, history>>

Refuse == pc["host"] = "refuse" /\ Respond("failed", "thrown")
Reply == pc["host"] = "reply" /\ Respond("success", "spawn")

Spawn ==
    /\ pc["host"] = "spawn"
    /\ pc' = [host |-> "read", remote |-> "read"]
    /\ UNCHANGED <<peers, in, got, hand, up, closing, history>>

\* A read that fails or finds the end of the stream, a write that fails, or a thread
\* that cannot be made.
Throws ==
    /\ pc["host"] \in {"request", "userid", "refuse", "reply", "spawn"}
    /\ Goto("host", "thrown")
    /\ UNCHANGED <<peers, in, got, hand, up, closing, history>>

-----------------------------------------------------------------------------
(* receiveHost() and receiveRemote(): read_some() and write().               *)

\* Faulty variant: a peer that has ended is not asked for what it sent before.
ReadEndFirst(side) ==
    /\ pc[side] = "read"
    /\ \/ /\ up[side] /\ ~ended[side] /\ in[side] # <<>>
          /\ hand' = [hand EXCEPT ![side] = Arrived(side, MaxRead)]
          /\ in' = [in EXCEPT ![side] = SubSeq(@, Len(Arrived(side, MaxRead)) + 1, Len(@))]
          /\ Goto(side, "write")
       \/ /\ up[side] /\ ended[side]
          /\ Goto(side, "eof") /\ UNCHANGED <<hand, in>>
       \/ /\ ~up[side] /\ Goto(side, "over") /\ UNCHANGED <<hand, in>>
       \/ /\ Goto(side, "failed") /\ UNCHANGED <<hand, in>>
    /\ UNCHANGED <<peers, got, up, closing, history>>

\* At eof the thread asks for a stop, also at that of a destination that was never
\* connected, which may tell an error as well.  "over" is such an error, and what a
\* socket tells that the destructor has shut down, when there is no stop to ask for.  A
\* read that fails without an error tells 0 bytes, and the loop writes them and reads
\* again: no step.
Read(side) ==
    /\ pc[side] = "read"
    /\ \/ /\ up[side] /\ in[side] # <<>>
          /\ hand' = [hand EXCEPT ![side] = Arrived(side, MaxRead)]
          /\ in' = [in EXCEPT ![side] = SubSeq(@, Len(Arrived(side, MaxRead)) + 1, Len(@))]
          /\ Goto(side, "write")
       \/ /\ in[side] = <<>> /\ IF up[side] THEN ended[side] ELSE ~closing
          /\ Goto(side, "eof") /\ UNCHANGED <<hand, in>>
       \/ /\ ~up[side] /\ Goto(side, "over") /\ UNCHANGED <<hand, in>>
       \/ /\ Goto(side, "failed") /\ UNCHANGED <<hand, in>>
    /\ UNCHANGED <<peers, got, up, closing, history>>

Written(side, n, rest) ==
    /\ got' = [got EXCEPT ![Other(side)] = @ \o SubSeq(hand[side], 1, n)]
    /\ hand' = [hand EXCEPT ![side] = rest]
    /\ Goto(side, IF rest = <<>> THEN "read" ELSE "write")

\* Faulty variants: what one call did not write is forgotten; or all is written again.
WriteSome(side) ==
    /\ pc[side] = "write"
    /\ \/ up[Other(side)] /\ \E n \in 1..Len(hand[side]) : Written(side, n, <<>>)
       \/ Goto(side, "failed") /\ UNCHANGED <<got, hand>>
    /\ UNCHANGED <<peers, in, up, closing, history>>

WriteAgain(side) ==
    /\ pc[side] = "write"
    /\ \/ /\ up[Other(side)]
          /\ \E n \in 1..Len(hand[side]) :
                Written(side, n, IF n = Len(hand[side]) THEN <<>> ELSE hand[side])
       \/ Goto(side, "failed") /\ UNCHANGED <<got, hand>>
    /\ UNCHANGED <<peers, in, up, closing, history>>

\* write() calls write_some() until all is written; one that fails without an error
\* takes nothing, and is repeated.
Write(side) ==
    /\ pc[side] = "write"
    /\ \/ /\ up[Other(side)]
          /\ \E n \in 1..Len(hand[side]) :
                Written(side, n, SubSeq(hand[side], n + 1, Len(hand[side])))
       \/ Goto(side, "failed") /\ UNCHANGED <<got, hand>>
    /\ UNCHANGED <<peers, in, up, closing, history>>

-----------------------------------------------------------------------------
(* The destructor closes the remote socket first.                            *)

StopAsked == \E side \in Sides : pc[side] \in {"eof", "thrown"}

CloseRemote ==
    /\ StopAsked /\ ~closing
    /\ closing' = TRUE
    /\ up' = [up EXCEPT !["remote"] = FALSE]
    /\ UNCHANGED <<peers, in, got, hand, pc, history>>

CloseHost ==
    /\ closing /\ up["host"]
    /\ up' = [up EXCEPT !["host"] = FALSE]
    /\ UNCHANGED <<peers, in, got, hand, pc, closing, history>>

-----------------------------------------------------------------------------
HostStep ==
    \/ ReadRequest \/ ReadUserId \/ Connect \/ Refuse \/ Reply \/ Spawn \/ Throws
    \/ Read("host") \/ Write("host")
RemoteStep == Read("remote") \/ Write("remote")
Closes == CloseRemote \/ CloseHost

Next ==
    \/ \E side \in Sides : Sends(side) \/ Ends(side)
    \/ HostStep \/ RemoteStep \/ Closes

Spec == Init /\ [][Next]_vars

\* A thread that can go on without a failure does, and so does the main thread:
\* failures may always happen, and must not be what lets a thread go on.
Calm(step, side) == step /\ pc'[side] \notin {"failed", "thrown"}

FairSpec ==
    /\ Spec
    /\ WF_vars(Calm(HostStep, "host")) /\ WF_vars(Calm(RemoteStep, "remote"))
    /\ WF_vars(Closes)
=============================================================================
