---------------------------- MODULE MCRelayStreams ----------------------------
(* Small instances of RelayStreams for TLC.                                   *)
EXTENDS RelayInvariant
=============================================================================
