----------------------------- MODULE MCSocketOps -----------------------------
(* Small instances of SocketOps for TLC.                                      *)
EXTENDS SocketInvariant, TLC

\* Nothing but equality is asked of descriptors, objects and threads.
Symmetry == Permutations(Fds) \cup Permutations(Sockets) \cup Permutations(Threads)
=============================================================================
