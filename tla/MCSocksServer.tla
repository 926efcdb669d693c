---------------------------- MODULE MCSocksServer ----------------------------
(* Small instances of SocksServer for TLC.                                    *)
EXTENDS ServerRefinement, TLC

\* Connections and descriptors are interchangeable: no action compares them
\* other than for equality.
Symmetry == Permutations(Conns) \cup Permutations(Fds)
=============================================================================
