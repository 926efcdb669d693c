----------------------------- MODULE MCReactorOps -----------------------------
(* Small instances of ReactorOps for TLC.                                     *)
EXTENDS ReactorInvariant, TLC

\* Nothing but equality is asked of descriptors.
Symmetry == Permutations(Fds)
=============================================================================
