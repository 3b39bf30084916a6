---------------------------- MODULE MCNodeServer ----------------------------
(* Small instances of the node service for TLC. *)
EXTENDS NodeServer, TLC

\* Handlers are interchangeable.
Symmetry == Permutations(Handlers)
=============================================================================
