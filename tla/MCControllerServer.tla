------------------------- MODULE MCControllerServer -------------------------
(* Small instances of the controller service for TLC. *)
EXTENDS ControllerServer, TLC

\* Handlers are interchangeable, and so are key file names.
Symmetry == Permutations(Handlers) \cup Permutations(KeyFiles)
=============================================================================
