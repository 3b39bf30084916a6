-------------------------- MODULE MCOperationLock --------------------------
(* Small instances of the counting lock for TLC. *)
EXTENDS OperationLock, TLC

\* Callers are interchangeable, and so are volume ids.
Symmetry == Permutations(Callers) \cup Permutations(VolumeIDs)
=============================================================================
