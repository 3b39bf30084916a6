--------------------------- MODULE MCProvisioning ---------------------------
(* A small instance of the sidecars and the controller service for TLC. *)
EXTENDS Provisioning
=============================================================================
