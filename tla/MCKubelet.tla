----------------------------- MODULE MCKubelet ------------------------------
(* A small instance of the kubelet and the node service for TLC. *)
EXTENDS Kubelet
=============================================================================
