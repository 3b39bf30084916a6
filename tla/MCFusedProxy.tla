---------------------------- MODULE MCFusedProxy ----------------------------
(* A small instance of the plugin and the proxy for TLC. *)
EXTENDS FusedProxy
=============================================================================
