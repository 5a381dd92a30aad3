----------------------------- MODULE MCEdgeVoice -----------------------------
(***************************************************************************)
(* Instances of EdgeVoice for TLC, one .cfg per configuration of the edge. *)
(***************************************************************************)
EXTENDS EdgeVoice
=============================================================================
