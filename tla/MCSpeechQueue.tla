--------------------------- MODULE MCSpeechQueue ---------------------------
(***************************************************************************)
(* An instance of SpeechQueue for TLC: two turns of up to two chunks, each *)
(* of either format, and a greeting share a queue of two.                  *)
(***************************************************************************)
EXTENDS SpeechQueue
=============================================================================
