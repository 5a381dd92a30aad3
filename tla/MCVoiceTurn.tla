----------------------------- MODULE MCVoiceTurn -----------------------------
(***************************************************************************)
(* Instance of VoiceTurn for TLC: four words make up to four segments, one *)
(* of them being synthesized while one is on the wire and two are queued.  *)
(***************************************************************************)
EXTENDS VoiceTurn
=============================================================================
