----------------------------- MODULE MCListening -----------------------------
(***************************************************************************)
(* Instance of Listening for TLC.  Three samples a frame and four a        *)
(* window: every fourth frame fills none, as every sixteenth does with 480 *)
(* and 512, and GapsAreShort holds as it does there.                       *)
(***************************************************************************)
EXTENDS Listening
=============================================================================
