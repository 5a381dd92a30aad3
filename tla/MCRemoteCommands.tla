--------------------------- MODULE MCRemoteCommands ---------------------------
(***************************************************************************)
(* Instance of RemoteCommands for TLC: two requests over a queue of one,   *)
(* and up to three connections with one fault, so that the sender of a     *)
(* dead connection competes with that of its successor.                    *)
(***************************************************************************)
EXTENDS RemoteCommands
=============================================================================
