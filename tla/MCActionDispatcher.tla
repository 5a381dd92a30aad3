------------------------- MODULE MCActionDispatcher -------------------------
(***************************************************************************)
(* Instance of ActionDispatcher for TLC: three intents in flight with a    *)
(* queue of two, so that an intent can run while one interrupts it and a   *)
(* third waits behind.                                                     *)
(***************************************************************************)
EXTENDS ActionDispatcher
=============================================================================
