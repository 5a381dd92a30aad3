------------------------- MODULE MCSessionController -------------------------
(***************************************************************************)
(* Instance of SessionController for TLC: two or three sessions, so that   *)
(* an absence can close one and a later call can open the next, and two    *)
(* turns in each.                                                          *)
(***************************************************************************)
EXTENDS SessionController
=============================================================================
