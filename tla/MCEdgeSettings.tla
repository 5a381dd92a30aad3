--------------------------- MODULE MCEdgeSettings ---------------------------
(***************************************************************************)
(* An instance of EdgeSettings for TLC: two levels of a threshold, of      *)
(* which one pair is valid.  Others than the page name one setting in a    *)
(* request.                                                                *)
(***************************************************************************)
EXTENDS EdgeSettings

MCLevels == 1..2

Nothing == [j \in Settings |-> Missing]

MCRequested == UNION {{[Nothing EXCEPT ![k] = v] : v \in Values(k)} : k \in Settings}
=============================================================================
