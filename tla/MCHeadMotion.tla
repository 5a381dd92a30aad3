---------------------------- MODULE MCHeadMotion ----------------------------
(***************************************************************************)
(* Instance of HeadMotion for TLC: so few angles that moves, nods and      *)
(* limits meet; the servo of the tilt is inverted.                         *)
(***************************************************************************)
EXTENDS HeadMotion

MCAxes == {"pan", "tilt"}
MCLow == [a \in MCAxes |-> 1]
MCHigh == [a \in MCAxes |-> IF a = "pan" THEN 2 ELSE 3]
MCNeutral == [a \in MCAxes |-> 2]
MCAims == {[a \in MCAxes |-> IF a = "pan" THEN 1 ELSE 3]}
MCInverted == {"tilt"}
=============================================================================
