--------------------------- MODULE MCFaceTracking ---------------------------
(***************************************************************************)
(* Instance of FaceTracking for TLC: two persons of different size.        *)
(***************************************************************************)
EXTENDS FaceTracking

CONSTANTS ann, bob

MCPersons == {ann, bob}
MCSize == [p \in MCPersons |-> IF p = ann THEN 2 ELSE 3]
MCDirections == {0, 4, 9}
MCResponse == [e \in -Half..Half |-> e]
=============================================================================
