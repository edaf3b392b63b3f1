---------------------------- MODULE MCResetCard ----------------------------
(* Values for ResetCard.                                                     *)
EXTENDS ResetCard

CONSTANTS p1, p2

OnePage == {p1}
TwoPages == {p1, p2}
=============================================================================
