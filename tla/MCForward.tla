----------------------------- MODULE MCForward -----------------------------
(* Values for Forward.                                                       *)
EXTENDS Forward

CONSTANTS c1, c2, direct

TwoCalls == {c1, c2}
FirstCall == {c1}
OneProxy == {direct}
=============================================================================
