--------------------------- MODULE MCBalanceSync ---------------------------
(* Values for BalanceSync.                                                   *)
EXTENDS BalanceSync

CONSTANTS a1, a2

OneAccount == <<a1>>
TwoAccounts == <<a1, a2>>
=============================================================================
