---------------------------- MODULE MCQuotaSync -----------------------------
(* Values for QuotaSync: a week has two or three ticks.                      *)
EXTENDS QuotaSync

CONSTANTS a1, a2

OneAccount == <<a1>>
TwoAccounts == <<a1, a2>>
=============================================================================
