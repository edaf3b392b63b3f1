CONSTANTS
  Users = {u1, u2}
  Keys = {k1}
  Amounts = {1}
  Threads = {t1}
  Deposit = 1
  MaxFaults = 1
  Crashes = FALSE
  None = None
SPECIFICATION Spec
INVARIANT PendingIsProcessed
