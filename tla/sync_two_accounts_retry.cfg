CONSTANTS
  Week = 3
  Tolerance = 0
  JitterTolerance = 0
  MinCycleShift = 1
  RearmRemaining = 1
  LowUsed = 0
  MinDrop = 1
  Absent = Absent
  a1 = a1
  a2 = a2
  AccountIds <- TwoAccounts
  Subs = {1}
  Watched = a1
  Windows = {"weekly"}
  Month = 12
  Aligns = TRUE
  DryRuns = {FALSE}
  Cards = FALSE
  MaxTime = 4
  MaxFaults = 1
  MaxEvents = 2
SPECIFICATION Spec
INVARIANT ClearedAtMostOnce
