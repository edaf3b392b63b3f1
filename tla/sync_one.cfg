CONSTANTS
  Week = 2
  Tolerance = 0
  JitterTolerance = 0
  MinCycleShift = 1
  RearmRemaining = 1
  LowUsed = 0
  MinDrop = 1
  Absent = Absent
  a1 = a1
  a2 = a2
  AccountIds <- OneAccount
  Subs = {1}
  Watched = a1
  Windows = {"weekly", "monthly"}
  Month = 12
  Aligns = TRUE
  DryRuns = {TRUE, FALSE}
  Cards = FALSE
  MaxTime = 4
  MaxFaults = 2
  MaxEvents = 2
SPECIFICATION FairSpec
INVARIANTS TypeOK ClearedAtMostOnce CompleteMeansSettled
PROPERTIES DoneMeansAligned SettledIsFinal EventsSettle
