CONSTANTS
  a1 = a1
  a2 = a2
  AccountIds <- OneAccount
  Users = {1, 2}
  Amounts = {1, 2}
  Unset = Unset
  DryRuns = {TRUE, FALSE}
  MaxCycle = 3
  MaxEdits = 1
  MaxFaults = 1
SPECIFICATION FairSpec
INVARIANTS TypeOK CompleteMeansSettled StatusIsTrue OnlyQuotasAreSet SetOnceIfAnswered
PROPERTIES RowMovesWithEvent EventsSettle
