CONSTANTS
  a1 = a1
  a2 = a2
  AccountIds <- OneAccount
  Users = {1}
  Amounts = {1, 2}
  Unset = Unset
  DryRuns = {FALSE}
  MaxCycle = 2
  MaxEdits = 0
  MaxFaults = 1
SPECIFICATION Spec
PROPERTY SpentStaysSpent
