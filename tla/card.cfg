CONSTANTS
  p1 = p1
  p2 = p2
  Pages <- OnePage
  MaxTasks = 2
  MaxSaves = 3
  MaxFaults = 1
SPECIFICATION FairSpec
INVARIANTS TypeOK UsedAtMostOnce ResultIsTrue OffBeforeUse EditsSurvive
PROPERTIES CancelledForGood ResultReported SwitchesOff
