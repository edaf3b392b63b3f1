CONSTANTS
  Week = 4
  Tolerance = 0
  JitterTolerance = 1
  MinCycleShift = 2
  RearmRemaining = 2
  LowUsed = 1
  MinDrop = 1
  Absent = Absent
  Snapshots <- PublishedSnapshots
  Errors <- NoErrors
  Percentages = {TRUE}
  Bills = {TRUE, FALSE}
  Slides <- DaySlides
  Cards = FALSE
  MaxTime = 8
  MaxUsed = 2
SPECIFICATION AccountSpec
PROPERTY ResetsOnlyOnUsageRefresh
CHECK_DEADLOCK FALSE
