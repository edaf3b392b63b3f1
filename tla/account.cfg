CONSTANTS
  Week = 3
  Tolerance = 1
  JitterTolerance = 1
  MinCycleShift = 2
  RearmRemaining = 2
  LowUsed = 1
  MinDrop = 1
  Absent = Absent
  Snapshots <- PublishedSnapshots
  Errors <- SmallErrors
  Percentages = {TRUE, FALSE}
  Bills = {TRUE, FALSE}
  Slides <- DaySlides
  Cards = TRUE
  MaxTime = 6
  MaxUsed = 2
SPECIFICATION AccountSpec
INVARIANTS DetectsRefresh BoundaryIsConfirmed EventsSpaced
PROPERTIES ResetFollowsWindow NeverRetreats
CHECK_DEADLOCK FALSE
