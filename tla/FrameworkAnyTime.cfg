SPECIFICATION Spec
CONSTANTS
  Components = {"c1", "c2"}
  Before = {"c1"}
  Callers = {"m1", "m2"}
  Adders = {"a1"}
  MeasureOf <- OfFirst
  AddOf <- AddsSecond
  Durations = {1, 2}
  FirstDuration = 1
  MaxUpdates = 2
  MayCancel = TRUE
  Discipline = "none"
INVARIANTS FlushHasReader MeasurementsConserved ClosedAfterUse CallHasWayOut ConfigApplied
CHECK_DEADLOCK FALSE
