SPECIFICATION FairSpec
CONSTANTS
  Components = {"c1", "c2"}
  Before = {"c1"}
  Callers = {"m1"}
  Adders = {}
  MeasureOf <- OfFirst
  AddOf <- AddsSecond
  Durations = {1, 2}
  FirstDuration = 1
  MaxUpdates = 0
  MayCancel = FALSE
  Discipline = "returned"
PROPERTY StopReturns
CHECK_DEADLOCK FALSE
