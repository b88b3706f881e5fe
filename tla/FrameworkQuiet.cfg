SPECIFICATION FairSpec
CONSTANTS
  Components = {"c1", "c2"}
  Before = {"c1"}
  Callers = {"m1"}
  Adders = {"a1"}
  MeasureOf <- OfFirst
  AddOf <- AddsSecond
  Durations = {1, 2}
  FirstDuration = 1
  MaxUpdates = 1
  MayCancel = FALSE
  Discipline = "quiet"
INVARIANTS AllStopped AcceptedIsWritten NoPanic
PROPERTIES StopReturns
