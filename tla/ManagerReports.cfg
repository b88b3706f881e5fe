SPECIFICATION FairReportsSpec
CONSTANTS
  Ids = {"a", "b", "t", "u"}
  Types = {"default", "general"}
  MeasureIds = {"m1"}
  Summaries = {"s1"}
  MeasuresLimit = 1
  Int32Half = 4
  AddArgs <- GraphAdds
  DeleteArgs <- GraphDeletes
  PriorityArgs <- GraphPriorities
  Measurements <- GraphMeasurements
  Configs <- BothFunctions
  Customs = {"high"}
  CustomTargetHealth <- HighPriorityDecides
  ComponentsLimit = 5
  MaxPerCycle = 1
INVARIANTS TypeOK RegistryInv CycleInv NoRegistrationLost
PROPERTIES ImplementsHealthReport CycleEnds ImpactBeforeTarget
CHECK_DEADLOCK FALSE
