SPECIFICATION LedgerSpec
CONSTANTS
  Ids = {"a", "b", "c"}
  Types = {"default", "general"}
  MeasureIds = {"gauge", "hits", "total", "new"}
  Summaries = {"s1"}
  MeasuresLimit = 3
  Int32Half = 2
  AddArgs <- OnCollectAdds
  DeleteArgs <- MeasuredDeletes
  PriorityArgs = {}
  Measurements <- NewMeasurements
  Configs <- BothConfigs
  Customs = {}
  CustomTargetHealth <- NoCustom
  ComponentsLimit = 2
  MaxPerCycle = 2
INVARIANTS MeasuresInv LimitInv
PROPERTIES EveryMeasurementReportedOnce
CHECK_DEADLOCK FALSE
