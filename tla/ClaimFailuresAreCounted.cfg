SPECIFICATION Spec
CONSTANTS
  Fields = {"f", "g", "h"}
  Names = {"n", "f", "g", "h"}
  Nodes = {"proxy", "split", "process", "outer", "writer", "log", "plain", "compact", "e1", "e2"}
  Role <- NetRole
  Outputs <- NetOutputs
  Compact = {"compact"}
  Rules <- AllRules
  Actions <- AllActions
  RuleSets <- NetRules
  Requests <- NetRequests
  Configs <- NetConfigs
INVARIANTS FailuresAreCounted
