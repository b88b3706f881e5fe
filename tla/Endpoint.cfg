SPECIFICATION FairSpec
CONSTANTS
    FlushOrder <- TwoKinds
    Callers = {c1, c2}
    Requests <- Repeated
    ModelKeys = {"a"}
    ModelValues = {1}
    Metrics = {"x"}
    BundleCountThreshold = 2
    BufferedByteLimit = 2
    HandlerLimit = 1
    ModelTTL = 0
INVARIANTS
    Accounted
    WithinLimits
PROPERTIES
    FlushWaits
    FlushReturns
    StatisticsSettle
    ModelIsRepeated
