SPECIFICATION ClaimsSpec
CONSTANTS
    FlushOrder <- AllKinds
    Callers = {c1}
    Requests <- Changing
    ModelKeys = {"a"}
    ModelValues = {1, 2}
    Metrics = {"x"}
    BundleCountThreshold = 2
    BufferedByteLimit = 1
    HandlerLimit = 1
    ModelTTL = 1
PROPERTIES
    ModelWasSent
