SPECIFICATION FairSpec
CONSTANTS
    Callers = {c1, c2}
    k1 = k1
    k2 = k2
    Keys = {k1, k2}
    Tags = {"unit", "host"}
    Values = {0, 1}
    ExcludedTags = {"host"}
    Batches <- Mixed
    NumberOfRetries = 2
    NoId = NoId
INVARIANTS
    ConvertCorrect
    CompactWasRegistered
    NoAckForgotten
PROPERTY
    ConvertReturns
