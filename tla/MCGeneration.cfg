SPECIFICATION FairSpec
CONSTANTS
    s1 = s1  s2 = s2  g1 = g1
    Old = Old  Residual = Residual  None = None
    Stores = {s1, s2}
    Readers = {g1}
    MaxEvictions = 1
    MaxCrashes = 1
INVARIANTS Paired LeftPaired
PROPERTIES GoodEntrySurvives OperationsReturn
CHECK_DEADLOCK FALSE
