SPECIFICATION FairSpec
CONSTANTS
    Keys = {b}
    Base = b
    Writers = {w1}
    Calls = {c1}
    Readers = {r1}
    Barrier = 2
    TTL = 1
    StaleMapTTL = 0
    MaxVersion = 1
    Events = {"validate", "sweep", "purge"}
PROPERTIES
    InvalidateReturns
    PurgeReturns
