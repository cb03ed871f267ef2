SPECIFICATION FairSpec
CONSTANTS
    Keys <- TwoKeys
    Writers = {o1, o2}
    Sizes = {1, 2}
    MaxSize = 2
    InPlace = TRUE
    Faults <- RemoveFaults
    Scans <- Directories
INVARIANTS DiskTracked LedgerExact ReservationsReturned IInv
PROPERTIES StoreReturns
