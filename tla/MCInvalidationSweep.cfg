SPECIFICATION Spec
CONSTANTS
    Keys = {b}
    Base = b
    Writers = {w1}
    Calls = {c1}
    Readers = {r1}
    Barrier = 4
    TTL = 1
    StaleMapTTL = 0
    MaxVersion = 2
    Events = {"sweep", "purge", "crash"}
INVARIANTS
    RetrieveSound
    IInv
