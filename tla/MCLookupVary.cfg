SPECIFICATION LookSpec
CONSTANTS
    Keys = {b, v}
    Base = b
    Writers = {w1}
    Calls = {c1}
    Readers = {l1}
    Barrier = 3
    TTL = 0
    StaleMapTTL = 0
    MaxVersion = 2
    Events = {}
INVARIANTS
    LookupSound
    LookInv
