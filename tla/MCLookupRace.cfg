SPECIFICATION LookSpec
CONSTANTS
    Keys = {b}
    Base = b
    Writers = {w1, w2}
    Calls = {c1}
    Readers = {}
    Barrier = 4
    TTL = 1
    StaleMapTTL = 0
    MaxVersion = 2
    Events = {"validate", "crash", "persist", "remove"}
INVARIANTS
    NothingOutdatedFresh
PROPERTIES
    ServeValidatedSound
SYMMETRY WriterSymmetry
