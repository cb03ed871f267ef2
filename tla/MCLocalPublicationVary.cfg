SPECIFICATION Spec
CONSTANTS
    Keys = {b, v}
    Base = b
    Writers = {w1}
    Recorders = {m1}
    Readers = {r1}
    MaxTime = 2
    MaxVersion = 2
    MarkerTTL = 0
INVARIANTS
    PublicationSound
    PubInv
