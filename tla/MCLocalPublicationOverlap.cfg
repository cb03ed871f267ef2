SPECIFICATION Spec
CONSTANTS
    Keys = {b}
    Base = b
    Writers = {w1, w2}
    Recorders = {m1}
    Readers = {r1}
    MaxTime = 2
    MaxVersion = 2
    MarkerTTL = 2
SYMMETRY Interchangeable
INVARIANTS
    PublicationSound
    ProofVouches
