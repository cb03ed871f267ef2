\* Both backends: a disk cache with an atomic rename, and a file system with two
\* slots written in turn.
SPECIFICATION Spec
CONSTANTS
    Keys = {a}
    Barrier = 3
    MaxGen = 4
INVARIANT JournalInv
PROPERTY ImplementsStore
