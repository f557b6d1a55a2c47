SPECIFICATION Spec
CONSTANTS
    Positions = 2
    Units = 2
    MaxSequence = 6
    MaxConstrained = 3
    MaxCounter = 1
INVARIANTS
    LoadsCommitted
    FlashUsedSafely
PROPERTY
    CommitsAtomically
