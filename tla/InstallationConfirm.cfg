SPECIFICATION Spec
CONSTANTS
    Packages = {p, q}
    Factory = p
    SectorBlocks = 1
    Cases <- RepeatOnly
INVARIANT ConfirmIdempotent
