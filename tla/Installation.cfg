SPECIFICATION Spec
CONSTANTS
    Packages = {p, q}
    Factory = p
    SectorBlocks = 1
    Cases <- BothCases
INVARIANTS
    FallbackSurvives
    EligibleIsComplete
    AbortInvalidates
    TrialOnce
    FlashShared
