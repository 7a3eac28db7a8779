SPECIFICATION DomainSpec
CONSTANTS
    WorkUnits <- MCWorkUnits
    Specs = {"solo", "rework", "team", "shrink", "loosen", "revoke"}
    Body <- MCBody
    FirstSpecs = {"solo", "team"}
    Amendments <- MCAmendments
    Actors <- MCActors
    References = {x, y}
    MaxSpecs = 3
    MaxSatisfactions = 3
    MaxAttempts = 2
    Nil = Nil
SYMMETRY MCSymmetry
CHECK_DEADLOCK FALSE
INVARIANTS
    LiveAttemptsSupported
    SatisfiedOnCurrentInputs
    RemediationChain
PROPERTY
    HistoryOnlyExtended
