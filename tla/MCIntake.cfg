SPECIFICATION IntakeSpec
CONSTANTS
    Programs = {"task", "other"}
    Task = "task"
    Keys = {d1, d2, k1, k2, k3}
    DecisionIds = {d1, d2}
    Specs <- MCSpecs
    OtherSpecs <- MCOtherSpecs
    Commands = {"cancel"}
    Intents <- MCIntents
    MaxRecords = 3
    Declarations = {"x"}
    d1 = d1
    d2 = d2
    Terms <- MCTerms
    Freshness = 0
    MaxNow = 2
    MaxNative = 1
    MaxWork = 3
    None = None
SYMMETRY MCSymmetry
INVARIANTS
    StoreReopens
    DecidedOnHead
    AnswersDurable
    ApprovalsDecided
PROPERTIES
    HandoffCurrent
