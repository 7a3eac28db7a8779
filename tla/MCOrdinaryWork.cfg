SPECIFICATION Spec
CONSTANTS
    Users = {kernel, other}
    Kernel = kernel
    MaxTokens = 1
    Nothing = nothing
    None = none
    Modes = {"pull", "managed"}
    LastRun = 1
    Base = "base"
    Drafts = {"x", "y"}
    Proper = {"x"}
    MaxMeaning = 2
    MaxChanges = 3
    KillMayHang = FALSE
VIEW MCView
INVARIANTS
    EffectsOnce
    AcceptedAsChecked
    SettledIsQuiet
    SourceConsistent
PROPERTIES
    SilentAfterStop
CHECK_DEADLOCK FALSE
