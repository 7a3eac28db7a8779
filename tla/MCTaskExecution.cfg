SPECIFICATION Spec
CONSTANTS
    Processes = {p1, p2}
    LastCommand = 1
    Contents = {"base", "x"}
    Base = "base"
    Proper = {"x"}
    KillMayHang = FALSE
    None = None
INVARIANTS
    CommandsRunOnce
    CancelledIsQuiet
    AcceptedAsVerified
PROPERTIES
    NothingNewAfterStop
    WorkspaceNotShared
SYMMETRY MCSymmetry
VIEW MCView
CHECK_DEADLOCK FALSE
