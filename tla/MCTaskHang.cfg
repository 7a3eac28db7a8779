SPECIFICATION Spec
CONSTANTS
    Processes = {p1, p2}
    LastCommand = 1
    Contents = {"base", "x"}
    Base = "base"
    Proper = {"x"}
    KillMayHang = TRUE
    None = None
INVARIANT CancelledIsQuiet
SYMMETRY MCSymmetry
VIEW MCView
CHECK_DEADLOCK FALSE
