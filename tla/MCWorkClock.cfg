SPECIFICATION Spec
CONSTANTS
    Programs = {p1, p2}
    Deadline <- MCDeadline
    Ns = 1
    MaxReal = 2
    MaxBoot = 1
    WallSettings = {0, 1}
    None = None
SYMMETRY MCSymmetry
INVARIANTS
    AuthorityEndsInTime
PROPERTIES
    DecisionTimesAdvance
CHECK_DEADLOCK FALSE
