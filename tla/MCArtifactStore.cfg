SPECIFICATION Spec
CONSTANTS
    Digests = {d1, d2}
    Slots = {s1, s2}
    Names = {n1}
    OldSchemas = {0, 4}
    MaxCrashes = 1
    MaxDamages = 1
    None = None
SYMMETRY MCSymmetry
INVARIANTS
    ReferencesBacked
    BundlesComplete
    UpgradeKeepsOriginal
CHECK_DEADLOCK FALSE
