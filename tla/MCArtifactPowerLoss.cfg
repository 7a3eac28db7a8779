SPECIFICATION Spec
CONSTANTS
    Digests = {d1}
    Slots = {s1}
    Names = {}
    OldSchemas = {0}
    MaxCrashes = 2
    MaxDamages = 0
    None = None
INVARIANTS
    ReferencesSurvivePowerLoss
CHECK_DEADLOCK FALSE
