SPECIFICATION Spec
CONSTANTS
    managed = managed
    pull = pull
    generic = generic
    shared = shared
    Commands = {managed, pull, generic}
    Mode <- MCMode
    UnitOf <- MCUnitOf
    Workspace <- MCWorkspace
    Scopes <- MCScopes
    Overlap <- MCOverlap
    Effects = {"publish"}
    MaxMoves = 2
    None = None
INVARIANTS
    OneWorkerPerResource
    ReleasedIsQuiet
    PublishedAsAccepted
    OwnershipReopens
CHECK_DEADLOCK FALSE
