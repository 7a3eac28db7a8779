SPECIFICATION Spec
CONSTANTS
    p1 = p1
    p2 = p2
    project = project
    a1 = a1
    a2 = a2
    b1 = b1
    unit = unit
    other = other
    Programs = {p1, p2}
    Projects = {project}
    Attempts = {a1, a2, b1}
    ProjectOf <- MCProjectOf
    ProgramOf <- MCProgramOf
    UnitOf <- MCUnitOf
    RemediationOf <- MCRemediationOf
    Policy <- MCPolicy
    Snapshots = {1}
    Sizes = {1}
    Receipts = {r1}
    Quantities = {1}
    MaxFence = 2
    MaxUsage = 2
    None = None
INVARIANTS
    CapacityKept
    ExecutionsPaidFor
    UsageCountedOnce
CHECK_DEADLOCK FALSE
