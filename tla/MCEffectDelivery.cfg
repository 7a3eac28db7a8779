SPECIFICATION Spec
CONSTANTS
    Ops = {o1}
    EffectKeys = {k1, k2}
    Requests = {q1, meta}
    InertRequests = {meta}
    References = {r1, r2}
    ObservationIds <- MCObservationIds
    Times <- MCTimes
    LeaseSeconds = 1
    MaxFence = 2
    MaxClock = 2
    None = None
    Idempotent = {k2}
VIEW MCView
CHECK_DEADLOCK FALSE
INVARIANTS
    JournalReopens
    RetryJustified
    JournalTruthful
PROPERTIES
    EffectHappensOnce
    OutcomeNeverRetracted
