CONSTANTS
    Agents = {a1}
    NoAgent = NoAgent
    MaxOrdinal = 2
    MaxFence = 2
    MaxEpoch = 0
    LeaseTicks = 1
    Backups = {}
    EffectKeys = {"release"}
    NonIdempotent = {"release"}
    Runtime = {"release"}
    MaxEffects = 2
    PlainOutcomes = {"succeeded", "failed", "aborted"}
    MaxSends = 1
    MaxOffers = 2
    r1 = r1
    r2 = r2
    r3 = r3
    Requests = {r1, r2, r3}
    Scope <- Scopes
    Unrepeatable = {r1, r3}
    Procs = {p1, p2}
    Generations = {1, 2}
    MaxReceipts <- Limits
    MaxAttempts = 2
    MaxHistory = 2
    MaxDeaths = 1
SYMMETRY Symmetry
SPECIFICATION EffectsSpec
INVARIANTS
    EffectsTypeOK
    LeavesAtMostOnce
    AbandonedIsOver
    SuccessWasApplied
    NeverViolated
    RoomToSettle
    OneRuntime
PROPERTIES
    KeepsPromise
CHECK_DEADLOCK FALSE
