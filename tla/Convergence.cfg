CONSTANTS
    Agents = {a1, a2}
    NoAgent = NoAgent
    MaxOrdinal = 1
    MaxFence = 2
    MaxEpoch = 1
    LeaseTicks = 2
    Backups = {b1}
    EffectKeys = {}
    NonIdempotent = {}
    Runtime = {}
    MaxEffects = 0
    PlainOutcomes = {"succeeded", "failed", "aborted"}
SPECIFICATION ConvergenceSpec
PROPERTIES
    CancellationConverges
    DeliveriesRest
CHECK_DEADLOCK FALSE
