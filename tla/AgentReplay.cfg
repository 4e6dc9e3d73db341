CONSTANTS
    a1 = a1
    Agents = {a1}
    NoAgent = NoAgent
    MaxOrdinal = 1
    MaxFence = 1
    MaxEpoch = 0
    LeaseTicks = 1
    Backups = {}
    EffectKeys = {}
    NonIdempotent = {}
    Runtime = {}
    MaxEffects = 0
    PlainOutcomes = {"succeeded"}
    Hosts = {a1}
    Window = 4
    Margin = 1
    Grace = 1
    Steps = 1
    MaxGrants = 1
    MaxCrashes = 0
    MaxLosses = 1
SPECIFICATION OnlineSpec
PROPERTY ReplayConverges
CHECK_DEADLOCK FALSE
