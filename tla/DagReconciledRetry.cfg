CONSTANTS
    Nodes = {"compile", "test", "deploy"}
    Contracts <- OnlyJoin
    EffectNodes = {}
    MaxOrdinal = 2
    MaxDeadLetters = 0
    MaxRestores = 1
SPECIFICATION Spec
INVARIANTS
    CloseXorRetry
CHECK_DEADLOCK FALSE
