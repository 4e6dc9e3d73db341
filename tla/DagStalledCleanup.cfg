CONSTANTS
    Nodes = {"compile", "test", "deploy"}
    Contracts <- OnlyFailFastCleanup
    EffectNodes = {}
    MaxOrdinal = 2
    MaxDeadLetters = 0
    MaxRestores = 1
SPECIFICATION Spec
INVARIANTS
    NeverStalls
CHECK_DEADLOCK FALSE
