CONSTANTS
    Nodes = {"compile", "test", "deploy"}
    Contracts <- OnlyFork
    EffectNodes = {}
    MaxOrdinal = 2
    MaxDeadLetters = 1
    MaxRestores = 1
SPECIFICATION Spec
INVARIANTS
    DeadLetterFailsBuild
CHECK_DEADLOCK FALSE
