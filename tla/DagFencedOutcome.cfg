CONSTANTS
    Nodes = {"compile", "test", "deploy"}
    Contracts <- OnlyFork
    EffectNodes = {}
    MaxOrdinal = 2
    MaxDeadLetters = 0
    MaxRestores = 0
SPECIFICATION Spec
PROPERTIES
    OutcomeIsFinal
CHECK_DEADLOCK FALSE
