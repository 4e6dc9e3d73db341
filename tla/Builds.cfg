CONSTANTS
    Nodes = {"compile", "test", "deploy"}
    Contracts <- Admissible
    EffectNodes = {"deploy"}
    MaxOrdinal = 2
    MaxDeadLetters = 1
    MaxRestores = 1
    Builds = {1, 2}
    Tasks = {t1, t2}
    MaxDeliveryAttempts = 2
    MaxReconciliations = 1
    Deadline = 1
    Quiet = 2
    ClaimLease = 3
    MaxBackoff = 0
    Targets <- TwoTargets
    Terminals <- FirstRetried
    MaxFaults = 1
SYMMETRY Symmetry
SPECIFICATION BuildsSpec
INVARIANTS
    BuildsTypeOK
    RowsAgree
    BuildReportsNodes
    NeverStalls
    LastWriteStands
    ObservedStatusStands
    DeliveredWasAccepted
CHECK_DEADLOCK FALSE
