CONSTANTS
    Builds = {1, 2}
    Tasks = {t1, t2}
    MaxDeliveryAttempts = 2
    MaxReconciliations = 1
    Deadline = 1
    Quiet = 2
    ClaimLease = 3
    MaxBackoff = 1
    Targets <- OneTarget
    Terminals <- FirstRetried
    MaxFaults = 0
SPECIFICATION DeliverySpec
INVARIANTS
    EarlierAttemptFinishesFirst
CHECK_DEADLOCK FALSE
