SPECIFICATION Spec
CONSTANTS
    u1 = u1
    a1 = a1
    Usage <- MCUsage
    Audit <- MCAudit
    Queued <- MCQueued
    MaxBatch = 1
    MaxOutstanding = 1
    MaxFiles = 1
    MaxAppends = 3
    MaxFaults = 1
    MaxCrashes = 1
    MaxCancels = 1
    MaxCloses = 2
INVARIANTS TypeOK AtMostOnce Accounted ClosedIsDrained
PROPERTIES QuarantineHolds
CHECK_DEADLOCK FALSE
