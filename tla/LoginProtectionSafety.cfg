\* Concurrent attempts on one account, two locks in a row possible.
SPECIFICATION Spec
CONSTANTS
    Threshold = 2
    FailureWindow = 2
    Lockout = 4
    TicksPerSecond = 2
    Attempts = {a1, a2, a3}
    a1 = a1
    a2 = a2
    a3 = a3
    MaxDelay = 1
    MaxLosses = 1
    MaxTime = 6
SYMMETRY AttemptSymmetry
INVARIANTS
    TypeOK
    LockConsistent
    LockKeepsOut
    LockDelaySuffices
PROPERTY LockImmutable
