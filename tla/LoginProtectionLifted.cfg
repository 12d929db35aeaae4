\* A login that passed its check before the lock was set succeeds after it.
SPECIFICATION Spec
CONSTANTS
    Threshold = 1
    FailureWindow = 2
    Lockout = 3
    TicksPerSecond = 1
    Attempts = {a1, a2}
    a1 = a1
    a2 = a2
    MaxDelay = 1
    MaxLosses = 0
    MaxTime = 4
PROPERTY LockLasts
