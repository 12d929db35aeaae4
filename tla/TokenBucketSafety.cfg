\* Two concurrent requests, one restart, time for the bucket to expire.
SPECIFICATION Spec
CONSTANTS
    Capacity = 4
    Cost = 3
    TicksPerSecond = 2
    Requests = {r1, r2}
    r1 = r1
    r2 = r2
    MaxDelay = 2
    MaxRestarts = 1
    MaxTime = 11
SYMMETRY RequestSymmetry
INVARIANTS
    TypeOK
    BudgetInv
    Budget
    RetryAfterSuffices
