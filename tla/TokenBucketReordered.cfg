\* Readings of the clock executed out of order, no restart.
SPECIFICATION Spec
CONSTANTS
    Capacity = 3
    Cost = 1
    TicksPerSecond = 2
    Requests = {r1, r2}
    r1 = r1
    r2 = r2
    MaxDelay = 2
    MaxRestarts = 0
    MaxTime = 4
INVARIANT BurstPlusRefill
