\* Three concurrent calls on one circuit, every way an attempt can end.
SPECIFICATION Spec
CONSTANTS
    FailureThreshold = 2
    RecoveryTimeout = 3
    TicksPerSecond = 2
    Services = {s1}
    s1 = s1
    Calls = {c1, c2, c3}
    c1 = c1
    c2 = c2
    c3 = c3
    Methods = {"GET", "POST"}
    Results <- AllResults
    MaxAttempts = 3
    MaxTime = 7
SYMMETRY TaskSymmetry
INVARIANTS
    TypeOK
    CircuitConsistent
    PermitsMatchCircuit
    SingleProbe
    RetriesAreSafe
    RetryAfterExact
PROPERTY CooldownRespected
