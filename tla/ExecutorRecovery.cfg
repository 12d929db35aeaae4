\* Two circuits and two calls; attempts end in the ways the code handles.
SPECIFICATION FairSpec
CONSTANTS
    FailureThreshold = 2
    RecoveryTimeout = 1
    TicksPerSecond = 1
    Services = {s1, s2}
    s1 = s1
    s2 = s2
    Calls = {c1, c2}
    c1 = c1
    c2 = c2
    Methods = {"GET"}
    Results <- HandledResults
    MaxAttempts = 2
    MaxTime = 2
INVARIANTS
    HalfOpenIsProbed
PROPERTIES
    AttemptsRunOut
    CallsTerminate
    HalfOpenResolves
    ImplementsContract
