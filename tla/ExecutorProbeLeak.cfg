\* client.request may also raise something that is not a RequestError.
SPECIFICATION FairSpec
CONSTANTS
    FailureThreshold = 1
    RecoveryTimeout = 1
    TicksPerSecond = 1
    Services = {s1}
    s1 = s1
    Calls = {c1}
    c1 = c1
    Methods = {"GET"}
    Results <- AllResults
    MaxAttempts = 2
    MaxTime = 2
PROPERTY HalfOpenResolves
