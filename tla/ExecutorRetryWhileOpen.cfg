\* A call that backs off while another one trips the circuit.
SPECIFICATION Spec
CONSTANTS
    FailureThreshold = 1
    RecoveryTimeout = 2
    TicksPerSecond = 1
    Services = {s1}
    s1 = s1
    Calls = {c1, c2}
    c1 = c1
    c2 = c2
    Methods = {"GET", "POST"}
    Results <- HandledResults
    MaxAttempts = 2
    MaxTime = 3
PROPERTY NoNetworkCallWhileOpen
