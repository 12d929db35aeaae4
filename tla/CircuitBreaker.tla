--------------------------- MODULE CircuitBreaker ---------------------------
(***************************************************************************)
(* The circuit breaker of one upstream service (ServiceCircuitBreaker in   *)
(* gateway/app/proxy/resilience.py) as a data type: a record and the       *)
(* operators that say what each method makes of it.  Every method runs     *)
(* under an asyncio.Lock and contains no await of its own, so on the       *)
(* event loop each call is one indivisible step.                           *)
(*                                                                         *)
(* Time is an integer number of ticks of the monotonic clock, with         *)
(* TicksPerSecond ticks in the second in which Retry-After is expressed.   *)
(***************************************************************************)
EXTENDS Integers

CONSTANTS
    FailureThreshold,   \* settings.failure_threshold
    RecoveryTimeout,    \* settings.recovery_timeout_seconds, in ticks
    TicksPerSecond      \* resolution of the clock

ASSUME BreakerAssumption ==
    /\ FailureThreshold \in Nat \ {0}
    /\ RecoveryTimeout \in Nat \ {0}
    /\ TicksPerSecond \in Nat \ {0}

CircuitState == {"closed", "open", "half_open"}

\* _opened_at is None.
NotOpened == -1

Breaker ==
    [state : CircuitState,
     consecutive_failures : Nat,
     opened_at : Nat \cup {NotOpened},
     probe_in_flight : BOOLEAN,
     generation : Nat]

CircuitPermit == [generation : Nat, half_open_probe : BOOLEAN]

Closed(generation) ==
    [state |-> "closed", consecutive_failures |-> 0, opened_at |-> NotOpened,
     probe_in_flight |-> FALSE, generation |-> generation]

NewBreaker == Closed(0)

Ceiling(n, d) == (n + d - 1) \div d

Remaining(b, now) == RecoveryTimeout - (now - b.opened_at)

\* Mutant: the remaining seconds are truncated instead of rounded up.
retry_after_Truncated(b, now) ==
    IF b.opened_at = NotOpened \/ Remaining(b, now) <= 0
    THEN 0
    ELSE Remaining(b, now) \div TicksPerSecond

\* Whole seconds of cooldown left; 0 when a probe may be sent.  The code's
\* max(1, ceil(remaining)) is the ceiling itself: remaining is positive there.
retry_after(b, now) ==
    IF b.opened_at = NotOpened \/ Remaining(b, now) <= 0
    THEN 0
    ELSE Ceiling(Remaining(b, now), TicksPerSecond)

-----------------------------------------------------------------------------
(* before_request                                                          *)

\* Mutant: a half-open circuit does not look for the probe in flight.
Admits_IgnoringProbe(b, now) ==
    \/ b.state = "closed"
    \/ b.state = "open" /\ retry_after(b, now) = 0
    \/ b.state = "half_open"

\* The call is admitted: the circuit is closed, its cooldown has elapsed, or
\* it is half open and nobody probes it.
Admits(b, now) ==
    \/ b.state = "closed"
    \/ b.state = "open" /\ retry_after(b, now) = 0
    \/ b.state = "half_open" /\ ~b.probe_in_flight

\* The transition to half open, on behalf of the probe.
HalfOpened(b) ==
    [state |-> "half_open", consecutive_failures |-> b.consecutive_failures,
     opened_at |-> b.opened_at, probe_in_flight |-> TRUE,
     generation |-> b.generation + 1]

\* What admitting a call does to the circuit.
Admitted(b) ==
    CASE b.state = "closed" -> b
      [] b.state = "open" -> HalfOpened(b)
      [] b.state = "half_open" -> [b EXCEPT !.probe_in_flight = TRUE]

\* The permit the admitted call carries.
PermitFor(b) ==
    [generation |-> Admitted(b).generation,
     half_open_probe |-> b.state # "closed"]

\* Mutant: Retry-After is rounded down.
RejectionDelay_Floor(b, now) ==
    IF b.state = "open" THEN Remaining(b, now) \div TicksPerSecond ELSE 1

\* The Retry-After of a rejection (CircuitOpenError.retry_after_seconds).
RejectionDelay(b, now) ==
    IF b.state = "open" THEN retry_after(b, now) ELSE 1

-----------------------------------------------------------------------------
(* record_success, record_failure, record_neutral                          *)

\* The permit was issued under the circuit's present generation.
CurrentPermit(b, p) == p.generation = b.generation

\* A completion that speaks for the half-open circuit.
ProbeReports(b, p) ==
    /\ CurrentPermit(b, p)
    /\ p.half_open_probe
    /\ b.state = "half_open"
    /\ b.probe_in_flight

\* Mutant: the generation of a closed circuit's permit is not compared.
ClosedReports_AnyGeneration(b, p) ==
    /\ ~p.half_open_probe
    /\ b.state = "closed"

\* A completion that speaks for the closed circuit.
ClosedReports(b, p) ==
    /\ CurrentPermit(b, p)
    /\ ~p.half_open_probe
    /\ b.state = "closed"

\* Mutant: the generation is not advanced on the way to open.
Opened_SameGeneration(b, failures, now) ==
    [state |-> "open", consecutive_failures |-> failures, opened_at |-> now,
     probe_in_flight |-> FALSE, generation |-> b.generation]

\* Mutant: the probe flag is left behind.
Opened_KeepsProbe(b, failures, now) ==
    [state |-> "open", consecutive_failures |-> failures, opened_at |-> now,
     probe_in_flight |-> b.probe_in_flight, generation |-> b.generation + 1]

\* The transition to open that a failure or an inconclusive probe causes.
Opened(b, failures, now) ==
    [state |-> "open", consecutive_failures |-> failures, opened_at |-> now,
     probe_in_flight |-> FALSE, generation |-> b.generation + 1]

\* A success closes the circuit it probes and ends a run of failures.
record_success(b, p) ==
    IF ProbeReports(b, p)
    THEN Closed(b.generation + 1)
    ELSE IF ClosedReports(b, p)
    THEN [b EXCEPT !.consecutive_failures = 0, !.opened_at = NotOpened]
    ELSE b

\* A failure reopens the circuit it probes, and opens a closed circuit when
\* it is the FailureThreshold-th in a row.
record_failure(b, p, now) ==
    LET failures == b.consecutive_failures + 1
    IN  IF ProbeReports(b, p) THEN Opened(b, FailureThreshold, now)
        ELSE IF ~ClosedReports(b, p) THEN b
        ELSE IF failures >= FailureThreshold THEN Opened(b, failures, now)
        ELSE [b EXCEPT !.consecutive_failures = failures]

\* Mutant: a cancelled probe reports to nobody.
record_neutral_Ignored(b, p, now) == b

\* A completion that says nothing about the upstream returns the circuit it
\* probes to open and has no other effect.
record_neutral(b, p, now) ==
    IF ProbeReports(b, p) THEN Opened(b, b.consecutive_failures, now) ELSE b

=============================================================================
