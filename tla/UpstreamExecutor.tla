-------------------------- MODULE UpstreamExecutor --------------------------
(***************************************************************************)
(* ResilientUpstreamExecutor.execute (gateway/app/proxy/executor.py) run by *)
(* any number of concurrent requests over one circuit breaker per service. *)
(*                                                                         *)
(* A call is a task of the event loop.  It is suspended in two places      *)
(* only, inside client.request and inside the backoff sleep; everything    *)
(* between two suspensions is one action.  A cancellation (the client went *)
(* away, the server shuts down) is delivered at a suspension.              *)
(***************************************************************************)
EXTENDS CircuitBreaker

CONSTANTS
    Services,      \* the registered upstream services
    Calls,         \* tasks that may be inside execute() at the same time
    Methods,       \* HTTP methods of the requests
    Results,       \* ways in which client.request may end
    MaxAttempts,   \* settings.max_attempts
    MaxTime        \* bound on the clock

SAFE_RETRY_METHODS == {"GET", "HEAD", "OPTIONS"}

\* "connect_error" stands for ConnectError and ConnectTimeout,
\* "exchange_error" for every other RequestError but PoolTimeout, and
\* "unhandled_error" for an exception that is not a RequestError.
AllResults == {"response", "response_5xx", "connect_error",
               "exchange_error", "pool_timeout", "unhandled_error"}

ASSUME ExecutorAssumption ==
    /\ Results \subseteq AllResults
    /\ MaxAttempts \in Nat \ {0}
    /\ MaxTime \in Nat

VARIABLES
    now,        \* the monotonic clock
    breaker,    \* breaker[s]: the circuit of service s (CircuitBreakerRegistry)
    call        \* call[c]: the local state of task c

vars == <<now, breaker, call>>

Suspended == {"requesting", "sleeping"}

Idle == [pc |-> "idle"]

\* A task inside execute() that holds a permit.  exchanged is history: an
\* earlier attempt may have been processed by the upstream.
LiveCall ==
    [pc : Suspended, service : Services, method : Methods,
     permit : CircuitPermit, attempts : 1..MaxAttempts, exchanged : BOOLEAN]

\* A task whose call was refused: which circuit refused it, in which
\* generation, and until when it was told to stay away.
RejectedCall ==
    [pc : {"rejected"}, service : Services, generation : Nat, retry_at : Nat]

Init ==
    /\ now = 0
    /\ breaker = [s \in Services |-> NewBreaker]
    /\ call = [c \in Calls |-> Idle]

Live(c) == call[c].pc \in Suspended

-----------------------------------------------------------------------------
(* Classification of how an attempt ended.                                 *)

\* The upstream may have acted on the request.
MayBeProcessed(r) == r \in {"response", "response_5xx", "exchange_error"}

\* Mutant: an exchange that broke off is retried as well.
transport_error_is_retryable_AnyError(method, r) ==
    /\ method \in SAFE_RETRY_METHODS
    /\ r \in {"connect_error", "exchange_error"}

transport_error_is_retryable(method, r) ==
    /\ method \in SAFE_RETRY_METHODS
    /\ r = "connect_error"

\* PoolTimeout is local saturation: it is not held against the upstream.
CountsAsFailure(r) == r \in {"response_5xx", "connect_error", "exchange_error"}

\* Mutant: one attempt too many.
AttemptLimit_OffByOne(c) ==
    1 + (IF call[c].permit.half_open_probe THEN 1 ELSE MaxAttempts)

\* A half-open probe gets exactly one attempt.
AttemptLimit(c) == IF call[c].permit.half_open_probe THEN 1 ELSE MaxAttempts

ShouldRetry(c, r) ==
    /\ call[c].attempts < AttemptLimit(c)
    /\ transport_error_is_retryable(call[c].method, r)

\* The circuit after the call's verdict is recorded.
Recorded(c, r) ==
    LET b == breaker[call[c].service]
        p == call[c].permit
    IN  IF CountsAsFailure(r) THEN record_failure(b, p, now)
        ELSE IF r = "response" THEN record_success(b, p)
        ELSE record_neutral(b, p, now)

-----------------------------------------------------------------------------
(* The steps of execute().                                                 *)

\* before_request admits the call and the first attempt is sent.
Admit(c, s, m) ==
    /\ call[c].pc = "idle"
    /\ Admits(breaker[s], now)
    /\ breaker' = [breaker EXCEPT ![s] = Admitted(@)]
    /\ call' = [call EXCEPT ![c] =
            [pc |-> "requesting", service |-> s, method |-> m,
             permit |-> PermitFor(breaker[s]), attempts |-> 1,
             exchanged |-> FALSE]]
    /\ UNCHANGED now

\* before_request raises CircuitOpenError: no network call is made.
Reject(c, s) ==
    /\ call[c].pc = "idle"
    /\ ~Admits(breaker[s], now)
    /\ call' = [call EXCEPT ![c] =
            [pc |-> "rejected", service |-> s,
             generation |-> breaker[s].generation,
             retry_at |-> now + TicksPerSecond * RejectionDelay(breaker[s], now)]]
    /\ UNCHANGED <<now, breaker>>

\* The refused task has answered 503 and is gone.
Dismiss(c) ==
    /\ call[c].pc = "rejected"
    /\ call' = [call EXCEPT ![c] = Idle]
    /\ UNCHANGED <<now, breaker>>

\* The attempt failed in a way that is retried: back off.
BackOff(c, r) ==
    /\ call[c].pc = "requesting"
    /\ ShouldRetry(c, r)
    /\ call' = [call EXCEPT ![c].pc = "sleeping",
                            ![c].exchanged = @ \/ MayBeProcessed(r)]
    /\ UNCHANGED <<now, breaker>>

\* Mutant: the attempt is not counted.
Retry_Uncounted(c) ==
    /\ call[c].pc = "sleeping"
    /\ call' = [call EXCEPT ![c].pc = "requesting"]
    /\ UNCHANGED <<now, breaker>>

\* The backoff is over: send the next attempt.
Retry(c) ==
    /\ call[c].pc = "sleeping"
    /\ call' = [call EXCEPT ![c].pc = "requesting", ![c].attempts = @ + 1]
    /\ UNCHANGED <<now, breaker>>

\* The attempt ended for good: record the verdict, return or raise.
Complete(c, r) ==
    /\ call[c].pc = "requesting"
    /\ r # "unhandled_error"
    /\ ~ShouldRetry(c, r)
    /\ breaker' = [breaker EXCEPT ![call[c].service] = Recorded(c, r)]
    /\ call' = [call EXCEPT ![c] = Idle]
    /\ UNCHANGED now

\* client.request raised something that is not a RequestError: the exception
\* leaves execute() and nothing is recorded.
Escape(c) ==
    /\ call[c].pc = "requesting"
    /\ "unhandled_error" \in Results
    /\ call' = [call EXCEPT ![c] = Idle]
    /\ UNCHANGED <<now, breaker>>

\* CancelledError is raised at a suspension.
Cancel(c) ==
    /\ Live(c)
    /\ breaker' = [breaker EXCEPT ![call[c].service] =
            record_neutral(@, call[c].permit, now)]
    /\ call' = [call EXCEPT ![c] = Idle]
    /\ UNCHANGED now

Tick ==
    /\ now < MaxTime
    /\ now' = now + 1
    /\ UNCHANGED <<breaker, call>>

Proceed(c) ==
    \/ \E r \in Results : BackOff(c, r) \/ Complete(c, r)
    \/ Retry(c)
    \/ Escape(c)

Next ==
    \/ \E c \in Calls :
        \/ \E s \in Services, m \in Methods : Admit(c, s, m)
        \/ \E s \in Services : Reject(c, s)
        \/ Dismiss(c)
        \/ Proceed(c)
        \/ Cancel(c)
    \/ Tick

Spec == Init /\ [][Next]_vars

\* Every attempt ends (httpx is configured with connect, read, write and pool
\* timeouts) and every sleep is over some day.  Nothing obliges clients to
\* call, to cancel, or the clock to reach any given value.
FairSpec == Spec /\ \A c \in Calls : WF_vars(Proceed(c))

-----------------------------------------------------------------------------
(* Properties.                                                             *)

\* Every variable has the shape the code gives it.
TypeOK ==
    /\ now \in Nat
    /\ breaker \in [Services -> Breaker]
    /\ call \in [Calls -> {Idle} \cup LiveCall \cup RejectedCall]

\* The fields of one circuit at time t agree with each other.
Coherent(b, t) ==
    /\ b.probe_in_flight <=> b.state = "half_open"
    /\ b.opened_at = NotOpened <=> b.state = "closed"
    /\ b.opened_at <= t
    /\ b.state = "closed" => b.consecutive_failures < FailureThreshold

\* The private fields of a circuit agree with each other: a half-open circuit
\* has its probe in flight and only then, only a circuit that is not closed
\* remembers when it opened, and a closed one has counted fewer failures than
\* trip it (_state, _half_open_probe_in_flight, _opened_at and
\* _consecutive_failures in resilience.py).
CircuitConsistent == \A s \in Services : Coherent(breaker[s], now)

\* A permit says truly under which circuit it was issued, for as long as it is
\* held: it is never ahead of the circuit, a permit of the present generation
\* is a probe's exactly when the circuit is half open, no other is held while
\* the circuit is open, and a probe's permit never goes stale.  So dropping
\* the completions of older generations (resilience.py:447) loses no verdict
\* the circuit is waiting for.
PermitsMatchCircuit ==
    \A c \in Calls : Live(c) =>
        LET b == breaker[call[c].service]
            p == call[c].permit
        IN  /\ p.generation <= b.generation
            /\ CurrentPermit(b, p) =>
                b.state = (IF p.half_open_probe THEN "half_open" ELSE "closed")
            /\ p.half_open_probe => CurrentPermit(b, p)

\* A call backs off only while it has an attempt left: the loop of execute()
\* never runs past its limit.
BackOffLeavesAttempt ==
    \A c \in Calls :
        call[c].pc = "sleeping" => call[c].attempts < AttemptLimit(c)

\* Two concurrent calls never probe the same service: before_request admits
\* "exactly one probe" (resilience.py:305-308).
SingleProbe ==
    \A c, d \in Calls :
        /\ Live(c) /\ Live(d)
        /\ call[c].permit.half_open_probe /\ call[d].permit.half_open_probe
        /\ call[c].service = call[d].service
        => c = d

\* A request is sent again only if its method is safe, no earlier attempt can
\* have reached the upstream, and it is not the probe of a half-open circuit
\* (transport_error_is_retryable and the attempt limit of execute).
RetriesAreSafe ==
    \A c \in Calls : Live(c) =>
        /\ ~call[c].exchanged
        /\ call[c].pc = "sleeping" \/ call[c].attempts > 1 =>
            /\ call[c].method \in SAFE_RETRY_METHODS
            /\ ~call[c].permit.half_open_probe

\* The inductive invariant behind the safety properties.
ExecutorInv ==
    /\ TypeOK
    /\ BackOffLeavesAttempt
    /\ CircuitConsistent
    /\ PermitsMatchCircuit
    /\ SingleProbe
    /\ RetriesAreSafe

\* The Retry-After sent with a rejection is long enough and less than a
\* second too long: a client that obeys it while the circuit stays as it was
\* comes back when the cooldown is over (_retry_after_unlocked).
RetryAfterExact ==
    \A c \in Calls : call[c].pc = "rejected" =>
        LET b == breaker[call[c].service]
            ready == b.opened_at + RecoveryTimeout
        IN  b.state = "open" /\ b.generation = call[c].generation =>
                call[c].retry_at \in ready .. ready + TicksPerSecond - 1

\* No step of any call, however late it completes, changes an open circuit
\* before its cooldown has elapsed.
CooldownRespected ==
    [][\A s \in Services :
            /\ breaker[s].state = "open"
            /\ now < breaker[s].opened_at + RecoveryTimeout
            => breaker'[s] = breaker[s]]_vars

\* What a call under way may still do: an attempt and the sleep after it, for
\* every attempt that is left.
StepsLeft(x) ==
    2 * (MaxAttempts - x.attempts) + (IF x.pc = "requesting" THEN 1 ELSE 0)

\* Every step of a call that goes on uses up what it may still do, and it goes
\* on for the same service with the permit it was admitted with, whatever other
\* calls and the clock do meanwhile (the loop at executor.py:211).
AttemptsRunOut ==
    [][\A c \in Calls : Live(c) /\ Live(c)' /\ call'[c] # call[c] =>
            /\ StepsLeft(call'[c]) \in 0 .. StepsLeft(call[c]) - 1
            /\ call'[c].service = call[c].service
            /\ call'[c].permit = call[c].permit]_vars

\* execute() returns or raises: the attempt loop is bounded.
CallsTerminate == \A c \in Calls : Live(c) ~> ~Live(c)

\* A half-open circuit is never left alone: as long as client.request raises
\* only what execute() handles, the call that probes it is under way and its
\* verdict will be listened to (executor.py:254-313 against resilience.py:447).
HalfOpenIsProbed ==
    \A s \in Services :
        breaker[s].state = "half_open" =>
            \E c \in Calls :
                /\ Live(c)
                /\ call[c].service = s
                /\ call[c].permit.half_open_probe
                /\ CurrentPermit(breaker[s], call[c].permit)

\* "Concurrent requests remain rejected until that probe succeeds or fails"
\* (resilience.py:306-308): a half-open circuit does not stay half open.
HalfOpenResolves ==
    \A s \in Services :
        breaker[s].state = "half_open" ~> breaker[s].state # "half_open"

\* While the circuit is open the Gateway answers "sans effectuer d'appel
\* reseau vers le service concerne" (README.md:846-848): no attempt, first or
\* repeated, is sent to a service whose circuit is open.
NoNetworkCallWhileOpen ==
    [][\A c \in Calls :
            call'[c].pc = "requesting" /\ call[c].pc # "requesting" =>
                breaker'[call'[c].service].state # "open"]_vars

\* The calls a circuit still listens to.
Listened(s) ==
    {c \in Calls : /\ Live(c)
                   /\ call[c].service = s
                   /\ CurrentPermit(breaker[s], call[c].permit)}

\* The failures in a row a closed circuit has heard of.
StreakOf(b) == IF b.state = "closed" THEN b.consecutive_failures ELSE 0

Phases == [s \in Services |-> breaker[s].state]
Listeners == [s \in Services |-> Listened(s)]
Streaks == [s \in Services |-> StreakOf(breaker[s])]

Contract ==
    INSTANCE CircuitContract WITH
        phase <- Phases, current <- Listeners, streak <- Streaks

\* The executor keeps the contract of CircuitContract as long as
\* client.request raises nothing but RequestError and CancelledError.
ImplementsContract == Contract!CSpec

=============================================================================
