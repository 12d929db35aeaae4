----------------------- MODULE UpstreamExecutorProofs -----------------------
(***************************************************************************)
(* Proofs about UpstreamExecutor for any number of services and concurrent *)
(* calls, every threshold, cooldown and number of attempts.                *)
(***************************************************************************)
EXTENDS UpstreamExecutor, TLAPS

-----------------------------------------------------------------------------
(* The operations of one circuit.                                          *)

\* Rounding up to whole seconds (math.ceil in _retry_after_unlocked).
LEMMA CeilingBounds ==
    ASSUME NEW n \in Nat, NEW d \in Nat \ {0}
    PROVE  /\ Ceiling(n, d) \in Nat
           /\ n <= d * Ceiling(n, d)
           /\ d * Ceiling(n, d) < n + d
<1> DEFINE m == n + d - 1
           q == m \div d
<1>1. m \in Nat /\ q \in Nat
    OBVIOUS
<1>2. m = d * q + (m % d) /\ m % d \in 0..(d - 1)
    BY <1>1
<1>3. n <= d * q /\ d * q < n + d
    BY <1>1, <1>2
<1> QED
    BY <1>1, <1>3 DEF Ceiling

LEMMA AdmittedType ==
    ASSUME NEW b \in Breaker
    PROVE  Admitted(b) \in Breaker /\ PermitFor(b) \in CircuitPermit
<1>1. Admitted(b) \in Breaker
    <2>1. HalfOpened(b) \in Breaker
        BY DEF Breaker, CircuitState, HalfOpened
    <2>2. [b EXCEPT !.probe_in_flight = TRUE] \in Breaker
        BY DEF Breaker
    <2>3. b.state \in {"closed", "open", "half_open"}
        BY DEF Breaker, CircuitState
    <2> QED
        BY <2>1, <2>2, <2>3 DEF Admitted
<1> QED
    BY <1>1 DEF Breaker, CircuitPermit, PermitFor

LEMMA OpenedType ==
    ASSUME NEW b \in Breaker, NEW f \in Nat, NEW t \in Nat
    PROVE  Opened(b, f, t) \in Breaker
BY DEF Breaker, CircuitState, Opened

LEMMA RecordTypes ==
    ASSUME NEW b \in Breaker, NEW p \in CircuitPermit, NEW t \in Nat
    PROVE  /\ record_success(b, p) \in Breaker
           /\ record_failure(b, p, t) \in Breaker
           /\ record_neutral(b, p, t) \in Breaker
<1>1. b.consecutive_failures \in Nat
    BY DEF Breaker
<1>2. record_success(b, p) \in Breaker
    <2>1. Closed(b.generation + 1) \in Breaker
        BY DEF Breaker, CircuitState, Closed
    <2>2. [b EXCEPT !.consecutive_failures = 0, !.opened_at = NotOpened] \in Breaker
        BY DEF Breaker
    <2> QED
        BY <2>1, <2>2 DEF record_success
<1>3. record_failure(b, p, t) \in Breaker
    <2>1. [b EXCEPT !.consecutive_failures = b.consecutive_failures + 1] \in Breaker
        BY DEF Breaker
    <2>2. /\ Opened(b, FailureThreshold, t) \in Breaker
          /\ Opened(b, b.consecutive_failures + 1, t) \in Breaker
        BY <1>1, OpenedType, BreakerAssumption
    <2> QED
        BY <2>1, <2>2 DEF record_failure
<1>4. record_neutral(b, p, t) \in Breaker
    BY <1>1, OpenedType DEF record_neutral
<1> QED
    BY <1>2, <1>3, <1>4

LEMMA RejectionDelayType ==
    ASSUME NEW b \in Breaker, NEW t \in Nat
    PROVE  RejectionDelay(b, t) \in Nat
<1>1. b.opened_at \in Int
    BY DEF Breaker, NotOpened
<1>2. Remaining(b, t) \in Int
    BY <1>1, BreakerAssumption DEF Remaining
<1>3. ASSUME Remaining(b, t) > 0
      PROVE  Ceiling(Remaining(b, t), TicksPerSecond) \in Nat
    BY <1>2, <1>3, BreakerAssumption DEF Ceiling
<1> QED
    BY <1>2, <1>3 DEF RejectionDelay, retry_after

-----------------------------------------------------------------------------
(* Type correctness.                                                       *)

LEMMA LiveShape ==
    ASSUME TypeOK, NEW c \in Calls, Live(c)
    PROVE  /\ call[c] \in LiveCall
           /\ call[c].service \in Services
           /\ call[c].permit \in CircuitPermit
           /\ call[c].attempts \in 1..MaxAttempts
           /\ breaker[call[c].service] \in Breaker
<1>1. call[c] \in {Idle} \cup LiveCall \cup RejectedCall
    BY DEF TypeOK
<1>2. call[c] # Idle
    BY DEF Live, Suspended, Idle
<1>3. call[c] \notin RejectedCall
    BY DEF Live, Suspended, RejectedCall
<1>4. call[c] \in LiveCall
    BY <1>1, <1>2, <1>3
<1>5. /\ call[c].service \in Services
      /\ call[c].permit \in CircuitPermit
      /\ call[c].attempts \in 1..MaxAttempts
    BY <1>4 DEF LiveCall
<1> QED
    BY <1>4, <1>5 DEF TypeOK

LEMMA TypeInit == Init => TypeOK
BY DEF Init, TypeOK, NewBreaker, Closed, Breaker, CircuitState, NotOpened

LEMMA TypeStep == TypeOK /\ BackOffLeavesAttempt /\ [Next]_vars => TypeOK'
<1> SUFFICES ASSUME TypeOK, BackOffLeavesAttempt, [Next]_vars PROVE TypeOK'
    OBVIOUS
<1> DEFINE Slot == {Idle} \cup LiveCall \cup RejectedCall
<1>t. now \in Nat /\ breaker \in [Services -> Breaker] /\ call \in [Calls -> Slot]
    BY DEF TypeOK
<1>1. ASSUME NEW c \in Calls, NEW s \in Services, NEW m \in Methods, Admit(c, s, m)
      PROVE  TypeOK'
    <2>1. Admitted(breaker[s]) \in Breaker /\ PermitFor(breaker[s]) \in CircuitPermit
        BY <1>t, AdmittedType
    <2>2. [pc |-> "requesting", service |-> s, method |-> m,
           permit |-> PermitFor(breaker[s]), attempts |-> 1,
           exchanged |-> FALSE] \in LiveCall
        BY <2>1, ExecutorAssumption DEF LiveCall, Suspended
    <2> QED
        BY <1>1, <1>t, <2>1, <2>2 DEF Admit, TypeOK
<1>2. ASSUME NEW c \in Calls, NEW s \in Services, Reject(c, s) PROVE TypeOK'
    <2>1. RejectionDelay(breaker[s], now) \in Nat /\ breaker[s].generation \in Nat
        BY <1>t, RejectionDelayType DEF Breaker
    <2>2. [pc |-> "rejected", service |-> s,
           generation |-> breaker[s].generation,
           retry_at |-> now + TicksPerSecond * RejectionDelay(breaker[s], now)]
          \in RejectedCall
        BY <1>t, <2>1, BreakerAssumption DEF RejectedCall
    <2> QED
        BY <1>2, <1>t, <2>2 DEF Reject, TypeOK
<1>3. ASSUME NEW c \in Calls, Dismiss(c) \/ Escape(c) PROVE TypeOK'
    BY <1>3, <1>t DEF Dismiss, Escape, TypeOK
<1>4. ASSUME NEW c \in Calls, NEW r \in Results, BackOff(c, r) PROVE TypeOK'
    <2>1. call[c] \in LiveCall
        BY <1>4, LiveShape DEF BackOff, Live, Suspended
    <2>2. call' = [call EXCEPT ![c] = [call[c] EXCEPT !.pc = "sleeping",
                        !.exchanged = call[c].exchanged \/ MayBeProcessed(r)]]
        BY <1>4 DEF BackOff
    <2>3. [call[c] EXCEPT !.pc = "sleeping",
                !.exchanged = call[c].exchanged \/ MayBeProcessed(r)] \in LiveCall
        BY <2>1 DEF LiveCall, Suspended, MayBeProcessed
    <2> QED
        BY <1>4, <1>t, <2>2, <2>3 DEF BackOff, TypeOK
<1>5. ASSUME NEW c \in Calls, Retry(c) PROVE TypeOK'
    <2>1. call[c] \in LiveCall
        BY <1>5, LiveShape DEF Retry, Live, Suspended
    <2>2. call[c].attempts + 1 \in 1..MaxAttempts
        <3>1. call[c].attempts < AttemptLimit(c)
            BY <1>5 DEF Retry, BackOffLeavesAttempt
        <3>2. call[c].attempts \in 1..MaxAttempts
            BY <2>1 DEF LiveCall
        <3> QED
            BY <3>1, <3>2, ExecutorAssumption DEF AttemptLimit
    <2>3. call' = [call EXCEPT ![c] = [call[c] EXCEPT !.pc = "requesting",
                                            !.attempts = call[c].attempts + 1]]
        BY <1>5 DEF Retry
    <2>4. [call[c] EXCEPT !.pc = "requesting", !.attempts = call[c].attempts + 1]
          \in LiveCall
        BY <2>1, <2>2 DEF LiveCall, Suspended
    <2> QED
        BY <1>5, <1>t, <2>3, <2>4 DEF Retry, TypeOK
<1>6. ASSUME NEW c \in Calls, NEW r \in Results, Complete(c, r) PROVE TypeOK'
    <2>1. Live(c)
        BY <1>6 DEF Complete, Live, Suspended
    <2>2. Recorded(c, r) \in Breaker
        BY <1>t, <2>1, LiveShape, RecordTypes DEF Recorded
    <2> QED
        BY <1>6, <1>t, <2>2 DEF Complete, TypeOK
<1>7. ASSUME NEW c \in Calls, Cancel(c) PROVE TypeOK'
    <2>1. record_neutral(breaker[call[c].service], call[c].permit, now) \in Breaker
        BY <1>7, <1>t, LiveShape, RecordTypes DEF Cancel
    <2> QED
        BY <1>7, <1>t, <2>1 DEF Cancel, TypeOK
<1>8. CASE Tick
    BY <1>8, <1>t DEF Tick, TypeOK
<1>9. CASE UNCHANGED vars
    BY <1>9 DEF vars, TypeOK
<1> QED
    BY <1>1, <1>2, <1>3, <1>4, <1>5, <1>6, <1>7, <1>8, <1>9 DEF Next, Proceed

-----------------------------------------------------------------------------
(* What a completion may do to a circuit.                                  *)

\* The circuits that the three record_ methods may leave behind.
Outcomes(b, p, t) ==
    {record_success(b, p), record_failure(b, p, t), record_neutral(b, p, t)}

LEMMA OutcomeCoherent ==
    ASSUME NEW b \in Breaker, NEW p \in CircuitPermit, NEW t \in Nat,
           Coherent(b, t), NEW x \in Outcomes(b, p, t)
    PROVE  Coherent(x, t)
<1> USE DEF Coherent
<1>1. \A f \in Nat : Coherent(Opened(b, f, t), t)
    BY DEF Opened, NotOpened
<1>2. Coherent(Closed(b.generation + 1), t)
    BY BreakerAssumption DEF Closed, NotOpened
<1>3. b.consecutive_failures \in Nat
    BY DEF Breaker
<1>4. CASE x = record_success(b, p)
    <2>1. ClosedReports(b, p) =>
            Coherent([b EXCEPT !.consecutive_failures = 0, !.opened_at = NotOpened], t)
        BY BreakerAssumption DEF ClosedReports, Breaker, NotOpened
    <2> QED
        BY <1>2, <1>4, <2>1 DEF record_success
<1>5. CASE x = record_failure(b, p, t)
    <2>1. b.consecutive_failures + 1 < FailureThreshold =>
            Coherent([b EXCEPT !.consecutive_failures = b.consecutive_failures + 1], t)
        BY DEF Breaker
    <2>2. /\ Coherent(Opened(b, FailureThreshold, t), t)
          /\ Coherent(Opened(b, b.consecutive_failures + 1, t), t)
        BY <1>1, <1>3, BreakerAssumption
    <2> HIDE DEF Coherent
    <2> QED
        BY <1>3, <1>5, <2>1, <2>2, BreakerAssumption DEF record_failure
<1>6. CASE x = record_neutral(b, p, t)
    BY <1>1, <1>3, <1>6 DEF record_neutral
<1> QED
    BY <1>4, <1>5, <1>6 DEF Outcomes

\* A completion leaves state and generation alone, or it speaks for the
\* circuit and moves it to the next generation.
LEMMA OutcomeGeneration ==
    ASSUME NEW b \in Breaker, NEW p \in CircuitPermit, NEW t \in Nat,
           NEW x \in Outcomes(b, p, t)
    PROVE  \/ x.generation = b.generation /\ x.state = b.state
           \/ /\ x.generation = b.generation + 1
              /\ ProbeReports(b, p) \/ ClosedReports(b, p)
<1>1. \A f \in Nat : Opened(b, f, t).generation = b.generation + 1
    BY DEF Opened
<1>2. Closed(b.generation + 1).generation = b.generation + 1
    BY DEF Closed
<1>3. b.consecutive_failures \in Nat
    BY DEF Breaker
<1>4. CASE x = record_success(b, p)
    <2> DEFINE y == [b EXCEPT !.consecutive_failures = 0, !.opened_at = NotOpened]
    <2>1. y.generation = b.generation /\ y.state = b.state
        BY DEF Breaker
    <2> QED
        BY <1>2, <1>4, <2>1 DEF record_success
<1>5. CASE x = record_failure(b, p, t)
    <2> DEFINE y == [b EXCEPT !.consecutive_failures = b.consecutive_failures + 1]
    <2>1. y.generation = b.generation /\ y.state = b.state
        BY DEF Breaker
    <2>2. /\ Opened(b, FailureThreshold, t).generation = b.generation + 1
          /\ Opened(b, b.consecutive_failures + 1, t).generation = b.generation + 1
        BY <1>1, <1>3, BreakerAssumption
    <2> QED
        BY <1>5, <2>1, <2>2 DEF record_failure
<1>6. CASE x = record_neutral(b, p, t)
    BY <1>1, <1>3, <1>6 DEF record_neutral
<1> QED
    BY <1>4, <1>5, <1>6 DEF Outcomes

-----------------------------------------------------------------------------
(* The invariant of the executor.                                          *)

\* The parts of ExecutorInv that relate the calls to each other and to the
\* circuits.
Relations ==
    /\ BackOffLeavesAttempt
    /\ CircuitConsistent
    /\ PermitsMatchCircuit
    /\ SingleProbe
    /\ RetriesAreSafe

\* A step that changes no circuit and no call but c, which it leaves without
\* a permit, preserves the relations.
LEMMA LeavingStep ==
    ASSUME ExecutorInv, NEW c \in Calls, NEW v, v.pc \notin Suspended,
           call' = [call EXCEPT ![c] = v], UNCHANGED <<now, breaker>>
    PROVE  Relations'
<1>1. \A d \in Calls : call'[d].pc \in Suspended =>
        d # c /\ call'[d] = call[d] /\ call[d].pc \in Suspended
    BY DEF ExecutorInv, TypeOK
<1>2. BackOffLeavesAttempt'
    BY <1>1 DEF ExecutorInv, BackOffLeavesAttempt, AttemptLimit, Suspended
<1>3. CircuitConsistent'
    BY DEF ExecutorInv, CircuitConsistent
<1>4. PermitsMatchCircuit'
    BY <1>1 DEF ExecutorInv, PermitsMatchCircuit, Live
<1>5. SingleProbe'
    BY <1>1 DEF ExecutorInv, SingleProbe, Live
<1>6. RetriesAreSafe'
    BY <1>1 DEF ExecutorInv, RetriesAreSafe, Live
<1> QED
    BY <1>2, <1>3, <1>4, <1>5, <1>6 DEF Relations

\* A completion, reported to the circuit, preserves the relations: whoever
\* else holds a permit of the service holds no probe's, and either keeps a
\* permit of the present generation or lost it to a newer one.
LEMMA FinishingStep ==
    ASSUME ExecutorInv, NEW c \in Calls, Live(c),
           NEW x \in Outcomes(breaker[call[c].service], call[c].permit, now),
           breaker' = [breaker EXCEPT ![call[c].service] = x],
           call' = [call EXCEPT ![c] = Idle], now' = now
    PROVE  Relations'
<1> DEFINE s == call[c].service
           b == breaker[s]
           p == call[c].permit
<1>1. s \in Services /\ b \in Breaker /\ p \in CircuitPermit /\ now \in Nat
    BY LiveShape DEF ExecutorInv, TypeOK
<1>2. Coherent(b, now)
    BY <1>1 DEF ExecutorInv, CircuitConsistent
<1>3. Coherent(x, now)
    BY <1>1, <1>2, OutcomeCoherent
<1>4. \/ x.generation = b.generation /\ x.state = b.state
      \/ /\ x.generation = b.generation + 1
         /\ ProbeReports(b, p) \/ ClosedReports(b, p)
    BY <1>1, OutcomeGeneration
<1>5. breaker'[s] = x /\ \A o \in Services : o # s => breaker'[o] = breaker[o]
    BY <1>1 DEF ExecutorInv, TypeOK
<1>6. \A d \in Calls : call'[d].pc \in Suspended =>
        d # c /\ call'[d] = call[d] /\ call[d].pc \in Suspended
    BY DEF ExecutorInv, TypeOK, Idle, Suspended
<1>7. BackOffLeavesAttempt'
    BY <1>6 DEF ExecutorInv, BackOffLeavesAttempt, AttemptLimit, Suspended
<1>8. CircuitConsistent'
    BY <1>1, <1>3, <1>5 DEF ExecutorInv, CircuitConsistent
<1>9. PermitsMatchCircuit'
    <2> SUFFICES ASSUME NEW d \in Calls, Live(d)'
                 PROVE  LET o == breaker'[call'[d].service]
                            q == call'[d].permit
                        IN  /\ q.generation <= o.generation
                            /\ CurrentPermit(o, q) =>
                                o.state = (IF q.half_open_probe THEN "half_open"
                                                               ELSE "closed")
                            /\ q.half_open_probe => CurrentPermit(o, q)
        BY DEF PermitsMatchCircuit, CurrentPermit
    <2> DEFINE q == call[d].permit
    <2>1. d # c /\ call'[d] = call[d] /\ Live(d)
        BY <1>6 DEF Live
    <2>2. call[d].service \in Services /\ q \in CircuitPermit
          /\ breaker[call[d].service] \in Breaker
        BY <2>1, LiveShape DEF ExecutorInv
    <2>3. /\ q.generation <= breaker[call[d].service].generation
          /\ CurrentPermit(breaker[call[d].service], q) =>
                breaker[call[d].service].state =
                    (IF q.half_open_probe THEN "half_open" ELSE "closed")
          /\ q.half_open_probe => CurrentPermit(breaker[call[d].service], q)
        BY <2>1 DEF ExecutorInv, PermitsMatchCircuit
    <2>4. CASE call[d].service # s
        BY <1>5, <2>1, <2>2, <2>3, <2>4
    <2>5. CASE call[d].service = s /\ x.generation = b.generation /\ x.state = b.state
        BY <1>5, <2>1, <2>3, <2>5 DEF CurrentPermit
    <2>6. CASE /\ call[d].service = s /\ x.generation = b.generation + 1
               /\ ProbeReports(b, p) \/ ClosedReports(b, p)
        <3>1. ~q.half_open_probe
            <4>1. SUFFICES ASSUME q.half_open_probe PROVE FALSE
                OBVIOUS
            <4>2. b.state = "half_open"
                BY <2>3, <2>6, <4>1
            <4>3. p.half_open_probe
                BY <2>6, <4>2 DEF ProbeReports, ClosedReports
            <4> QED
                BY <2>1, <2>6, <4>1, <4>3 DEF ExecutorInv, SingleProbe
        <3>2. q.generation < x.generation
            BY <1>1, <2>2, <2>3, <2>6 DEF Breaker, CircuitPermit
        <3> QED
            BY <1>1, <1>5, <2>1, <2>2, <2>6, <3>1, <3>2
            DEF CurrentPermit, Breaker, CircuitPermit
    <2> QED
        BY <1>4, <2>4, <2>5, <2>6
<1>10. SingleProbe'
    BY <1>6 DEF ExecutorInv, SingleProbe, Live
<1>11. RetriesAreSafe'
    BY <1>6 DEF ExecutorInv, RetriesAreSafe, Live
<1> QED
    BY <1>7, <1>8, <1>9, <1>10, <1>11 DEF Relations

\* What before_request does to a coherent circuit that admits the call.
LEMMA AdmittedEffect ==
    ASSUME NEW b \in Breaker, NEW t \in Nat, Coherent(b, t), Admits(b, t)
    PROVE  \/ /\ b.state = "closed" /\ Admitted(b) = b
              /\ PermitFor(b) = [generation |-> b.generation,
                                 half_open_probe |-> FALSE]
           \/ /\ b.state = "open" /\ Admitted(b) = HalfOpened(b)
              /\ PermitFor(b) = [generation |-> b.generation + 1,
                                 half_open_probe |-> TRUE]
              /\ t >= b.opened_at + RecoveryTimeout
<1>1. CASE b.state = "closed"
    BY <1>1 DEF Admitted, PermitFor
<1>2. CASE b.state = "open"
    <2>1. Admitted(b) = HalfOpened(b)
        BY <1>2 DEF Admitted
    <2>2. b.opened_at \in Nat
        BY <1>2 DEF Coherent, Breaker
    <2>3. Remaining(b, t) <= 0
        <3>1. retry_after(b, t) = 0 /\ b.opened_at # NotOpened
            BY <1>2 DEF Admits, Coherent
        <3>2. Remaining(b, t) \in Int
            BY <2>2, BreakerAssumption DEF Remaining
        <3>3. ASSUME Remaining(b, t) > 0
              PROVE  Ceiling(Remaining(b, t), TicksPerSecond) > 0
            <4> DEFINE n == Remaining(b, t) + TicksPerSecond - 1
            <4>1. n \in Nat /\ n >= TicksPerSecond
                BY <3>2, <3>3, BreakerAssumption
            <4>2. n \div TicksPerSecond > 0
                BY <4>1, BreakerAssumption
            <4> QED
                BY <4>2 DEF Ceiling
        <3> QED
            BY <3>1, <3>2, <3>3 DEF retry_after
    <2>4. t >= b.opened_at + RecoveryTimeout
        BY <2>2, <2>3, BreakerAssumption DEF Remaining
    <2>5. HalfOpened(b).generation = b.generation + 1
        BY DEF HalfOpened
    <2>6. (b.state # "closed") = TRUE
        BY <1>2
    <2>7. PermitFor(b) = [generation |-> b.generation + 1, half_open_probe |-> TRUE]
        BY <2>1, <2>5, <2>6, Zenon DEF PermitFor
    <2> QED
        BY <1>2, <2>1, <2>4, <2>7
<1>3. b.state # "half_open"
    BY DEF Admits, Coherent
<1> QED
    BY <1>1, <1>2, <1>3 DEF Breaker, CircuitState

\* Admitting a call preserves the relations.
LEMMA AdmittingStep ==
    ASSUME ExecutorInv, NEW c \in Calls, NEW s \in Services, NEW m \in Methods,
           Admit(c, s, m)
    PROVE  Relations'
<1> DEFINE b == breaker[s]
           p == PermitFor(b)
<1>1. b \in Breaker /\ now \in Nat /\ Coherent(b, now) /\ Admits(b, now)
    BY DEF ExecutorInv, TypeOK, CircuitConsistent, Admit
<1>2. \/ /\ b.state = "closed" /\ Admitted(b) = b
         /\ p = [generation |-> b.generation, half_open_probe |-> FALSE]
      \/ /\ b.state = "open" /\ Admitted(b) = HalfOpened(b)
         /\ p = [generation |-> b.generation + 1, half_open_probe |-> TRUE]
    BY <1>1, AdmittedEffect
<1>3. /\ breaker'[s] = Admitted(b)
      /\ \A o \in Services : o # s => breaker'[o] = breaker[o]
      /\ now' = now
    BY DEF Admit, ExecutorInv, TypeOK
<1>4. /\ call'[c] = [pc |-> "requesting", service |-> s, method |-> m, permit |-> p,
                     attempts |-> 1, exchanged |-> FALSE]
      /\ \A d \in Calls : d # c => call'[d] = call[d]
    BY DEF Admit, ExecutorInv, TypeOK
<1>5. BackOffLeavesAttempt'
    BY <1>4 DEF ExecutorInv, BackOffLeavesAttempt, AttemptLimit
<1>6. CircuitConsistent'
    <2>1. Coherent(Admitted(b), now)
        <3>1. CASE b.state = "closed"
            BY <1>1, <1>2, <3>1
        <3>2. CASE b.state = "open"
            BY <1>1, <1>2, <3>2 DEF HalfOpened, Coherent
        <3> QED
            BY <1>2, <3>1, <3>2
    <2> QED
        BY <1>3, <2>1 DEF ExecutorInv, CircuitConsistent
<1>7. \A d \in Calls : d # c /\ Live(d) /\ call[d].service = s =>
        /\ call[d].permit.generation \in Nat
        /\ call[d].permit.generation <= b.generation
        /\ CurrentPermit(b, call[d].permit) =>
            b.state = (IF call[d].permit.half_open_probe THEN "half_open" ELSE "closed")
        /\ call[d].permit.half_open_probe => CurrentPermit(b, call[d].permit)
    BY LiveShape DEF ExecutorInv, PermitsMatchCircuit, CircuitPermit
<1>8. PermitsMatchCircuit'
    <2> SUFFICES ASSUME NEW d \in Calls, Live(d)'
                 PROVE  LET o == breaker'[call'[d].service]
                            q == call'[d].permit
                        IN  /\ q.generation <= o.generation
                            /\ CurrentPermit(o, q) =>
                                o.state = (IF q.half_open_probe THEN "half_open"
                                                               ELSE "closed")
                            /\ q.half_open_probe => CurrentPermit(o, q)
        BY DEF PermitsMatchCircuit, CurrentPermit
    <2>1. CASE d = c
        BY <1>1, <1>2, <1>3, <1>4, <2>1 DEF HalfOpened, CurrentPermit, Breaker
    <2>2. CASE d # c
        <3>1. call'[d] = call[d] /\ Live(d)
            BY <1>4, <2>2 DEF Live
        <3>2. call[d].service \in Services
            BY <3>1, LiveShape DEF ExecutorInv
        <3>3. CASE call[d].service # s
            BY <1>3, <3>1, <3>2, <3>3 DEF ExecutorInv, PermitsMatchCircuit
        <3>4. CASE call[d].service = s /\ b.state = "closed"
            BY <1>2, <1>3, <1>7, <2>2, <3>1, <3>4
        <3>5. CASE call[d].service = s /\ b.state = "open"
            BY <1>1, <1>2, <1>3, <1>7, <2>2, <3>1, <3>5
            DEF HalfOpened, CurrentPermit, Breaker
        <3> QED
            BY <1>2, <3>3, <3>4, <3>5
    <2> QED
        BY <2>1, <2>2
<1>9. SingleProbe'
    <2>1. ASSUME NEW d \in Calls, d # c, Live(d)', call'[d].service = s,
                 call'[d].permit.half_open_probe
          PROVE  ~p.half_open_probe
        <3>1. b.state = "half_open"
            BY <1>4, <1>7, <2>1 DEF Live
        <3> QED
            BY <1>2, <3>1
    <2>2. /\ call'[c].service = s /\ call'[c].permit = p
        BY <1>4
    <2>3. \A d, e \in Calls :
            /\ d # c /\ e # c
            /\ Live(d)' /\ Live(e)'
            /\ call'[d].permit.half_open_probe /\ call'[e].permit.half_open_probe
            /\ call'[d].service = call'[e].service
            => d = e
        BY <1>4 DEF ExecutorInv, SingleProbe, Live
    <2> QED
        BY <2>1, <2>2, <2>3 DEF SingleProbe, Live
<1>10. RetriesAreSafe'
    BY <1>4 DEF ExecutorInv, RetriesAreSafe, Live
<1> QED
    BY <1>5, <1>6, <1>8, <1>9, <1>10 DEF Relations

\* A step of a call that keeps its permit preserves the relations, provided
\* it keeps the two that are about attempts.
LEMMA ContinuingStep ==
    ASSUME ExecutorInv, NEW c \in Calls, Live(c), call'[c].pc \in Suspended,
           call'[c].service = call[c].service, call'[c].permit = call[c].permit,
           \A d \in Calls : d # c => call'[d] = call[d],
           UNCHANGED <<now, breaker>>
    PROVE  CircuitConsistent' /\ PermitsMatchCircuit' /\ SingleProbe'
<1>1. \A d \in Calls : call'[d].pc \in Suspended =>
        /\ call[d].pc \in Suspended
        /\ call'[d].service = call[d].service
        /\ call'[d].permit = call[d].permit
    BY DEF Live
<1>2. CircuitConsistent'
    BY DEF ExecutorInv, CircuitConsistent
<1>3. PermitsMatchCircuit'
    BY <1>1 DEF ExecutorInv, PermitsMatchCircuit, Live
<1>4. SingleProbe'
    BY <1>1 DEF ExecutorInv, SingleProbe, Live
<1> QED
    BY <1>2, <1>3, <1>4

LEMMA RelationsStep == ExecutorInv /\ [Next]_vars => Relations'
<1> SUFFICES ASSUME ExecutorInv, [Next]_vars PROVE Relations'
    OBVIOUS
<1>t. TypeOK /\ now \in Nat
    BY DEF ExecutorInv, TypeOK
<1>1. ASSUME NEW c \in Calls, NEW s \in Services, NEW m \in Methods, Admit(c, s, m)
      PROVE  Relations'
    BY <1>1, AdmittingStep
<1>2. ASSUME NEW c \in Calls, NEW s \in Services, Reject(c, s) PROVE Relations'
    <2> DEFINE v == [pc |-> "rejected", service |-> s,
                     generation |-> breaker[s].generation,
                     retry_at |-> now + TicksPerSecond * RejectionDelay(breaker[s], now)]
    <2>1. call' = [call EXCEPT ![c] = v] /\ UNCHANGED <<now, breaker>>
        BY <1>2 DEF Reject
    <2>2. v.pc \notin Suspended
        BY DEF Suspended
    <2> HIDE DEF v
    <2> QED
        BY <2>1, <2>2, LeavingStep
<1>3. ASSUME NEW c \in Calls, Dismiss(c) \/ Escape(c) PROVE Relations'
    <2>1. Idle.pc \notin Suspended
        BY DEF Idle, Suspended
    <2> QED
        BY <1>3, <2>1, LeavingStep DEF Dismiss, Escape
<1>4. ASSUME NEW c \in Calls, NEW r \in Results, BackOff(c, r) PROVE Relations'
    <2> DEFINE v == [call[c] EXCEPT !.pc = "sleeping",
                        !.exchanged = call[c].exchanged \/ MayBeProcessed(r)]
    <2>1. Live(c) /\ call[c] \in LiveCall
        BY <1>4, <1>t, LiveShape DEF BackOff, Live, Suspended
    <2>2. call' = [call EXCEPT ![c] = v] /\ UNCHANGED <<now, breaker>>
        BY <1>4 DEF BackOff
    <2>3. /\ v.pc = "sleeping"
          /\ v.service = call[c].service /\ v.method = call[c].method
          /\ v.permit = call[c].permit /\ v.attempts = call[c].attempts
          /\ v.exchanged = (call[c].exchanged \/ MayBeProcessed(r))
        BY <2>1 DEF LiveCall
    <2> HIDE DEF v
    <2>4. call'[c] = v /\ \A d \in Calls : d # c => call'[d] = call[d]
        BY <1>t, <2>2 DEF TypeOK
    <2>5. CircuitConsistent' /\ PermitsMatchCircuit' /\ SingleProbe'
        BY <2>1, <2>2, <2>3, <2>4, ContinuingStep DEF Suspended
    <2>6. call[c].attempts < AttemptLimit(c) /\ r = "connect_error"
          /\ call[c].method \in SAFE_RETRY_METHODS
        BY <1>4 DEF BackOff, ShouldRetry, transport_error_is_retryable
    <2>7. BackOffLeavesAttempt'
        BY <2>3, <2>4, <2>6 DEF ExecutorInv, BackOffLeavesAttempt, AttemptLimit
    <2>8. ~call[c].permit.half_open_probe
        <3>1. call[c].attempts >= 1 /\ call[c].attempts \in Nat
            BY <2>1 DEF LiveCall
        <3> QED
            BY <2>6, <3>1 DEF AttemptLimit
    <2>9. ~call[c].exchanged
        BY <2>1 DEF ExecutorInv, RetriesAreSafe
    <2>10. RetriesAreSafe'
        BY <2>3, <2>4, <2>6, <2>8, <2>9
        DEF ExecutorInv, RetriesAreSafe, Live, MayBeProcessed
    <2> QED
        BY <2>5, <2>7, <2>10 DEF Relations
<1>5. ASSUME NEW c \in Calls, Retry(c) PROVE Relations'
    <2> DEFINE v == [call[c] EXCEPT !.pc = "requesting",
                                    !.attempts = call[c].attempts + 1]
    <2>1. Live(c) /\ call[c] \in LiveCall /\ call[c].pc = "sleeping"
        BY <1>5, <1>t, LiveShape DEF Retry, Live, Suspended
    <2>2. call' = [call EXCEPT ![c] = v] /\ UNCHANGED <<now, breaker>>
        BY <1>5 DEF Retry
    <2>3. /\ v.pc = "requesting"
          /\ v.service = call[c].service /\ v.method = call[c].method
          /\ v.permit = call[c].permit /\ v.exchanged = call[c].exchanged
        BY <2>1 DEF LiveCall
    <2> HIDE DEF v
    <2>4. call'[c] = v /\ \A d \in Calls : d # c => call'[d] = call[d]
        BY <1>t, <2>2 DEF TypeOK
    <2>5. CircuitConsistent' /\ PermitsMatchCircuit' /\ SingleProbe'
        BY <2>1, <2>2, <2>3, <2>4, ContinuingStep DEF Suspended
    <2>6. BackOffLeavesAttempt'
        BY <2>3, <2>4 DEF ExecutorInv, BackOffLeavesAttempt, AttemptLimit
    <2>7. RetriesAreSafe'
        BY <2>1, <2>3, <2>4 DEF ExecutorInv, RetriesAreSafe, Live
    <2> QED
        BY <2>5, <2>6, <2>7 DEF Relations
<1>6. ASSUME NEW c \in Calls, NEW r \in Results, Complete(c, r) PROVE Relations'
    <2>1. Recorded(c, r) \in Outcomes(breaker[call[c].service], call[c].permit, now)
        BY DEF Recorded, Outcomes
    <2> QED
        BY <1>6, <2>1, FinishingStep DEF Complete, Live, Suspended
<1>7. ASSUME NEW c \in Calls, Cancel(c) PROVE Relations'
    <2>1. record_neutral(breaker[call[c].service], call[c].permit, now)
            \in Outcomes(breaker[call[c].service], call[c].permit, now)
        BY DEF Outcomes
    <2> QED
        BY <1>7, <2>1, FinishingStep DEF Cancel
<1>8. CASE Tick
    <2>1. CircuitConsistent'
        BY <1>8, <1>t DEF Tick, ExecutorInv, CircuitConsistent, Coherent, TypeOK,
            Breaker, NotOpened
    <2> QED
        BY <1>8, <2>1 DEF Tick, ExecutorInv, Relations, BackOffLeavesAttempt,
            AttemptLimit, PermitsMatchCircuit, SingleProbe, RetriesAreSafe, Live
<1>9. CASE UNCHANGED vars
    BY <1>9 DEF vars, ExecutorInv, Relations, BackOffLeavesAttempt, AttemptLimit,
        CircuitConsistent, PermitsMatchCircuit, SingleProbe, RetriesAreSafe, Live
<1> QED
    BY <1>1, <1>2, <1>3, <1>4, <1>5, <1>6, <1>7, <1>8, <1>9 DEF Next, Proceed

LEMMA InvInit == Init => ExecutorInv
<1> SUFFICES ASSUME Init PROVE ExecutorInv
    OBVIOUS
<1>1. TypeOK
    BY TypeInit
<1>2. \A c \in Calls : call[c].pc = "idle"
    BY DEF Init, Idle
<1>3. CircuitConsistent
    BY BreakerAssumption DEF Init, CircuitConsistent, Coherent, NewBreaker, Closed,
        NotOpened
<1> QED
    BY <1>1, <1>2, <1>3 DEF ExecutorInv, BackOffLeavesAttempt, PermitsMatchCircuit,
        SingleProbe, RetriesAreSafe, Live, Suspended

LEMMA InvStep == ExecutorInv /\ [Next]_vars => ExecutorInv'
BY TypeStep, RelationsStep DEF ExecutorInv, Relations

\* The inductive invariant holds in every reachable state, for any number of
\* services and calls and every setting of the breaker and the retry policy.
THEOREM ExecutorInvariant == Spec => []ExecutorInv
BY InvInit, InvStep, PTL DEF Spec

\* The state of execute() and of the circuits always has the shape the code
\* gives it; in particular no call makes more than max_attempts attempts.
THEOREM TypeCorrect == Spec => []TypeOK
<1>1. ExecutorInv => TypeOK
    BY DEF ExecutorInv
<1> QED
    BY <1>1, ExecutorInvariant, PTL

\* For any number of calls, a breaker's fields fit together: in particular the
\* branch of before_request for a half-open circuit without a probe is dead.
THEOREM CircuitsConsistent == Spec => []CircuitConsistent
<1>1. ExecutorInv => CircuitConsistent
    BY DEF ExecutorInv
<1> QED
    BY <1>1, ExecutorInvariant, PTL

\* A permit is never ahead of its circuit, matches its state while it is of
\* the present generation, and never goes stale if it is a probe's.
THEOREM PermitsMatch == Spec => []PermitsMatchCircuit
<1>1. ExecutorInv => PermitsMatchCircuit
    BY DEF ExecutorInv
<1> QED
    BY <1>1, ExecutorInvariant, PTL

\* At most one call probes a service, whatever completes late, is cancelled
\* or escapes with an unexpected exception.
THEOREM ProbeIsSingle == Spec => []SingleProbe
<1>1. ExecutorInv => SingleProbe
    BY DEF ExecutorInv
<1> QED
    BY <1>1, ExecutorInvariant, PTL

\* No request is repeated that the upstream may have processed, that is not
\* safe, or that probes a half-open circuit.
THEOREM RetriesSafe == Spec => []RetriesAreSafe
<1>1. ExecutorInv => RetriesAreSafe
    BY DEF ExecutorInv
<1> QED
    BY <1>1, ExecutorInvariant, PTL

-----------------------------------------------------------------------------
(* The cooldown and Retry-After.                                           *)

\* A completion leaves an open circuit exactly as it is.
LEMMA OutcomeOfOpen ==
    ASSUME NEW b, NEW p, NEW t, b.state = "open", NEW x \in Outcomes(b, p, t)
    PROVE  x = b
BY DEF Outcomes, record_success, record_failure, record_neutral, ProbeReports,
    ClosedReports

\* The only step that changes an open circuit admits the probe, and that
\* takes the whole cooldown.
LEMMA OpenCircuitStep ==
    ASSUME ExecutorInv, [Next]_vars, NEW s \in Services, breaker[s].state = "open",
           breaker'[s] # breaker[s]
    PROVE  /\ now >= breaker[s].opened_at + RecoveryTimeout
           /\ breaker'[s] = HalfOpened(breaker[s])
<1>t. TypeOK /\ now \in Nat
    BY DEF ExecutorInv, TypeOK
<1>1. ASSUME NEW c \in Calls, NEW o \in Services, NEW m \in Methods, Admit(c, o, m)
      PROVE  /\ now >= breaker[s].opened_at + RecoveryTimeout
             /\ breaker'[s] = HalfOpened(breaker[s])
    <2>1. o = s /\ breaker'[s] = Admitted(breaker[s])
        BY <1>1, <1>t DEF Admit, TypeOK
    <2>2. /\ breaker[s] \in Breaker /\ Coherent(breaker[s], now)
          /\ Admits(breaker[s], now)
        BY <1>1, <2>1, <1>t DEF ExecutorInv, TypeOK, CircuitConsistent, Admit
    <2> QED
        BY <1>t, <2>1, <2>2, AdmittedEffect
<1>2. ASSUME NEW c \in Calls, Live(c),
             NEW x \in Outcomes(breaker[call[c].service], call[c].permit, now),
             breaker' = [breaker EXCEPT ![call[c].service] = x]
      PROVE  FALSE
    <2>1. CASE call[c].service = s
        <3>1. x = breaker[s]
            BY <1>2, <2>1, OutcomeOfOpen
        <3> QED
            BY <1>2, <1>t, <2>1, <3>1 DEF TypeOK
    <2>2. CASE call[c].service # s
        BY <1>2, <1>t, <2>2 DEF TypeOK
    <2> QED
        BY <2>1, <2>2
<1>3. ASSUME NEW c \in Calls, NEW r \in Results, Complete(c, r) PROVE FALSE
    <2>1. Recorded(c, r) \in Outcomes(breaker[call[c].service], call[c].permit, now)
        BY DEF Recorded, Outcomes
    <2> QED
        BY <1>2, <1>3, <2>1 DEF Complete, Live, Suspended
<1>4. ASSUME NEW c \in Calls, Cancel(c) PROVE FALSE
    <2>1. record_neutral(breaker[call[c].service], call[c].permit, now)
            \in Outcomes(breaker[call[c].service], call[c].permit, now)
        BY DEF Outcomes
    <2> QED
        BY <1>2, <1>4, <2>1 DEF Cancel
<1>5. ASSUME UNCHANGED breaker PROVE FALSE
    BY <1>5
<1> QED
    BY <1>1, <1>3, <1>4, <1>5
    DEF Next, Proceed, Reject, Dismiss, BackOff, Retry, Escape, Tick, vars

\* However late a call of an earlier generation completes, an open circuit
\* stays as it is until its cooldown has elapsed.
THEOREM CooldownHolds == Spec => CooldownRespected
<1>1. ExecutorInv /\ [Next]_vars =>
        [\A s \in Services :
            /\ breaker[s].state = "open"
            /\ now < breaker[s].opened_at + RecoveryTimeout
            => breaker'[s] = breaker[s]]_vars
    <2> SUFFICES ASSUME ExecutorInv, [Next]_vars, NEW s \in Services,
                        breaker[s].state = "open",
                        now < breaker[s].opened_at + RecoveryTimeout
                 PROVE  breaker'[s] = breaker[s]
        OBVIOUS
    <2>1. /\ now \in Int /\ breaker[s].opened_at \in Int /\ RecoveryTimeout \in Int
        BY BreakerAssumption DEF ExecutorInv, TypeOK, Breaker, NotOpened
    <2> QED
        BY <2>1, OpenCircuitStep
<1> QED
    BY <1>1, ExecutorInvariant, PTL DEF Spec, CooldownRespected

\* The generation of a circuit never decreases, and its state changes with it.
LEMMA GenerationStep ==
    ASSUME ExecutorInv, [Next]_vars, NEW s \in Services
    PROVE  /\ breaker[s].generation <= breaker'[s].generation
           /\ breaker'[s].generation = breaker[s].generation =>
                breaker'[s].state = breaker[s].state
<1> DEFINE Goal == /\ breaker[s].generation <= breaker'[s].generation
                   /\ breaker'[s].generation = breaker[s].generation =>
                        breaker'[s].state = breaker[s].state
<1>t. TypeOK /\ now \in Nat /\ breaker[s] \in Breaker /\ breaker[s].generation \in Nat
    BY DEF ExecutorInv, TypeOK, Breaker
<1>1. ASSUME NEW c \in Calls, NEW o \in Services, NEW m \in Methods, Admit(c, o, m)
      PROVE  Goal
    <2>1. CASE o = s
        <3>1. breaker'[s] = Admitted(breaker[s])
            BY <1>1, <2>1, <1>t DEF Admit, TypeOK
        <3>2. Admitted(breaker[s]) \in {breaker[s], HalfOpened(breaker[s])}
            BY <1>1, <2>1, <1>t, AdmittedEffect
            DEF Admit, ExecutorInv, CircuitConsistent
        <3>3. HalfOpened(breaker[s]).generation = breaker[s].generation + 1
            BY DEF HalfOpened
        <3> QED
            BY <1>t, <3>1, <3>2, <3>3
    <2>2. CASE o # s
        BY <1>1, <2>2, <1>t DEF Admit, TypeOK
    <2> QED
        BY <2>1, <2>2
<1>2. ASSUME NEW c \in Calls, Live(c),
             NEW x \in Outcomes(breaker[call[c].service], call[c].permit, now),
             breaker' = [breaker EXCEPT ![call[c].service] = x]
      PROVE  Goal
    <2>1. CASE call[c].service = s
        <3>1. breaker'[s] = x
            BY <1>2, <2>1, <1>t DEF TypeOK
        <3>2. \/ x.generation = breaker[s].generation /\ x.state = breaker[s].state
              \/ x.generation = breaker[s].generation + 1
            BY <1>2, <2>1, <1>t, LiveShape, OutcomeGeneration
        <3> QED
            BY <1>t, <3>1, <3>2
    <2>2. CASE call[c].service # s
        BY <1>2, <1>t, <2>2 DEF TypeOK
    <2> QED
        BY <2>1, <2>2
<1>3. ASSUME NEW c \in Calls, NEW r \in Results, Complete(c, r) PROVE Goal
    <2>1. Recorded(c, r) \in Outcomes(breaker[call[c].service], call[c].permit, now)
        BY DEF Recorded, Outcomes
    <2> QED
        BY <1>2, <1>3, <2>1 DEF Complete, Live, Suspended
<1>4. ASSUME NEW c \in Calls, Cancel(c) PROVE Goal
    <2>1. record_neutral(breaker[call[c].service], call[c].permit, now)
            \in Outcomes(breaker[call[c].service], call[c].permit, now)
        BY DEF Outcomes
    <2> QED
        BY <1>2, <1>4, <2>1 DEF Cancel
<1>5. ASSUME UNCHANGED breaker PROVE Goal
    BY <1>5, <1>t
<1> QED
    BY <1>1, <1>3, <1>4, <1>5
    DEF Next, Proceed, Reject, Dismiss, BackOff, Retry, Escape, Tick, vars

\* A rejection names a generation its circuit has reached.
RejectionsArePast ==
    \A c \in Calls : call[c].pc = "rejected" =>
        call[c].generation <= breaker[call[c].service].generation

LEMMA RejectedShape ==
    ASSUME TypeOK, NEW c \in Calls, call[c].pc = "rejected"
    PROVE  /\ call[c].service \in Services
           /\ call[c].generation \in Nat /\ call[c].retry_at \in Nat
<1>1. call[c] \in {Idle} \cup LiveCall \cup RejectedCall
    BY DEF TypeOK
<1>2. call[c] # Idle
    BY DEF Idle
<1>3. call[c] \notin LiveCall
    BY DEF LiveCall, Suspended
<1> QED
    BY <1>1, <1>2, <1>3 DEF RejectedCall

\* The Retry-After computed while the cooldown runs ends with it, rounded up
\* to a second.
LEMMA DelayIsExact ==
    ASSUME NEW b \in Breaker, NEW t \in Nat, Coherent(b, t), b.state = "open",
           ~Admits(b, t)
    PROVE  t + TicksPerSecond * RejectionDelay(b, t)
            \in (b.opened_at + RecoveryTimeout)
                  .. (b.opened_at + RecoveryTimeout + TicksPerSecond - 1)
<1> DEFINE n == Remaining(b, t)
           q == Ceiling(n, TicksPerSecond)
<1>1. b.opened_at \in Nat /\ b.opened_at # NotOpened
    BY DEF Coherent, Breaker
<1>2. n \in Int /\ b.opened_at + RecoveryTimeout = t + n
    BY <1>1, BreakerAssumption DEF Remaining
<1>3. RejectionDelay(b, t) = retry_after(b, t) /\ retry_after(b, t) # 0
    BY DEF Admits, RejectionDelay
<1>4. n \in Nat /\ RejectionDelay(b, t) = q
    BY <1>1, <1>2, <1>3 DEF retry_after
<1>5. /\ q \in Nat
      /\ n <= TicksPerSecond * q
      /\ TicksPerSecond * q < n + TicksPerSecond
    BY <1>4, CeilingBounds, BreakerAssumption
<1>6. TicksPerSecond * q \in Int
    BY <1>5, BreakerAssumption
<1> HIDE DEF q, n
<1> QED
    BY <1>1, <1>2, <1>4, <1>5, <1>6, BreakerAssumption

LEMMA RetryAfterStep ==
    ExecutorInv /\ RetryAfterExact /\ RejectionsArePast /\ [Next]_vars
        => RetryAfterExact' /\ RejectionsArePast'
<1> SUFFICES ASSUME ExecutorInv, RetryAfterExact, RejectionsArePast, [Next]_vars
             PROVE  RetryAfterExact' /\ RejectionsArePast'
    OBVIOUS
<1>t. TypeOK /\ now \in Nat
    BY DEF ExecutorInv, TypeOK
<1> DEFINE Fresh(c, s) ==
        /\ Reject(c, s)
        /\ call'[c] = [pc |-> "rejected", service |-> s,
                generation |-> breaker[s].generation,
                retry_at |-> now + TicksPerSecond * RejectionDelay(breaker[s], now)]
<1>1. \A c \in Calls : call'[c].pc = "rejected" =>
        call'[c] = call[c] \/ \E s \in Services : Fresh(c, s)
    <2>1. ASSUME NEW d \in Calls, NEW s \in Services, Reject(d, s)
          PROVE  \A c \in Calls : call'[c] = call[c] \/ Fresh(c, s)
        BY <1>t, <2>1 DEF Reject, TypeOK
    <2>2. ASSUME NEW d \in Calls, NEW v, v.pc # "rejected",
                 call' = [call EXCEPT ![d] = v]
          PROVE  \A c \in Calls : call'[c].pc = "rejected" => call'[c] = call[c]
        BY <1>t, <2>2 DEF TypeOK
    <2>3. ASSUME NEW d \in Calls, NEW s \in Services, NEW m \in Methods, Admit(d, s, m)
          PROVE  \A c \in Calls : call'[c].pc = "rejected" => call'[c] = call[c]
        BY <1>t, <2>3 DEF Admit, TypeOK
    <2>4. ASSUME NEW d \in Calls, call' = [call EXCEPT ![d] = Idle]
          PROVE  \A c \in Calls : call'[c].pc = "rejected" => call'[c] = call[c]
        BY <2>2, <2>4 DEF Idle
    <2>5. ASSUME NEW d \in Calls, NEW r \in Results, BackOff(d, r)
          PROVE  \A c \in Calls : call'[c].pc = "rejected" => call'[c] = call[c]
        <3> DEFINE v == [call[d] EXCEPT !.pc = "sleeping",
                            !.exchanged = call[d].exchanged \/ MayBeProcessed(r)]
        <3>1. call' = [call EXCEPT ![d] = v]
            BY <2>5 DEF BackOff
        <3>2. call[d] \in LiveCall
            BY <2>5, <1>t, LiveShape DEF BackOff, Live, Suspended
        <3>3. v.pc = "sleeping"
            BY <3>2 DEF LiveCall
        <3> HIDE DEF v
        <3> QED
            BY <2>2, <3>1, <3>3
    <2>6. ASSUME NEW d \in Calls, Retry(d)
          PROVE  \A c \in Calls : call'[c].pc = "rejected" => call'[c] = call[c]
        <3> DEFINE v == [call[d] EXCEPT !.pc = "requesting",
                                        !.attempts = call[d].attempts + 1]
        <3>1. call' = [call EXCEPT ![d] = v]
            BY <2>6 DEF Retry
        <3>2. call[d] \in LiveCall
            BY <2>6, <1>t, LiveShape DEF Retry, Live, Suspended
        <3>3. v.pc = "requesting"
            BY <3>2 DEF LiveCall
        <3> HIDE DEF v
        <3> QED
            BY <2>2, <3>1, <3>3
    <2>7. ASSUME UNCHANGED call
          PROVE  \A c \in Calls : call'[c].pc = "rejected" => call'[c] = call[c]
        BY <2>7
    <2> HIDE DEF Fresh
    <2> QED
        BY <2>1, <2>3, <2>4, <2>5, <2>6, <2>7
        DEF Next, Proceed, Dismiss, Complete, Escape, Cancel, Tick, vars
<1>2. ASSUME NEW c \in Calls, NEW s \in Services, Fresh(c, s)
      PROVE  /\ call'[c].service = s
             /\ call'[c].generation <= breaker'[s].generation
             /\ breaker'[s].state = "open" =>
                    call'[c].retry_at \in (breaker'[s].opened_at + RecoveryTimeout)
                      .. (breaker'[s].opened_at + RecoveryTimeout + TicksPerSecond - 1)
    <2>1. breaker' = breaker /\ ~Admits(breaker[s], now)
        BY <1>2 DEF Reject
    <2>2. /\ breaker[s] \in Breaker /\ Coherent(breaker[s], now)
          /\ breaker[s].generation \in Nat
        BY <1>t DEF ExecutorInv, TypeOK, CircuitConsistent, Breaker
    <2> QED
        BY <1>2, <1>t, <2>1, <2>2, DelayIsExact
<1>3. ASSUME NEW c \in Calls, call'[c].pc = "rejected", call'[c] = call[c]
      PROVE  LET s == call[c].service
             IN  /\ call[c].generation <= breaker'[s].generation
                 /\ /\ breaker'[s].state = "open"
                    /\ breaker'[s].generation = call[c].generation
                    => breaker'[s] = breaker[s]
    <2> DEFINE s == call[c].service
    <2>1. s \in Services /\ call[c].generation \in Nat
        BY <1>3, <1>t, RejectedShape
    <2>2. breaker[s].generation \in Nat /\ breaker'[s].generation \in Nat
        <3>1. TypeOK'
            BY TypeStep DEF ExecutorInv
        <3> QED
            BY <1>t, <2>1, <3>1 DEF TypeOK, Breaker
    <2>3. call[c].generation <= breaker[s].generation
        BY <1>3 DEF RejectionsArePast
    <2>4. /\ breaker[s].generation <= breaker'[s].generation
          /\ breaker'[s].generation = breaker[s].generation =>
                breaker'[s].state = breaker[s].state
        BY <2>1, GenerationStep
    <2>5. breaker[s].state = "open" /\ breaker'[s] # breaker[s] =>
            breaker'[s] = HalfOpened(breaker[s])
        BY <2>1, OpenCircuitStep
    <2>6. HalfOpened(breaker[s]).generation = breaker[s].generation + 1
        BY DEF HalfOpened
    <2> QED
        BY <2>1, <2>2, <2>3, <2>4, <2>5, <2>6
<1>4. RejectionsArePast'
    BY <1>1, <1>2, <1>3 DEF RejectionsArePast
<1>5. RetryAfterExact'
    <2> SUFFICES ASSUME NEW c \in Calls, call'[c].pc = "rejected",
                        breaker'[call'[c].service].state = "open",
                        breaker'[call'[c].service].generation = call'[c].generation
                 PROVE  call'[c].retry_at
                          \in (breaker'[call'[c].service].opened_at + RecoveryTimeout)
                             .. (breaker'[call'[c].service].opened_at
                                    + RecoveryTimeout + TicksPerSecond - 1)
        BY DEF RetryAfterExact
    <2>1. CASE call'[c] = call[c]
        BY <1>3, <2>1 DEF RetryAfterExact
    <2>2. CASE \E s \in Services : Fresh(c, s)
        <3> HIDE DEF Fresh
        <3> QED
            BY <1>2, <2>2
    <2> QED
        BY <1>1, <2>1, <2>2
<1> QED
    BY <1>4, <1>5

\* For every cooldown and clock resolution, a client told to stay away until
\* the cooldown is over is told so exactly, up to the second, for as long as
\* the circuit it was refused by has not moved on.
THEOREM RetryAfterHolds == Spec => []RetryAfterExact
<1>1. Init => ExecutorInv /\ RetryAfterExact /\ RejectionsArePast
    BY InvInit DEF Init, Idle, RetryAfterExact, RejectionsArePast
<1>2. ExecutorInv /\ RetryAfterExact /\ RejectionsArePast /\ [Next]_vars
        => (ExecutorInv /\ RetryAfterExact /\ RejectionsArePast)'
    BY InvStep, RetryAfterStep
<1> QED
    BY <1>1, <1>2, PTL DEF Spec

-----------------------------------------------------------------------------
(* The attempt loop.                                                       *)

LEMMA StepsLeftRange ==
    ASSUME NEW x \in LiveCall
    PROVE  StepsLeft(x) \in Nat
BY ExecutorAssumption DEF StepsLeft, LiveCall

\* A step of execute() ends the call or uses up a part of what is left.
LEMMA AttemptStep ==
    ASSUME ExecutorInv, [Next]_vars, NEW c \in Calls, Live(c), Live(c)',
           call'[c] # call[c]
    PROVE  /\ StepsLeft(call'[c]) \in 0 .. StepsLeft(call[c]) - 1
           /\ call'[c].service = call[c].service
           /\ call'[c].permit = call[c].permit
<1> DEFINE x == call[c]
           y == call'[c]
<1>t. TypeOK /\ x \in LiveCall /\ StepsLeft(x) \in Nat
    BY LiveShape, StepsLeftRange DEF ExecutorInv
<1>u. y \in LiveCall /\ StepsLeft(y) \in Nat
    <2>1. TypeOK'
        BY TypeStep DEF ExecutorInv
    <2>2. y \in {Idle} \cup LiveCall \cup RejectedCall
        BY <2>1 DEF TypeOK
    <2>3. y \in LiveCall
        BY <2>2 DEF Live, Suspended, Idle, RejectedCall
    <2> QED
        BY <2>3, StepsLeftRange
<1>1. \/ \E r \in Results : BackOff(c, r)
      \/ Retry(c)
    <2>1. \A d \in Calls, s \in Services, m \in Methods : ~Admit(d, s, m) \/ d # c
        BY DEF Admit, Live, Suspended
    <2>2. \A d \in Calls, s \in Services : ~Reject(d, s) \/ d # c
        BY DEF Reject, Live, Suspended
    <2>3. ASSUME NEW d \in Calls, call' = [call EXCEPT ![d] = Idle] PROVE FALSE
        BY <1>t, <2>3 DEF TypeOK, Live, Suspended, Idle
    <2>4. ASSUME NEW d \in Calls, d # c, NEW v, call' = [call EXCEPT ![d] = v]
          PROVE  FALSE
        BY <1>t, <2>4 DEF TypeOK
    <2>5. \A d \in Calls : ~Dismiss(d) /\ ~Escape(d) /\ ~Cancel(d)
        BY <2>3 DEF Dismiss, Escape, Cancel
    <2>6. \A d \in Calls, r \in Results : ~Complete(d, r)
        BY <2>3 DEF Complete
    <2>7. \A d \in Calls, s \in Services, m \in Methods : ~Admit(d, s, m)
        BY <2>1, <2>4 DEF Admit
    <2>8. \A d \in Calls, s \in Services : ~Reject(d, s)
        BY <2>2, <2>4 DEF Reject
    <2>9. \A d \in Calls, r \in Results : BackOff(d, r) => d = c
        BY <1>t DEF BackOff, TypeOK
    <2>10. \A d \in Calls : Retry(d) => d = c
        BY <1>t DEF Retry, TypeOK
    <2>11. ~Tick /\ ~UNCHANGED vars
        BY DEF Tick, vars
    <2> QED
        BY <2>5, <2>6, <2>7, <2>8, <2>9, <2>10, <2>11 DEF Next, Proceed
<1>2. ASSUME NEW r \in Results, BackOff(c, r)
      PROVE  /\ x.pc = "requesting" /\ y.pc = "sleeping" /\ y.attempts = x.attempts
             /\ y.service = x.service /\ y.permit = x.permit
    <2> DEFINE e == x.exchanged \/ MayBeProcessed(r)
    <2>1. y = [x EXCEPT !.pc = "sleeping", !.exchanged = e]
        BY <1>2, <1>t DEF BackOff, TypeOK
    <2> HIDE DEF e
    <2> QED
        BY <1>2, <1>t, <2>1 DEF BackOff, LiveCall
<1>3. ASSUME Retry(c)
      PROVE  /\ x.pc = "sleeping" /\ y.pc = "requesting"
             /\ y.attempts = x.attempts + 1
             /\ y.service = x.service /\ y.permit = x.permit
    <2>1. y = [x EXCEPT !.pc = "requesting", !.attempts = x.attempts + 1]
        BY <1>3, <1>t DEF Retry, TypeOK
    <2> QED
        BY <1>3, <1>t, <2>1 DEF Retry, LiveCall
<1>4. x.attempts \in Int /\ MaxAttempts \in Int
    BY <1>t, ExecutorAssumption DEF LiveCall
<1>5. StepsLeft(y) < StepsLeft(x) /\ y.service = x.service /\ y.permit = x.permit
    <2>1. CASE \E r \in Results : BackOff(c, r)
        BY <1>2, <1>4, <2>1 DEF StepsLeft
    <2>2. CASE Retry(c)
        BY <1>3, <1>4, <2>2 DEF StepsLeft
    <2> QED
        BY <1>1, <2>1, <2>2
<1> HIDE DEF x, y
<1>6. StepsLeft(y) \in 0 .. StepsLeft(x) - 1
    BY <1>t, <1>u, <1>5
<1> QED
    BY <1>5, <1>6 DEF x, y

\* For any limit on attempts and any results: a call in execute() that does
\* not end has less left to do after every step of its own, so the loop at
\* executor.py:211 cannot go round for ever.  This is the part of
\* CallsTerminate that is not about fairness.
THEOREM AttemptsBounded == Spec => AttemptsRunOut
<1>1. ExecutorInv /\ [Next]_vars =>
        [\A c \in Calls : Live(c) /\ Live(c)' /\ call'[c] # call[c] =>
            /\ StepsLeft(call'[c]) \in 0 .. StepsLeft(call[c]) - 1
            /\ call'[c].service = call[c].service
            /\ call'[c].permit = call[c].permit]_vars
    BY AttemptStep
<1> QED
    BY <1>1, ExecutorInvariant, PTL DEF Spec, AttemptsRunOut

=============================================================================
