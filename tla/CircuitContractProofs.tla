----------------------- MODULE CircuitContractProofs -----------------------
(***************************************************************************)
(* UpstreamExecutor implements CircuitContract, for any number of services *)
(* and calls, when client.request raises nothing but RequestError and      *)
(* CancelledError.                                                         *)
(***************************************************************************)
EXTENDS UpstreamExecutorProofs

\* A step that changes one circuit changes one entry of the mapped state.
LEMMA MappedCircuit ==
    ASSUME NEW s \in Services, NEW ph, NEW n,
           breaker'[s].state = ph, StreakOf(breaker'[s]) = n,
           \A o \in Services : o # s => breaker'[o] = breaker[o]
    PROVE  /\ Phases' = [Phases EXCEPT ![s] = ph]
           /\ Streaks' = [Streaks EXCEPT ![s] = n]
<1>1. \A o \in Services : o # s => breaker'[o].state = breaker[o].state
    OBVIOUS
<1>2. \A o \in Services : o # s => StreakOf(breaker'[o]) = StreakOf(breaker[o])
    BY Zenon
<1>3. Phases' = [Phases EXCEPT ![s] = ph]
    BY <1>1 DEF Phases
<1>4. Streaks' = [Streaks EXCEPT ![s] = n]
    BY <1>2 DEF Streaks
<1> QED
    BY <1>3, <1>4

\* Who is listened to, service by service, after a step about service s.
LEMMA MappedCalls ==
    ASSUME NEW s \in Services, NEW heard, Listened(s)' = heard,
           \A o \in Services : o # s => Listened(o)' = Listened(o)
    PROVE  Listeners' = [Listeners EXCEPT ![s] = heard]
BY DEF Listeners

\* A permit in use is at most of the present generation.
LEMMA PermitBound ==
    ASSUME ExecutorInv, NEW c \in Calls, Live(c)
    PROVE  /\ call[c].permit.generation \in Nat
           /\ breaker[call[c].service].generation \in Nat
           /\ call[c].permit.generation <= breaker[call[c].service].generation
<1>1. call[c].permit \in CircuitPermit /\ breaker[call[c].service] \in Breaker
    BY LiveShape DEF ExecutorInv
<1>2. call[c].permit.generation <= breaker[call[c].service].generation
    BY DEF ExecutorInv, PermitsMatchCircuit
<1> QED
    BY <1>1, <1>2 DEF CircuitPermit, Breaker

\* Admitting a call is joining a closed circuit or probing an open one.
LEMMA AdmitMaps ==
    ASSUME ExecutorInv, NEW c \in Calls, NEW s \in Services, NEW m \in Methods,
           Admit(c, s, m)
    PROVE  Contract!Join(s, c) \/ Contract!Probe(s, c)
<1> DEFINE b == breaker[s]
           p == PermitFor(b)
<1>t. TypeOK /\ now \in Nat /\ b \in Breaker /\ Coherent(b, now) /\ Admits(b, now)
    BY DEF ExecutorInv, TypeOK, CircuitConsistent, Admit
<1>1. \/ /\ b.state = "closed" /\ Admitted(b) = b
         /\ p = [generation |-> b.generation, half_open_probe |-> FALSE]
      \/ /\ b.state = "open" /\ Admitted(b) = HalfOpened(b)
         /\ p = [generation |-> b.generation + 1, half_open_probe |-> TRUE]
    BY <1>t, AdmittedEffect
<1>2. /\ breaker' = [breaker EXCEPT ![s] = Admitted(b)]
      /\ breaker'[s] = Admitted(b)
      /\ \A o \in Services : o # s => breaker'[o] = breaker[o]
    BY <1>t DEF Admit, TypeOK
<1>3. /\ ~Live(c) /\ Live(c)'
      /\ call'[c].service = s /\ call'[c].permit = p
      /\ \A d \in Calls : d # c => call'[d] = call[d]
    BY <1>t DEF Admit, TypeOK, Live, Suspended
<1>4. \A o \in Services : o # s => Listened(o)' = Listened(o)
    BY <1>2, <1>3 DEF Listened, Live
<1>5. CASE b.state = "closed"
    <2>1. Listened(s)' = Listened(s) \cup {c}
        BY <1>1, <1>2, <1>3, <1>5 DEF Listened, Live, CurrentPermit
    <2>2. c \notin Listened(s)
        BY <1>3 DEF Listened
    <2>3. Listeners' = [Listeners EXCEPT ![s] = Listeners[s] \cup {c}]
        <3>1. Listeners[s] = Listened(s)
            BY DEF Listeners
        <3> QED
            BY <1>4, <2>1, <3>1, MappedCalls
    <2>4. breaker' = breaker
        BY <1>1, <1>2, <1>5, <1>t DEF TypeOK
    <2>5. Phases' = Phases /\ Streaks' = Streaks
        BY <2>4 DEF Phases, Streaks
    <2>6. Phases[s] = "closed" /\ c \notin Listeners[s]
        BY <1>5, <2>2 DEF Phases, Listeners
    <2> QED
        BY <2>3, <2>5, <2>6 DEF Contract!Join
<1>6. CASE b.state = "open"
    <2>1. /\ breaker'[s].generation = b.generation + 1
          /\ HalfOpened(b).state = "half_open" /\ StreakOf(HalfOpened(b)) = 0
          /\ p.generation = b.generation + 1
        BY <1>1, <1>2, <1>6 DEF HalfOpened, StreakOf
    <2>2. \A d \in Calls : d # c /\ Live(d) /\ call[d].service = s =>
            call[d].permit.generation # b.generation + 1
        BY PermitBound
    <2>3. Listened(s)' = {c}
        BY <1>3, <2>1, <2>2 DEF Listened, Live, CurrentPermit
    <2>4. Listeners' = [Listeners EXCEPT ![s] = {c}]
        BY <1>4, <2>3, MappedCalls
    <2>5. breaker'[s].state = "half_open" /\ StreakOf(breaker'[s]) = 0
        BY <1>1, <1>2, <1>6, <2>1
    <2>6. /\ Phases' = [Phases EXCEPT ![s] = "half_open"]
          /\ Streaks' = [Streaks EXCEPT ![s] = 0]
        BY <1>2, <2>5, MappedCircuit
    <2>7. Phases[s] = "open"
        BY <1>6 DEF Phases
    <2> QED
        BY <2>4, <2>6, <2>7 DEF Contract!Probe, Contract!Become
<1> QED
    BY <1>1, <1>5, <1>6

\* The completion of a call is heard by its circuit, decides a probe, trips
\* the circuit, or is stale and changes nothing.
LEMMA FinishMaps ==
    ASSUME ExecutorInv, NEW c \in Calls, Live(c),
           NEW s \in Services, call[c].service = s,
           NEW x \in Outcomes(breaker[s], call[c].permit, now),
           breaker' = [breaker EXCEPT ![s] = x],
           call' = [call EXCEPT ![c] = Idle]
    PROVE  \/ UNCHANGED <<Phases, Listeners, Streaks>>
           \/ \E n \in 0..FailureThreshold : Contract!Heard(s, c, n)
           \/ Contract!Trip(s, c)
           \/ Contract!Decide(s, c)
<1> DEFINE b == breaker[s]
           p == call[c].permit
<1>t. TypeOK /\ now \in Nat /\ b \in Breaker /\ p \in CircuitPermit
      /\ Coherent(b, now) /\ b.generation \in Nat /\ b.consecutive_failures \in Nat
      /\ FailureThreshold \in Nat \ {0}
    BY LiveShape, BreakerAssumption DEF ExecutorInv, TypeOK, CircuitConsistent, Breaker
<1>p. CurrentPermit(b, p) =>
        b.state = (IF p.half_open_probe THEN "half_open" ELSE "closed")
    BY DEF ExecutorInv, PermitsMatchCircuit
<1>1. breaker'[s] = x /\ \A o \in Services : o # s => breaker'[o] = breaker[o]
    BY <1>t DEF TypeOK
<1>2. ~Live(c)' /\ \A d \in Calls : d # c => call'[d] = call[d]
    BY <1>t DEF TypeOK, Live, Suspended, Idle
<1>3. \A o \in Services : o # s => Listened(o)' = Listened(o)
    BY <1>1, <1>2 DEF Listened, Live
<1>4. x.generation = b.generation => Listened(s)' = Listened(s) \ {c}
    BY <1>1, <1>2 DEF Listened, Live, CurrentPermit
<1>5. x.generation = b.generation + 1 => Listened(s)' = {}
    <2>1. \A d \in Calls : Live(d) /\ call[d].service = s =>
            call[d].permit.generation # b.generation + 1
        BY PermitBound
    <2> QED
        BY <1>1, <1>2, <2>1 DEF Listened, Live, CurrentPermit
<1>6. c \in Listened(s) <=> CurrentPermit(b, p)
    BY DEF Listened
<1>7. Phases[s] = b.state /\ Listeners[s] = Listened(s) /\ Streaks[s] = StreakOf(b)
    BY <1>t DEF Phases, Listeners, Streaks
<1>8. /\ Closed(b.generation + 1).generation = b.generation + 1
      /\ Closed(b.generation + 1).state = "closed"
      /\ StreakOf(Closed(b.generation + 1)) = 0
      /\ \A f \in Nat : /\ Opened(b, f, now).generation = b.generation + 1
                        /\ Opened(b, f, now).state = "open"
                        /\ StreakOf(Opened(b, f, now)) = 0
    BY DEF Closed, Opened, StreakOf
<1>10. CASE ~CurrentPermit(b, p)
    <2>1. x = b
        BY <1>10 DEF Outcomes, record_success, record_failure, record_neutral,
            ProbeReports, ClosedReports
    <2>2. breaker' = breaker
        BY <1>t, <2>1 DEF TypeOK
    <2>3. \A o \in Services : Listened(o)' = Listened(o)
        BY <1>10, <1>3, <1>4, <1>6, <2>1
    <2> QED
        BY <2>2, <2>3 DEF Phases, Listeners, Streaks
<1>11. CASE CurrentPermit(b, p) /\ p.half_open_probe
    <2>1. ProbeReports(b, p) /\ b.state = "half_open"
        BY <1>11, <1>p, <1>t DEF ProbeReports, Coherent
    <2>2. /\ x.generation = b.generation + 1
          /\ x.state \in {"closed", "open"}
          /\ StreakOf(x) = 0
        BY <1>8, <1>t, <2>1 DEF Outcomes, record_success, record_failure, record_neutral
    <2>3. Listeners' = [Listeners EXCEPT ![s] = {}]
        BY <1>3, <1>5, <1>t, <2>2, MappedCalls
    <2>4. /\ Phases' = [Phases EXCEPT ![s] = x.state]
          /\ Streaks' = [Streaks EXCEPT ![s] = 0]
        BY <1>1, <1>t, <2>2, MappedCircuit
    <2>5. Contract!Decide(s, c)
        BY <1>11, <1>6, <1>7, <2>1, <2>2, <2>3, <2>4
        DEF Contract!Decide, Contract!Become
    <2> QED
        BY <2>5
<1>12. CASE CurrentPermit(b, p) /\ ~p.half_open_probe
    <2>1. ClosedReports(b, p) /\ ~ProbeReports(b, p) /\ b.state = "closed"
        BY <1>12, <1>p DEF ClosedReports, ProbeReports
    <2>2. Streaks[s] = b.consecutive_failures /\ c \in Listeners[s]
          /\ Phases[s] = "closed"
          /\ b.consecutive_failures < FailureThreshold
        BY <1>12, <1>6, <1>7, <1>t, <2>1 DEF StreakOf, Coherent
    <2>3. ASSUME NEW n \in Nat, n \in {0, Streaks[s], Streaks[s] + 1},
                 n < FailureThreshold, x.generation = b.generation,
                 x.state = "closed", StreakOf(x) = n
          PROVE  \E k \in 0..FailureThreshold : Contract!Heard(s, c, k)
        <3>1. Listeners' = [Listeners EXCEPT ![s] = Listeners[s] \ {c}]
            BY <1>3, <1>4, <1>7, <1>t, <2>3, MappedCalls
        <3>2. /\ Phases' = [Phases EXCEPT ![s] = "closed"]
              /\ Streaks' = [Streaks EXCEPT ![s] = n]
            BY <1>1, <1>t, <2>3, MappedCircuit
        <3>3. Phases' = Phases
            BY <2>2, <3>2 DEF Phases
        <3>4. Contract!Heard(s, c, n)
            BY <2>2, <2>3, <3>1, <3>2, <3>3 DEF Contract!Heard
        <3> QED
            BY <1>t, <2>3, <3>4
    <2>4. CASE x = record_success(b, p)
        <3>1. x = [b EXCEPT !.consecutive_failures = 0, !.opened_at = NotOpened]
            BY <2>1, <2>4 DEF record_success
        <3>2. x.generation = b.generation /\ x.state = "closed" /\ StreakOf(x) = 0
            BY <2>1, <3>1 DEF Breaker, StreakOf
        <3> QED
            BY <1>t, <2>3, <3>2
    <2>5. CASE x = record_neutral(b, p, now)
        <3>1. x = b
            BY <2>1, <2>5 DEF record_neutral
        <3> QED
            BY <1>7, <1>t, <2>1, <2>2, <2>3, <3>1
    <2>6. CASE x = record_failure(b, p, now) /\ b.consecutive_failures + 1 < FailureThreshold
        <3>1. x = [b EXCEPT !.consecutive_failures = b.consecutive_failures + 1]
            BY <1>t, <2>1, <2>6 DEF record_failure
        <3>2. /\ x.generation = b.generation /\ x.state = "closed"
              /\ StreakOf(x) = b.consecutive_failures + 1
            BY <2>1, <3>1 DEF Breaker, StreakOf
        <3> QED
            BY <1>t, <2>2, <2>3, <2>6, <3>2
    <2>7. CASE x = record_failure(b, p, now)
               /\ b.consecutive_failures + 1 >= FailureThreshold
        <3>1. x = Opened(b, b.consecutive_failures + 1, now)
            BY <2>1, <2>7 DEF record_failure
        <3>2. x.generation = b.generation + 1 /\ x.state = "open" /\ StreakOf(x) = 0
            BY <1>8, <1>t, <3>1
        <3>3. Listeners' = [Listeners EXCEPT ![s] = {}]
            BY <1>3, <1>5, <1>t, <3>2, MappedCalls
        <3>4. /\ Phases' = [Phases EXCEPT ![s] = "open"]
              /\ Streaks' = [Streaks EXCEPT ![s] = 0]
            BY <1>1, <1>t, <3>2, MappedCircuit
        <3>5. Contract!Trip(s, c)
            BY <2>2, <2>7, <3>3, <3>4 DEF Contract!Trip, Contract!Become
        <3> QED
            BY <3>5
    <2>8. b.consecutive_failures + 1 < FailureThreshold
          \/ b.consecutive_failures + 1 >= FailureThreshold
        BY <1>t
    <2> QED
        BY <2>4, <2>5, <2>6, <2>7, <2>8 DEF Outcomes
<1> QED
    BY <1>10, <1>11, <1>12

\* A step that touches neither a circuit nor who holds which permit is
\* invisible to the contract.
LEMMA SilentMaps ==
    ASSUME UNCHANGED breaker,
           \A d \in Calls : (Live(d)' <=> Live(d))
                /\ (Live(d) => /\ call'[d].service = call[d].service
                               /\ call'[d].permit = call[d].permit)
    PROVE  UNCHANGED <<Phases, Listeners, Streaks>>
<1>1. \A o \in Services : Listened(o)' = Listened(o)
    BY DEF Listened
<1> QED
    BY <1>1 DEF Phases, Listeners, Streaks

LEMMA ContractInit == Init => Contract!CInit
<1> SUFFICES ASSUME Init PROVE Contract!CInit
    OBVIOUS
<1>1. Phases = [s \in Services |-> "closed"]
    BY DEF Init, Phases, NewBreaker, Closed
<1>2. Listeners = [s \in Services |-> {}]
    BY DEF Init, Listeners, Listened, Live, Suspended, Idle
<1>3. Streaks = [s \in Services |-> 0]
    BY DEF Init, Streaks, StreakOf, NewBreaker, Closed
<1> QED
    BY <1>1, <1>2, <1>3 DEF Contract!CInit

LEMMA ContractStep ==
    ASSUME "unhandled_error" \notin Results, ExecutorInv, [Next]_vars
    PROVE  [Contract!CNext]_<<Phases, Listeners, Streaks>>
<1> DEFINE Goal == [Contract!CNext]_<<Phases, Listeners, Streaks>>
<1>t. TypeOK
    BY DEF ExecutorInv
<1>1. ASSUME NEW c \in Calls, NEW s \in Services, NEW m \in Methods, Admit(c, s, m)
      PROVE  Goal
    BY <1>1, AdmitMaps DEF Contract!CNext
<1>2. ASSUME NEW c \in Calls, Live(c),
             NEW x \in Outcomes(breaker[call[c].service], call[c].permit, now),
             breaker' = [breaker EXCEPT ![call[c].service] = x],
             call' = [call EXCEPT ![c] = Idle]
      PROVE  Goal
    <2>1. call[c].service \in Services
        BY <1>2, <1>t, LiveShape
    <2> QED
        <3>1. PICK s \in Services : s = call[c].service
            BY <2>1
        <3>2. \/ UNCHANGED <<Phases, Listeners, Streaks>>
              \/ \E n \in 0..FailureThreshold : Contract!Heard(s, c, n)
              \/ Contract!Trip(s, c)
              \/ Contract!Decide(s, c)
            BY <1>2, <3>1, FinishMaps
        <3> QED
            BY <3>2 DEF Contract!CNext
<1>3. ASSUME NEW c \in Calls, NEW r \in Results, Complete(c, r) PROVE Goal
    <2>1. Recorded(c, r) \in Outcomes(breaker[call[c].service], call[c].permit, now)
        BY DEF Recorded, Outcomes
    <2> QED
        BY <1>2, <1>3, <2>1 DEF Complete, Live, Suspended
<1>4. ASSUME NEW c \in Calls, Cancel(c) PROVE Goal
    <2>1. record_neutral(breaker[call[c].service], call[c].permit, now)
            \in Outcomes(breaker[call[c].service], call[c].permit, now)
        BY DEF Outcomes
    <2> QED
        BY <1>2, <1>4, <2>1 DEF Cancel
<1>5. ASSUME NEW c \in Calls, NEW s \in Services, Reject(c, s) PROVE Goal
    BY <1>5, <1>t, SilentMaps DEF Reject, TypeOK, Live, Suspended
<1>6. ASSUME NEW c \in Calls, Dismiss(c) PROVE Goal
    BY <1>6, <1>t, SilentMaps DEF Dismiss, TypeOK, Live, Suspended, Idle
<1>7. ASSUME NEW c \in Calls, NEW r \in Results, BackOff(c, r) PROVE Goal
    <2> DEFINE v == [call[c] EXCEPT !.pc = "sleeping",
                        !.exchanged = call[c].exchanged \/ MayBeProcessed(r)]
    <2>1. call' = [call EXCEPT ![c] = v] /\ UNCHANGED breaker
        BY <1>7 DEF BackOff
    <2>2. Live(c) /\ call[c] \in LiveCall
        BY <1>7, <1>t, LiveShape DEF BackOff, Live, Suspended
    <2>3. v.pc \in Suspended /\ v.service = call[c].service /\ v.permit = call[c].permit
        BY <2>2 DEF LiveCall, Suspended
    <2> HIDE DEF v
    <2> QED
        BY <1>t, <2>1, <2>2, <2>3, SilentMaps DEF TypeOK, Live
<1>8. ASSUME NEW c \in Calls, Retry(c) PROVE Goal
    <2> DEFINE v == [call[c] EXCEPT !.pc = "requesting",
                                    !.attempts = call[c].attempts + 1]
    <2>1. call' = [call EXCEPT ![c] = v] /\ UNCHANGED breaker
        BY <1>8 DEF Retry
    <2>2. Live(c) /\ call[c] \in LiveCall
        BY <1>8, <1>t, LiveShape DEF Retry, Live, Suspended
    <2>3. v.pc \in Suspended /\ v.service = call[c].service /\ v.permit = call[c].permit
        BY <2>2 DEF LiveCall, Suspended
    <2> HIDE DEF v
    <2> QED
        BY <1>t, <2>1, <2>2, <2>3, SilentMaps DEF TypeOK, Live
<1>9. ASSUME UNCHANGED <<breaker, call>> PROVE Goal
    BY <1>9, SilentMaps DEF Live
<1>10. \A c \in Calls : ~Escape(c)
    BY DEF Escape
<1> HIDE DEF Goal
<1>11. Goal
    BY <1>1, <1>3, <1>4, <1>5, <1>6, <1>7, <1>8, <1>9, <1>10
    DEF Next, Proceed, Tick, vars
<1> QED
    BY <1>11 DEF Goal

\* As long as client.request raises nothing but RequestError and
\* CancelledError, the executor and its circuits keep the contract: a circuit
\* hears exactly the calls admitted since its last change of phase, each once,
\* trips on FailureThreshold failures in a row and is decided by one probe.
THEOREM ContractHolds ==
    ASSUME "unhandled_error" \notin Results
    PROVE  Spec => ImplementsContract
<1>1. Init => Contract!CInit
    BY ContractInit
<1>2. ExecutorInv /\ [Next]_vars => [Contract!CNext]_<<Phases, Listeners, Streaks>>
    BY ContractStep
<1>3. ExecutorInv /\ [Next]_vars => [Contract!CNext]_(Contract!cvars)
    BY <1>2 DEF Contract!cvars
<1> QED
    BY <1>1, <1>3, ExecutorInvariant, PTL DEF Spec, ImplementsContract, Contract!CSpec

-----------------------------------------------------------------------------
(* A consequence of the contract.                                          *)

\* A half-open circuit listens to one call.
ProbeListened ==
    \A s \in Services : Phases[s] = "half_open" => \E c \in Calls : Listeners[s] = {c}

\* The contract's steps never lose the probe.
LEMMA ContractKeepsProbe ==
    ASSUME ProbeListened, [Contract!CNext]_<<Phases, Listeners, Streaks>>
    PROVE  ProbeListened'
<1>1. /\ Phases = [s \in Services |-> Phases[s]]
      /\ Listeners = [s \in Services |-> Listeners[s]]
    BY DEF Phases, Listeners
<1>2. ASSUME NEW s \in Services, NEW ph, NEW heard, Contract!Become(s, ph, heard),
             ph = "half_open" => \E c \in Calls : heard = {c}
      PROVE  ProbeListened'
    <2>1. /\ Phases'[s] = ph /\ Listeners'[s] = heard
          /\ \A o \in Services : o # s =>
                Phases'[o] = Phases[o] /\ Listeners'[o] = Listeners[o]
        BY <1>1, <1>2 DEF Contract!Become
    <2> QED
        BY <1>2, <2>1 DEF ProbeListened
<1>3. ASSUME NEW s \in Services, Phases[s] = "closed", UNCHANGED Phases,
             \A o \in Services : o # s => Listeners'[o] = Listeners[o]
      PROVE  ProbeListened'
    BY <1>3 DEF ProbeListened
<1>4. ASSUME NEW s \in Services, NEW c \in Calls, Contract!Join(s, c)
      PROVE  ProbeListened'
    BY <1>1, <1>3, <1>4 DEF Contract!Join
<1>5. ASSUME NEW s \in Services, NEW c \in Calls, NEW n, Contract!Heard(s, c, n)
      PROVE  ProbeListened'
    BY <1>1, <1>3, <1>5 DEF Contract!Heard
<1>6. ASSUME NEW s \in Services, NEW c \in Calls,
             Contract!Probe(s, c) \/ Contract!Trip(s, c) \/ Contract!Decide(s, c)
      PROVE  ProbeListened'
    BY <1>2, <1>6 DEF Contract!Probe, Contract!Trip, Contract!Decide
<1>7. CASE UNCHANGED <<Phases, Listeners, Streaks>>
    BY <1>7 DEF ProbeListened
<1> QED
    BY <1>4, <1>5, <1>6, <1>7 DEF Contract!CNext

\* Whoever a half-open circuit listens to is its probe.
LEMMA ListenedProbes ==
    ASSUME ExecutorInv, ProbeListened
    PROVE  HalfOpenIsProbed
<1> SUFFICES ASSUME NEW s \in Services, breaker[s].state = "half_open"
             PROVE  \E c \in Calls :
                        /\ Live(c) /\ call[c].service = s
                        /\ call[c].permit.half_open_probe
                        /\ CurrentPermit(breaker[s], call[c].permit)
    BY DEF HalfOpenIsProbed
<1>1. PICK c \in Calls : c \in Listened(s)
    BY DEF ProbeListened, Phases, Listeners
<1>2. Live(c) /\ call[c].service = s /\ CurrentPermit(breaker[s], call[c].permit)
    BY <1>1 DEF Listened
<1>3. call[c].permit.half_open_probe
    BY <1>2 DEF ExecutorInv, PermitsMatchCircuit
<1> QED
    BY <1>2, <1>3

\* As long as client.request raises nothing but RequestError and
\* CancelledError, no circuit is ever half open without a probe under way that
\* it will listen to: the safety half of "a half-open circuit does not stay
\* half open".  The run executor_probe_leak shows that the assumption is needed.
THEOREM HalfOpenProbed ==
    ASSUME "unhandled_error" \notin Results
    PROVE  Spec => []HalfOpenIsProbed
<1>1. Init => ProbeListened
    BY DEF Init, ProbeListened, Phases, NewBreaker, Closed
<1>2. ExecutorInv /\ ProbeListened /\ [Next]_vars => ProbeListened'
    BY ContractStep, ContractKeepsProbe
<1>3. Spec => []ProbeListened
    BY <1>1, <1>2, ExecutorInvariant, PTL DEF Spec
<1>4. ExecutorInv /\ ProbeListened => HalfOpenIsProbed
    BY ListenedProbes
<1> QED
    BY <1>3, <1>4, ExecutorInvariant, PTL

============================================================================
