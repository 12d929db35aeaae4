--------------------------- MODULE LifespanProofs ---------------------------
(***************************************************************************)
(* Proofs about Lifespan: types, what is held in each phase of lifespan(), *)
(* and what a readiness probe knows while it runs.                         *)
(***************************************************************************)
EXTENDS Lifespan, TLAPS

\* What is held in each phase.  Up to the release of the HTTP client it is
\* known exactly; afterwards only what may still be held, the HTTP client
\* among it if its exit raised.
HeldInPhase ==
    /\ phase = "settings" => open = {}
    /\ phase = "start_metrics" => open = {"redis_client"}
    /\ phase = "create_engine" =>
        open = {r \in {"redis_client", "metrics_server"} : Configured(r)}
    /\ phase \in {"verify_database", "verify_redis", "open_http"} =>
        open = {r \in Resources \ {"http_client"} : Configured(r)}
    /\ phase \in {"serving", "close_http"} => open = {r \in Resources : Configured(r)}
    /\ phase \in {"close_metrics", "close_engine", "close_redis", "exited"} =>
        ("http_client" \in open => "http_client" \in raised)
    /\ phase = "close_engine" =>
        open \subseteq {"redis_client", "database_engine", "http_client"}
    /\ phase = "close_redis" => open \subseteq {"redis_client", "http_client"}
    /\ phase = "exited" =>
        \A r \in open : r \in raised \/ \E f \in raised : r \in SkippedAfter(f)

\* What a running probe knows: a result "ok" is about a dependency that is
\* configured and has been seen up, and a check still running has used up as
\* much time as the probe.
ProbeKnows(p) ==
    /\ probe[p].pc = "running" =>
        \A d \in Dependencies :
            /\ probe[p].check[d] # "waiting"
            /\ health[d] = "up" => d \in probe[p].seen
            /\ probe[p].check[d] = "ok" => d \in probe[p].seen /\ Checked(d)
            /\ probe[p].check[d] = "running" =>
                /\ Checked(d)
                /\ probe[p].age + probe[p].left[d] = CheckTimeout
    /\ probe[p].pc = "ready" => "database" \in config /\ probe[p].seen = Dependencies
    /\ probe[p].age <= CheckTimeout

LifespanInv ==
    /\ TypeOK
    /\ HeldInPhase
    /\ \A p \in Probes : ProbeKnows(p)

-----------------------------------------------------------------------------
(* Shapes.                                                                 *)

LEMMA IdleShape == Idle \in Probe
BY LifespanAssumption DEF Idle, Probe

\* The fields of a probe.
LEMMA ProbeShape ==
    ASSUME NEW x \in Probe
    PROVE  /\ x.check \in [Dependencies -> {"waiting", "running", "ok", "unavailable"}]
           /\ x.left \in [Dependencies -> 0..CheckTimeout]
           /\ x.age \in Nat
           /\ x.seen \subseteq Dependencies
BY DEF Probe

\* A step on one probe only.
LEMMA OneProbe ==
    ASSUME TypeOK, NEW p \in Probes, NEW x \in Probe,
           probe' = [probe EXCEPT ![p] = x],
           UNCHANGED <<config, phase, open, raised, health>>
    PROVE  TypeOK'
BY DEF TypeOK

\* The steps of lifespan() leave the probes and the dependencies alone.
LEMMA LifeFrame ==
    LifeStep \/ Stop => UNCHANGED <<config, health, probe>>
BY DEF LifeStep, Stop, CreateRedis, StartMetrics, CreateEngine, VerifyDatabase,
    VerifyRedis, OpenHttp, SettingsRefused, StartFails, CloseHttp, CloseMetrics,
    CloseEngine, CloseRedis, CloseHttpFails, ReleaseFails, Acquire, Release, Raises

\* The steps of probes, dependencies and time leave lifespan() alone.
LEMMA ProbeFrame ==
    ASSUME NEW p \in Probes, ProbeBegins(p) \/ ProbeStep(p) \/ ProbeGone(p)
    PROVE  UNCHANGED <<config, phase, open, raised, health>>
BY DEF ProbeBegins, ProbeStep, ProbeGone, CheckSucceeds, CheckRaises,
    CheckTimesOut, ProbeAnswers

-----------------------------------------------------------------------------
(* lifespan().                                                             *)

LEMMA HeldInit == Init => HeldInPhase
BY DEF Init, HeldInPhase

\* Acquisition and release keep track of what is held.
LEMMA LifeStepHeld ==
    TypeOK /\ HeldInPhase /\ (LifeStep \/ Stop) => TypeOK' /\ HeldInPhase'
<1> SUFFICES ASSUME TypeOK, HeldInPhase, LifeStep \/ Stop
             PROVE  TypeOK' /\ HeldInPhase'
    OBVIOUS
<1>0. UNCHANGED <<config, health, probe>>
    BY LifeFrame
<1>c. /\ \A r : Configured(r)' = Configured(r)
      /\ Configured("redis_client") /\ Configured("http_client")
    BY <1>0 DEF Configured
<1>t. /\ phase' \in Starting \cup {"serving"} \cup Stopping \cup {"exited"}
      /\ open' \subseteq Resources /\ raised' \subseteq Resources
      => TypeOK'
    BY <1>0 DEF TypeOK
<1>1. CASE CreateRedis
    BY <1>1, <1>c, <1>t
    DEF CreateRedis, Acquire, HeldInPhase, TypeOK, Resources, Starting
<1>2. CASE StartMetrics
    BY <1>2, <1>c, <1>t
    DEF StartMetrics, Acquire, HeldInPhase, TypeOK, Resources, Starting
<1>3. CASE CreateEngine
    BY <1>3, <1>c, <1>t
    DEF CreateEngine, Acquire, HeldInPhase, TypeOK, Resources, Starting
<1>4. CASE VerifyDatabase \/ VerifyRedis
    BY <1>4, <1>c, <1>t
    DEF VerifyDatabase, VerifyRedis, HeldInPhase, TypeOK, Resources, Starting
<1>5. CASE OpenHttp
    BY <1>5, <1>c, <1>t
    DEF OpenHttp, Acquire, HeldInPhase, TypeOK, Resources
<1>6. CASE SettingsRefused
    BY <1>6, <1>t DEF SettingsRefused, HeldInPhase, TypeOK
<1>7. CASE StartFails
    BY <1>7, <1>t DEF StartFails, HeldInPhase, TypeOK, Stopping
<1>8. CASE Stop
    BY <1>8, <1>c, <1>t DEF Stop, HeldInPhase, TypeOK, Stopping
<1>9. CASE CloseHttp \/ CloseMetrics \/ CloseEngine \/ CloseRedis
    BY <1>9, <1>t
    DEF CloseHttp, CloseMetrics, CloseEngine, CloseRedis, Release, HeldInPhase,
        TypeOK, Resources, Stopping
<1>10. CASE CloseHttpFails
    BY <1>10, <1>t
    DEF CloseHttpFails, Raises, HeldInPhase, TypeOK, Resources, Stopping
<1>11. CASE ReleaseFails
    <2>1. CASE Raises("close_metrics", "metrics_server", "exited")
        BY <2>1, <1>t DEF Raises, HeldInPhase, TypeOK, Resources, SkippedAfter
    <2>2. CASE Raises("close_engine", "database_engine", "exited")
        BY <2>2, <1>t DEF Raises, HeldInPhase, TypeOK, Resources, SkippedAfter
    <2>3. CASE Raises("close_redis", "redis_client", "exited")
        BY <2>3, <1>t DEF Raises, HeldInPhase, TypeOK, Resources, SkippedAfter
    <2> QED
        BY <1>11, <2>1, <2>2, <2>3 DEF ReleaseFails
<1> QED
    BY <1>1, <1>2, <1>3, <1>4, <1>5, <1>6, <1>7, <1>8, <1>9, <1>10, <1>11
    DEF LifeStep

-----------------------------------------------------------------------------
(* /ready.                                                                 *)

\* The others are not touched by a step of one probe.
LEMMA OthersKnow ==
    ASSUME TypeOK, NEW p \in Probes, NEW x, NEW q \in Probes, q # p, ProbeKnows(q),
           probe' = [probe EXCEPT ![p] = x],
           UNCHANGED <<config, health>>
    PROVE  ProbeKnows(q)'
<1>1. probe'[q] = probe[q]
    BY DEF TypeOK
<1> QED
    BY <1>1 DEF ProbeKnows, Checked

\* What is left for a step of one probe: the new record knows what it must.
LEMMA ProbeStepKnows ==
    ASSUME LifespanInv, NEW p \in Probes, NEW x \in Probe,
           probe' = [probe EXCEPT ![p] = x],
           UNCHANGED <<config, phase, open, raised, health>>,
           x.pc = "running" =>
            \A d \in Dependencies :
                /\ x.check[d] # "waiting"
                /\ health[d] = "up" => d \in x.seen
                /\ x.check[d] = "ok" => d \in x.seen /\ Checked(d)
                /\ x.check[d] = "running" =>
                    Checked(d) /\ x.age + x.left[d] = CheckTimeout,
           x.pc = "ready" => "database" \in config /\ x.seen = Dependencies,
           x.age <= CheckTimeout
    PROVE  LifespanInv'
<1>1. TypeOK'
    BY OneProbe DEF LifespanInv
<1>2. HeldInPhase'
    BY DEF LifespanInv, HeldInPhase, Configured
<1>3. probe'[p] = x
    BY DEF LifespanInv, TypeOK
<1>4. ProbeKnows(p)'
    BY <1>3 DEF ProbeKnows, Checked
<1>5. \A q \in Probes : q # p => ProbeKnows(q)'
    BY OthersKnow DEF LifespanInv
<1> QED
    BY <1>1, <1>2, <1>4, <1>5 DEF LifespanInv

LEMMA BeginsKnows ==
    ASSUME LifespanInv, NEW p \in Probes, ProbeBegins(p)
    PROVE  LifespanInv'
<1> DEFINE x == [pc |-> "running",
                 check |-> [d \in Dependencies |->
                                IF Started(d) THEN FirstResult(d) ELSE "waiting"],
                 left |-> [d \in Dependencies |-> CheckTimeout],
                 age |-> 0, seen |-> Up]
<1>1. probe' = [probe EXCEPT ![p] = x]
    BY DEF ProbeBegins
<1>2. UNCHANGED <<config, phase, open, raised, health>>
    BY ProbeFrame
<1>3. x \in Probe
    <2>1. Up \in SUBSET Dependencies
        BY DEF Up
    <2>2. x.check \in [Dependencies -> {"waiting", "running", "ok", "unavailable"}]
        BY DEF FirstResult
    <2>3. x.left \in [Dependencies -> 0..CheckTimeout]
        BY LifespanAssumption
    <2> QED
        BY <2>1, <2>2, <2>3 DEF Probe
<1>4. \A d \in Dependencies :
        /\ x.check[d] # "waiting"
        /\ health[d] = "up" => d \in x.seen
        /\ x.check[d] # "ok"
        /\ x.check[d] = "running" => Checked(d) /\ x.age + x.left[d] = CheckTimeout
    BY LifespanAssumption DEF Started, FirstResult, Up
<1>5. x.pc = "running" /\ x.age <= CheckTimeout
    BY LifespanAssumption
<1> HIDE DEF x
<1> QED
    BY <1>1, <1>2, <1>3, <1>4, <1>5, ProbeStepKnows

\* The result of a check.
LEMMA FoundKnows ==
    ASSUME LifespanInv, NEW p \in Probes, NEW d \in Dependencies,
           NEW result \in {"ok", "unavailable"},
           probe[p].pc = "running", probe[p].check[d] = "running",
           result = "ok" => health[d] = "up",
           Found(p, d, result), UNCHANGED <<config, phase, open, raised, health>>
    PROVE  LifespanInv'
<1> DEFINE c == [e \in Dependencies |->
                    IF e = d THEN result
                    ELSE IF probe[p].check[e] = "waiting" THEN FirstResult(e)
                    ELSE probe[p].check[e]]
           x == [probe[p] EXCEPT !.check = c]
<1>1. probe[p] \in Probe /\ ProbeKnows(p) /\ probe \in [Probes -> Probe]
    BY DEF LifespanInv, TypeOK
<1>2. probe' = [probe EXCEPT ![p] = x]
    BY <1>1 DEF Found
<1>3. c \in [Dependencies -> {"waiting", "running", "ok", "unavailable"}]
    BY <1>1 DEF FirstResult, Probe
<1>4. x \in Probe
    BY <1>1, <1>3 DEF Probe
<1>5. /\ x.pc = "running" /\ x.check = c /\ x.left = probe[p].left
      /\ x.age = probe[p].age /\ x.seen = probe[p].seen
    BY <1>1 DEF Probe
<1>6. \A e \in Dependencies : e # d => c[e] = probe[p].check[e]
    BY <1>1 DEF ProbeKnows
<1>7. c[d] = result
    OBVIOUS
<1>8. /\ probe[p].age <= CheckTimeout
      /\ \A e \in Dependencies :
            /\ probe[p].check[e] # "waiting"
            /\ health[e] = "up" => e \in probe[p].seen
            /\ probe[p].check[e] = "ok" => e \in probe[p].seen /\ Checked(e)
            /\ probe[p].check[e] = "running" =>
                Checked(e) /\ probe[p].age + probe[p].left[e] = CheckTimeout
    BY <1>1 DEF ProbeKnows
<1> HIDE DEF x, c
<1>9. \A e \in Dependencies :
        /\ x.check[e] # "waiting"
        /\ health[e] = "up" => e \in x.seen
        /\ x.check[e] = "ok" => e \in x.seen /\ Checked(e)
        /\ x.check[e] = "running" => Checked(e) /\ x.age + x.left[e] = CheckTimeout
    <2> TAKE e \in Dependencies
    <2>1. CASE e = d
        BY <2>1, <1>5, <1>7, <1>8
    <2>2. CASE e # d
        BY <2>2, <1>5, <1>6, <1>8
    <2> QED
        BY <2>1, <2>2
<1> QED
    BY <1>2, <1>4, <1>5, <1>8, <1>9, ProbeStepKnows

LEMMA AnswersKnows ==
    ASSUME LifespanInv, NEW p \in Probes, ProbeAnswers(p)
    PROVE  LifespanInv'
<1> DEFINE ok == \A d \in Dependencies : probe[p].check[d] = "ok"
           x == [probe[p] EXCEPT !.pc = IF ok THEN "ready" ELSE "not_ready"]
<1>1. probe[p] \in Probe /\ ProbeKnows(p) /\ probe \in [Probes -> Probe]
    BY DEF LifespanInv, TypeOK
<1>2. probe' = [probe EXCEPT ![p] = x]
    BY <1>1 DEF ProbeAnswers
<1>3. x \in Probe
    BY <1>1 DEF Probe
<1>4. /\ x.pc = (IF ok THEN "ready" ELSE "not_ready")
      /\ x.age = probe[p].age /\ x.seen = probe[p].seen
    BY <1>1 DEF Probe
<1>5. ok => "database" \in config /\ probe[p].seen = Dependencies
    <2>1. ok => \A d \in Dependencies : d \in probe[p].seen /\ Checked(d)
        BY <1>1 DEF ProbeKnows, ProbeAnswers
    <2>2. probe[p].seen \subseteq Dependencies
        BY <1>1, ProbeShape
    <2> QED
        BY <2>1, <2>2 DEF Checked, Dependencies
<1>6. probe[p].age <= CheckTimeout
    BY <1>1 DEF ProbeKnows
<1>7. UNCHANGED <<config, phase, open, raised, health>>
    BY DEF ProbeAnswers
<1> HIDE DEF x, ok
<1> QED
    BY <1>2, <1>3, <1>4, <1>5, <1>6, <1>7, ProbeStepKnows

LEMMA GoneKnows ==
    ASSUME LifespanInv, NEW p \in Probes, ProbeGone(p)
    PROVE  LifespanInv'
<1>1. probe' = [probe EXCEPT ![p] = Idle]
    BY DEF ProbeGone
<1>2. UNCHANGED <<config, phase, open, raised, health>>
    BY DEF ProbeGone
<1>3. Idle.pc = "idle" /\ Idle.age <= CheckTimeout
    BY LifespanAssumption DEF Idle
<1> QED
    BY <1>1, <1>2, <1>3, IdleShape, ProbeStepKnows

LEMMA ChangeKnows ==
    ASSUME LifespanInv, NEW d \in Dependencies, NEW h \in Health, Change(d, h)
    PROVE  LifespanInv'
<1>0. UNCHANGED <<config, phase, open, raised>>
    BY DEF Change
<1>1. health' \in [Dependencies -> Health]
      /\ \A e \in Dependencies : health'[e] = "up" => health[e] = "up" \/ (e = d /\ h = "up")
    BY DEF Change, LifespanInv, TypeOK
<1>2. \A p \in Probes : probe'[p] \in Probe /\ ProbeKnows(p)'
    <2> SUFFICES ASSUME NEW p \in Probes
                 PROVE  probe'[p] \in Probe /\ ProbeKnows(p)'
        OBVIOUS
    <2>1. probe[p] \in Probe /\ ProbeKnows(p)
        BY DEF LifespanInv, TypeOK
    <2>2. CASE probe[p].pc = "running" /\ h = "up"
        <3>1. probe'[p] = [probe[p] EXCEPT !.seen = @ \cup {d}]
            BY <2>2 DEF Change
        <3>2. /\ probe'[p] \in Probe
              /\ probe'[p].pc = "running" /\ probe'[p].check = probe[p].check
              /\ probe'[p].left = probe[p].left /\ probe'[p].age = probe[p].age
              /\ probe'[p].seen = probe[p].seen \cup {d}
            BY <2>1, <2>2, <3>1 DEF Probe
        <3> QED
            BY <1>0, <1>1, <2>1, <2>2, <3>2 DEF ProbeKnows, Checked
    <2>3. CASE ~(probe[p].pc = "running" /\ h = "up")
        <3>1. probe'[p] = probe[p]
            BY <2>3 DEF Change
        <3> QED
            BY <1>0, <1>1, <2>1, <2>3, <3>1 DEF ProbeKnows, Checked
    <2> QED
        BY <2>2, <2>3
<1>3. TypeOK'
    BY <1>0, <1>1, <1>2 DEF TypeOK, LifespanInv, Change
<1>4. HeldInPhase'
    BY <1>0 DEF LifespanInv, HeldInPhase, Configured
<1> QED
    BY <1>2, <1>3, <1>4 DEF LifespanInv

LEMMA TickKnows ==
    ASSUME LifespanInv, Tick
    PROVE  LifespanInv'
<1>0. UNCHANGED <<config, phase, open, raised, health>>
    BY DEF Tick
<1>1. \A p \in Probes : probe'[p] \in Probe /\ ProbeKnows(p)'
    <2> SUFFICES ASSUME NEW p \in Probes
                 PROVE  probe'[p] \in Probe /\ ProbeKnows(p)'
        OBVIOUS
    <2>1. probe[p] \in Probe /\ ProbeKnows(p)
        BY DEF LifespanInv, TypeOK
    <2>2. CASE probe[p].pc # "running"
        <3>1. probe'[p] = probe[p]
            BY <2>2 DEF Tick
        <3> QED
            BY <1>0, <2>1, <2>2, <3>1 DEF ProbeKnows, Checked
    <2>3. CASE probe[p].pc = "running"
        <3> DEFINE l == [d \in Dependencies |->
                            IF probe[p].check[d] = "running"
                            THEN probe[p].left[d] - 1 ELSE probe[p].left[d]]
        <3>1. probe'[p] = [probe[p] EXCEPT !.age = @ + 1, !.left = l]
            BY <2>1, <2>3 DEF Tick
        <3>2. /\ probe[p].left \in [Dependencies -> 0..CheckTimeout]
              /\ probe[p].age \in Nat
            BY <2>1, ProbeShape
        <3>3. /\ \E d \in Dependencies : probe[p].check[d] = "running"
              /\ \A d \in Dependencies :
                    probe[p].check[d] = "running" => probe[p].left[d] > 0
            BY <2>3 DEF Tick
        <3>4. l \in [Dependencies -> 0..CheckTimeout]
            BY <3>2, <3>3, LifespanAssumption
        <3>5. \A d \in Dependencies :
                probe[p].check[d] = "running" => l[d] = probe[p].left[d] - 1
            OBVIOUS
        <3> HIDE DEF l
        <3>6. /\ probe'[p] \in Probe
              /\ probe'[p].pc = "running" /\ probe'[p].check = probe[p].check
              /\ probe'[p].left = l /\ probe'[p].age = probe[p].age + 1
              /\ probe'[p].seen = probe[p].seen
            <4> DEFINE a == probe[p].age + 1
            <4>1. a \in Nat
                BY <3>2
            <4>2. probe'[p] = [probe[p] EXCEPT !.age = a, !.left = l]
                BY <3>1
            <4> HIDE DEF a
            <4>3. /\ probe'[p] \in Probe
                  /\ probe'[p].pc = probe[p].pc /\ probe'[p].check = probe[p].check
                  /\ probe'[p].seen = probe[p].seen
                  /\ probe'[p].left = l /\ probe'[p].age = a
                BY <2>1, <3>4, <4>1, <4>2 DEF Probe
            <4> QED
                BY <2>3, <4>3 DEF a
        <3>7. \A d \in Dependencies :
                probe[p].check[d] = "running" =>
                    /\ probe[p].age + probe[p].left[d] = CheckTimeout
                    /\ probe[p].age + 1 + l[d] = CheckTimeout
            BY <2>1, <2>3, <3>2, <3>5, LifespanAssumption DEF ProbeKnows
        <3>8. probe[p].age + 1 <= CheckTimeout
            BY <3>2, <3>3, <3>7, LifespanAssumption
        <3> QED
            BY <1>0, <2>1, <2>3, <3>6, <3>7, <3>8 DEF ProbeKnows, Checked
    <2> QED
        BY <2>2, <2>3
<1>2. TypeOK'
    BY <1>0, <1>1 DEF TypeOK, LifespanInv, Tick
<1>3. HeldInPhase'
    BY <1>0 DEF LifespanInv, HeldInPhase, Configured
<1> QED
    BY <1>1, <1>2, <1>3 DEF LifespanInv

-----------------------------------------------------------------------------
(* The invariant and what follows from it.                                 *)

\* The inductive invariant holds for every configuration, any number of
\* concurrent probes and every timeout.
THEOREM LifespanInvariant == Spec => []LifespanInv
<1>1. Init => LifespanInv
    <2> SUFFICES ASSUME Init PROVE LifespanInv
        OBVIOUS
    <2>1. TypeOK
        BY IdleShape DEF Init, TypeOK, Starting
    <2>2. \A p \in Probes : ProbeKnows(p)
        <3>1. \A p \in Probes : probe[p] = Idle
            BY DEF Init
        <3>2. Idle.pc = "idle" /\ Idle.age = 0
            BY DEF Idle
        <3>3. \A p \in Probes : probe[p].pc = "idle" /\ probe[p].age = 0
            BY <3>1, <3>2
        <3>4. 0 <= CheckTimeout
            BY LifespanAssumption
        <3> QED
            BY <3>3, <3>4 DEF ProbeKnows
    <2> QED
        BY <2>1, <2>2, HeldInit DEF LifespanInv
<1>2. LifespanInv /\ [Next]_vars => LifespanInv'
    <2> SUFFICES ASSUME LifespanInv, [Next]_vars PROVE LifespanInv'
        OBVIOUS
    <2>1. CASE LifeStep \/ Stop
        BY <2>1, LifeStepHeld, LifeFrame DEF LifespanInv, ProbeKnows, Checked
    <2>2. ASSUME NEW p \in Probes, ProbeBegins(p) PROVE LifespanInv'
        BY <2>2, BeginsKnows
    <2>3. ASSUME NEW p \in Probes, ProbeStep(p) PROVE LifespanInv'
        <3>1. CASE ProbeAnswers(p)
            BY <3>1, AnswersKnows
        <3>2. ASSUME NEW d \in Dependencies, CheckSucceeds(p, d) PROVE LifespanInv'
            BY <3>2, FoundKnows DEF CheckSucceeds
        <3>3. ASSUME NEW d \in Dependencies, CheckRaises(p, d) \/ CheckTimesOut(p, d)
              PROVE  LifespanInv'
            BY <3>3, FoundKnows DEF CheckRaises, CheckTimesOut
        <3> QED
            BY <2>3, <3>1, <3>2, <3>3 DEF ProbeStep
    <2>4. ASSUME NEW p \in Probes, ProbeGone(p) PROVE LifespanInv'
        BY <2>4, GoneKnows
    <2>5. ASSUME NEW d \in Dependencies, NEW h \in Health, Change(d, h)
          PROVE  LifespanInv'
        BY <2>5, ChangeKnows
    <2>6. CASE Tick
        BY <2>6, TickKnows
    <2>7. CASE UNCHANGED vars
        BY <2>7 DEF vars, LifespanInv, TypeOK, HeldInPhase, Configured, ProbeKnows,
            Checked
    <2> QED
        BY <2>1, <2>2, <2>3, <2>4, <2>5, <2>6, <2>7 DEF Next
<1> QED
    BY <1>1, <1>2, PTL DEF Spec

\* Type correctness of lifespan and readiness.
THEOREM TypeCorrect == Spec => []TypeOK
<1>1. LifespanInv => TypeOK
    BY DEF LifespanInv
<1> QED
    BY <1>1, LifespanInvariant, PTL

\* For every configuration, and wherever the start or a release fails: what
\* was acquired is released, except a resource whose own release raised and
\* those the finally block did not reach after it, and requests are served
\* with everything that is configured.
THEOREM LeaksNothing == Spec => []NothingLeaks
<1>1. LifespanInv => NothingLeaks
    BY DEF LifespanInv, HeldInPhase, NothingLeaks
<1> QED
    BY <1>1, LifespanInvariant, PTL

\* For any number of concurrent probes, 200 is answered only if both
\* dependencies are configured and answered during the probe.
THEOREM ReadyIsTruthful == Spec => []ReadyTruthful
<1>1. LifespanInv => ReadyTruthful
    BY DEF LifespanInv, ProbeKnows, ReadyTruthful
<1> QED
    BY <1>1, LifespanInvariant, PTL

\* For every timeout, a probe takes no longer than one check may.
THEOREM ProbesBounded == Spec => []ProbeBounded
<1>1. LifespanInv => ProbeBounded
    BY DEF LifespanInv, ProbeKnows, ProbeBounded
<1> QED
    BY <1>1, LifespanInvariant, PTL

=============================================================================
