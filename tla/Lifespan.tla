------------------------------ MODULE Lifespan ------------------------------
(***************************************************************************)
(* One life of the application (gateway/app/main.py, lifespan): resources  *)
(* acquired one after the other, any of which may fail, and released in    *)
(* the finally block, where a release may fail as well; and, while it      *)
(* serves, readiness probes (gateway/app/readiness.py) that check database *)
(* and Redis concurrently under a timeout while these come and go.         *)
(***************************************************************************)
EXTENDS Naturals

CONSTANTS
    Probes,         \* requests of /ready that may be under way at once
    CheckTimeout    \* READINESS_CHECK_TIMEOUT_SECONDS, in ticks

ASSUME LifespanAssumption == CheckTimeout \in Nat \ {0}

Dependencies == {"database", "redis"}

Health == {"up", "down", "hung"}

Resources == {"redis_client", "metrics_server", "database_engine", "http_client"}

\* What the environment may ask for besides Redis and the HTTP client.
Options == {"metrics", "database", "verify_database", "verify_redis"}

VARIABLES
    config,    \* the options of this life
    phase,     \* where lifespan() is
    open,      \* resources that hold sockets, threads or connections
    raised,    \* resources whose release has raised
    health,    \* health[d]: dependency d answers, refuses or hangs
    probe      \* probe[p]: the readiness probe in slot p

vars == <<config, phase, open, raised, health, probe>>

Starting == {"settings", "start_metrics", "create_engine", "verify_database",
             "verify_redis", "open_http"}

Stopping == {"close_http", "close_metrics", "close_engine", "close_redis"}

\* check[d] is what _run_dependency_check of d has found so far, left[d] the
\* time it has left; age is the age of the probe; seen is history: the
\* dependencies that answered at some time during the probe.
Probe ==
    [pc : {"idle", "running", "ready", "not_ready"},
     check : [Dependencies -> {"waiting", "running", "ok", "unavailable"}],
     left : [Dependencies -> 0..CheckTimeout],
     age : Nat, seen : SUBSET Dependencies]

Idle ==
    [pc |-> "idle", check |-> [d \in Dependencies |-> "waiting"],
     left |-> [d \in Dependencies |-> 0], age |-> 0, seen |-> {}]

Init ==
    /\ config \in SUBSET Options
    /\ phase = "settings"
    /\ open = {}
    /\ raised = {}
    /\ health \in [Dependencies -> Health]
    /\ probe = [p \in Probes |-> Idle]

Configured(r) ==
    CASE r = "metrics_server" -> "metrics" \in config
      [] r = "database_engine" -> "database" \in config
      [] OTHER -> TRUE

-----------------------------------------------------------------------------
(* lifespan(): acquisition.                                                *)

\* Resource r is acquired if it is configured, and the next step follows.
Acquire(from, r, to) ==
    /\ phase = from
    /\ open' = IF Configured(r) THEN open \cup {r} ELSE open
    /\ phase' = to
    /\ UNCHANGED <<config, raised, health, probe>>

\* Settings are read and refused: nothing has been acquired.
SettingsRefused ==
    /\ phase = "settings"
    /\ phase' = "exited"
    /\ UNCHANGED <<config, open, raised, health, probe>>

\* The Redis client is created before the try block.
CreateRedis == Acquire("settings", "redis_client", "start_metrics")

StartMetrics == Acquire("start_metrics", "metrics_server", "create_engine")

CreateEngine ==
    Acquire("create_engine", "database_engine",
            IF {"database", "verify_database"} \subseteq config
            THEN "verify_database" ELSE "verify_redis")

VerifyDatabase ==
    /\ phase = "verify_database"
    /\ health["database"] = "up"
    /\ phase' = "verify_redis"
    /\ UNCHANGED <<config, open, raised, health, probe>>

VerifyRedis ==
    /\ phase = "verify_redis"
    /\ "verify_redis" \in config => health["redis"] = "up"
    /\ phase' = "open_http"
    /\ UNCHANGED <<config, open, raised, health, probe>>

OpenHttp == Acquire("open_http", "http_client", "serving")

\* Mutant: the exception leaves lifespan() past the finally block.
StartFails_NoFinally ==
    /\ \/ phase = "start_metrics" /\ Configured("metrics_server")
       \/ phase = "create_engine" /\ Configured("database_engine")
       \/ phase = "verify_database"
       \/ phase = "verify_redis" /\ "verify_redis" \in config
       \/ phase = "open_http"
    /\ phase' = "exited"
    /\ UNCHANGED <<config, open, raised, health, probe>>

\* A step inside the try block raises or is cancelled: the metrics port is
\* taken, the database settings are refused, a dependency does not answer,
\* the HTTP client cannot be created or entered.
StartFails ==
    /\ \/ phase = "start_metrics" /\ Configured("metrics_server")
       \/ phase = "create_engine" /\ Configured("database_engine")
       \/ phase = "verify_database"
       \/ phase = "verify_redis" /\ "verify_redis" \in config
       \/ phase = "open_http"
    /\ phase' = "close_metrics"
    /\ UNCHANGED <<config, open, raised, health, probe>>

-----------------------------------------------------------------------------
(* lifespan(): release.                                                    *)

Release(from, r, to) ==
    /\ phase = from
    /\ open' = open \ {r}
    /\ phase' = to
    /\ UNCHANGED <<config, raised, health, probe>>

\* The server has answered its last request and shuts down.
Stop ==
    /\ phase = "serving"
    /\ \A p \in Probes : probe[p].pc # "running"
    /\ phase' = "close_http"
    /\ UNCHANGED <<config, open, raised, health, probe>>

\* The end of the async with; the finally block follows.
CloseHttp == Release("close_http", "http_client", "close_metrics")

CloseMetrics == Release("close_metrics", "metrics_server", "close_engine")

CloseEngine == Release("close_engine", "database_engine", "close_redis")

CloseRedis == Release("close_redis", "redis_client", "exited")

\* The release of r, which is held, raises or is cancelled.
Raises(from, r, to) ==
    /\ phase = from
    /\ r \in open
    /\ phase' = to
    /\ raised' = raised \cup {r}
    /\ UNCHANGED <<config, open, health, probe>>

\* Mutant: the async with is outside the try block.
CloseHttpFails_NoFinally == Raises("close_http", "http_client", "exited")

\* The exit of the async with raises inside the try block: the finally block
\* still runs.
CloseHttpFails == Raises("close_http", "http_client", "close_metrics")

\* A release of the finally block raises: nothing guards it, and the later
\* ones are skipped.
ReleaseFails ==
    \/ Raises("close_metrics", "metrics_server", "exited")
    \/ Raises("close_engine", "database_engine", "exited")
    \/ Raises("close_redis", "redis_client", "exited")

-----------------------------------------------------------------------------
(* /ready.                                                                 *)

Up == {d \in Dependencies : health[d] = "up"}

\* A dependency has a check if app.state has its client.
Checked(d) == d = "redis" \/ "database" \in config

\* Mutant: a dependency that is not configured is left out of the report.
FirstResult_Skipped(d) == IF Checked(d) THEN "running" ELSE "ok"

\* Without a check the result is there at once.
FirstResult(d) == IF Checked(d) THEN "running" ELSE "unavailable"

\* Mutant: Redis is checked after the database instead of concurrently.
Started_OneByOne(d) == d = "database"

\* asyncio.gather starts both checks.
Started(d) == TRUE

\* evaluate_readiness begins.
ProbeBegins(p) ==
    /\ phase = "serving"
    /\ probe[p] = Idle
    /\ probe' = [probe EXCEPT ![p] =
            [pc |-> "running",
             check |-> [d \in Dependencies |->
                            IF Started(d) THEN FirstResult(d) ELSE "waiting"],
             left |-> [d \in Dependencies |-> CheckTimeout],
             age |-> 0, seen |-> Up]]
    /\ UNCHANGED <<config, phase, open, raised, health>>

\* The result of one check; a check that was waiting for it starts.
Found(p, d, result) ==
    probe' = [probe EXCEPT ![p].check = [e \in Dependencies |->
        IF e = d THEN result
        ELSE IF @[e] = "waiting" THEN FirstResult(e) ELSE @[e]]]

CheckSucceeds(p, d) ==
    /\ probe[p].pc = "running"
    /\ probe[p].check[d] = "running"
    /\ health[d] = "up"
    /\ Found(p, d, "ok")
    /\ UNCHANGED <<config, phase, open, raised, health>>

CheckRaises(p, d) ==
    /\ probe[p].pc = "running"
    /\ probe[p].check[d] = "running"
    /\ health[d] = "down"
    /\ Found(p, d, "unavailable")
    /\ UNCHANGED <<config, phase, open, raised, health>>

\* Mutant: the check has no timeout of its own.
CheckTimesOut_Never(p, d) ==
    /\ probe[p].pc = "running"
    /\ probe[p].check[d] = "running"
    /\ health[d] = "down"
    /\ Found(p, d, "unavailable")
    /\ UNCHANGED <<config, phase, open, raised, health>>

\* asyncio.timeout ends a check whose time is over.
CheckTimesOut(p, d) ==
    /\ probe[p].pc = "running"
    /\ probe[p].check[d] = "running"
    /\ probe[p].left[d] = 0
    /\ Found(p, d, "unavailable")
    /\ UNCHANGED <<config, phase, open, raised, health>>

\* Both results are there: 200 or 503.
ProbeAnswers(p) ==
    /\ probe[p].pc = "running"
    /\ \A d \in Dependencies : probe[p].check[d] \in {"ok", "unavailable"}
    /\ probe' = [probe EXCEPT ![p].pc =
            IF \A d \in Dependencies : probe[p].check[d] = "ok"
            THEN "ready" ELSE "not_ready"]
    /\ UNCHANGED <<config, phase, open, raised, health>>

ProbeGone(p) ==
    /\ probe[p].pc \in {"ready", "not_ready"}
    /\ probe' = [probe EXCEPT ![p] = Idle]
    /\ UNCHANGED <<config, phase, open, raised, health>>

\* A dependency fails, hangs or comes back.
Change(d, h) ==
    /\ health[d] # h
    /\ health' = [health EXCEPT ![d] = h]
    /\ probe' = [p \in Probes |->
            IF probe[p].pc = "running" /\ h = "up"
            THEN [probe[p] EXCEPT !.seen = @ \cup {d}] ELSE probe[p]]
    /\ UNCHANGED <<config, phase, open, raised>>

\* Mutant: a check may outlive its timeout.
Tick_Late ==
    /\ probe' = [p \in Probes |->
            IF probe[p].pc # "running" THEN probe[p]
            ELSE [probe[p] EXCEPT
                !.left = [d \in Dependencies |->
                    IF probe[p].check[d] = "running" THEN @[d] - 1 ELSE @[d]]]]
    /\ UNCHANGED <<config, phase, open, raised, health>>

\* Time passes for the checks under way; asyncio.timeout ends a check when
\* its time is over, and the event loop answers without delay.
Tick ==
    /\ \E p \in Probes : probe[p].pc = "running"
    /\ \A p \in Probes : probe[p].pc = "running" =>
        /\ \E d \in Dependencies : probe[p].check[d] = "running"
        /\ \A d \in Dependencies :
            probe[p].check[d] = "running" => probe[p].left[d] > 0
    /\ probe' = [p \in Probes |->
            IF probe[p].pc # "running" THEN probe[p]
            ELSE [probe[p] EXCEPT
                !.age = @ + 1,
                !.left = [d \in Dependencies |->
                    IF probe[p].check[d] = "running" THEN @[d] - 1 ELSE @[d]]]]
    /\ UNCHANGED <<config, phase, open, raised, health>>

LifeStep ==
    \/ CreateRedis
    \/ StartMetrics
    \/ CreateEngine
    \/ VerifyDatabase
    \/ VerifyRedis
    \/ OpenHttp
    \/ SettingsRefused
    \/ StartFails
    \/ CloseHttp
    \/ CloseHttpFails
    \/ CloseMetrics
    \/ CloseEngine
    \/ CloseRedis
    \/ ReleaseFails

ProbeStep(p) ==
    \/ \E d \in Dependencies :
        CheckSucceeds(p, d) \/ CheckRaises(p, d) \/ CheckTimesOut(p, d)
    \/ ProbeAnswers(p)

Next ==
    \/ LifeStep
    \/ Stop
    \/ \E p \in Probes :
        \/ ProbeBegins(p)
        \/ ProbeStep(p)
        \/ ProbeGone(p)
    \/ \E d \in Dependencies, h \in Health : Change(d, h)
    \/ Tick

Spec == Init /\ [][Next]_vars

\* The event loop runs and time passes; a dependency may hang for ever, and
\* so may the steps of lifespan() that await one (engine.dispose() has no
\* timeout).
FairSpec ==
    /\ Spec
    /\ WF_vars(Tick)
    /\ \A p \in Probes : WF_vars(ProbeStep(p))

-----------------------------------------------------------------------------
(* Properties.                                                             *)

\* Every variable has the shape the code gives it.
TypeOK ==
    /\ config \subseteq Options
    /\ phase \in Starting \cup {"serving"} \cup Stopping \cup {"exited"}
    /\ open \subseteq Resources
    /\ raised \subseteq Resources
    /\ health \in [Dependencies -> Health]
    /\ probe \in [Probes -> Probe]

\* What the finally block does not reach once the release of r has raised.
SkippedAfter(r) ==
    CASE r = "metrics_server" -> {"database_engine", "redis_client"}
      [] r = "database_engine" -> {"redis_client"}
      [] OTHER -> {}

\* However far the start came, what was acquired has been released when
\* lifespan() is over, except a resource whose own release raised and those
\* whose release comes after it in the finally block; the HTTP client takes no
\* other with it.  Requests are served only with everything that is configured
\* (main.py:167-244).
NothingLeaks ==
    /\ phase = "serving" => open = {r \in Resources : Configured(r)}
    /\ phase = "exited" =>
        \A r \in open : r \in raised \/ \E f \in raised : r \in SkippedAfter(f)

\* /ready answers 200 only if both dependencies are configured and each
\* answered at some time during the probe (readiness.py:65-144).
ReadyTruthful ==
    \A p \in Probes :
        probe[p].pc = "ready" => "database" \in config /\ probe[p].seen = Dependencies

\* A probe takes no longer than one check may, whichever dependencies hang:
\* "PostgreSQL and Redis are checked concurrently to keep the readiness probe
\* bounded." (readiness.py:101-102).
ProbeBounded == \A p \in Probes : probe[p].age <= CheckTimeout

\* A probe is answered even if the dependencies hang for ever
\* (readiness.py:80-87).
ProbesEnd ==
    \A p \in Probes : probe[p].pc = "running" ~> probe[p].pc \in {"ready", "not_ready"}

=============================================================================
