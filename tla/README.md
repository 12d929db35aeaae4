# Verification of the secure API gateway

TLA+ models of the parts of the gateway in which concurrency, failure and time
meet: the circuit breaker and the upstream executor, the Redis token bucket, the
temporary lock of accounts, registration and role administration over PostgreSQL,
the admission of proxied requests, and the life of the application with its
readiness probes. TLC checks them on small instances; TLAPS proves
the safety properties for every value of the constants. `PROJECT.json` lists
components, runs, mutants, hazards, findings and theorems, and maps every
definition to the source lines it models.

## The system

The gateway is one asyncio process (FastAPI). A proxied request is
authenticated, rate-limited through Redis, authorized against PostgreSQL and sent
upstream through a retrying executor guarded by one circuit breaker per service.
A login is limited per address, checked against a per-account lock in Redis,
verified, and recorded. Refusals and administrative changes are audited on a
best-effort basis.

| Component | State | Operations | Interacts with | What is hard | What makes it correct |
|---|---|---|---|---|---|
| Circuit breaker (`proxy/resilience.py`) | state, failure streak, opening time, probe flag, generation | before_request, record_success, record_failure, record_neutral | executor | completions of calls admitted under an older state; the moment the cooldown ends | one probe at a time; verdicts count only for the circuit that admitted the call; the cooldown is respected |
| Upstream executor (`proxy/executor.py`) | per task: permit, attempts | execute | breaker, httpx, router | cancellation at any await, retries, unforeseen exceptions | calls end, permits are returned, only safe requests are repeated |
| Token bucket (`rate_limit/scripts.py`, `service.py`, `models.py`) | a Redis hash with TTL | check | Redis, proxy and login pipelines | clock read before the await; reordered, late, lost scripts; expiry; restart | bounded budget, sufficient Retry-After |
| Account lock (`auth/router.py`, `rate_limit/login*.py`) | a Redis hash with TTL | check_lock, record_failure, reset | Redis, user store | three scripts with a password hash in between | a lock keeps out, is not altered, and ends when announced |
| Proxy admission (`proxy/router.py`, `*/dependencies.py`, `observability/middleware.py`) | the request, its counters | dependencies in order, upstream call | all of the above, audit | failure of each backend, rights withdrawn meanwhile, cancellation | nothing is forwarded without right and token; a decision reaches the client; counters are never ahead of what happened |
| Role administration (`authorization/*`, `database/authorization_repository.py`) | table user_roles | list, assign, remove | PostgreSQL, audit | commits of unknown outcome, concurrent administrators, a bounded pool, crashes | answers agree with the store; the trail tells the truth |
| User store (`auth/repository.py`, `database/user_repository.py`) | table users | register, look up | PostgreSQL | racing registrations | one account per name, with its default role |
| Audit (`audit/*`, `database/audit_repository.py`) | table audit_events | record | everything | fails while a decision is being made | never changes a decision |
| Lifespan (`main.py`) | Redis client, metrics server, engine, HTTP client | start, stop | everything | one step of several fails, a release raises | what was acquired is released, but for what a raising release leaves behind |
| Readiness (`readiness.py`) | the checks under way | /ready | PostgreSQL, Redis | hanging dependencies, two checks at once | truthful, bounded, always answered |
| Tokens, configuration, metrics, headers, registry, migrations, demonstration services, tools | - | - | - | - | see "Not modelled" |

## Modules

| Module | Models |
|---|---|
| `CircuitBreaker` | `ServiceCircuitBreaker` as a data type: a record and one operator per method |
| `UpstreamExecutor` | `ResilientUpstreamExecutor.execute` by concurrent tasks over one breaker per service (extends `CircuitBreaker`) |
| `CircuitContract` | abstract specification of executor and breakers: no clocks, generations, permits or retries |
| `TokenBucket` | the Lua script and `RedisRateLimiter.check` for one identity |
| `LoginProtection` | `issue_access_token` over the three login scripts for one account |
| `AuthorizationStore` | abstract specification of accounts and role assignments: each change is one step; with the roles and permissions the RBAC migration seeds |
| `RoleAdministration` | registration and the role endpoints by concurrent requests over PostgreSQL transactions; implements `AuthorizationStore` |
| `ProxyAdmission` | concurrent proxied requests through middleware and dependencies to the upstream call; built on `AuthorizationStore` |
| `Lifespan` | start and stop of the application, and readiness probes while it serves |
| `MC*` | symmetry sets and constants for TLC |
| `*Proofs` | the proofs about the module they are named after (`CircuitContractProofs`: that executor and breakers implement the contract, and what follows for half-open circuits) |
| `CountingLemmas` | how a cardinality changes when one member may come or go; used by the proofs that count requests |

`ProxyAdmission` composes by contract: of role administration it sees the steps of
`AuthorizationStore`, of the limiter a bucket of tokens, of the executor that a
call is made, answers, fails or is refused by an open circuit.

**Executor.** A task is suspended in two places, inside `client.request` and
inside the backoff sleep; what happens between two suspensions is one action. The
methods of the breaker hold an `asyncio.Lock` but contain no await, so the lock
is never contended and each method is one indivisible step. `Admit`/`Reject` are
`before_request` (executor.py:184-208) and the start of the first attempt;
`BackOff` and `Retry` the retry branch (225-252); `Complete` the recording of the
verdict together with the return or raise (254-299); `Cancel` the handler of
`CancelledError` (306-313); `Escape` an exception no handler names. The results of
`client.request` are classes of results: `connect_error` is ConnectError and
ConnectTimeout, `exchange_error` every other RequestError except PoolTimeout.
A backoff of zero seconds does not suspend in the code; in the model it is still
two actions, which only adds interleavings. The branch of `before_request` for a
half-open circuit without a probe in flight is modelled and, as
`CircuitConsistent` shows, never taken. `exchanged` in a call is a history
variable.

**Token bucket.** The unit of tokens is what one tick of the clock refills, so
that the refill of a delay is the delay; floating-point rounding is thereby left
out. `Send` reads the clock as service.py:79 does; the script runs later
(`Answer`, `Unheard`), maybe after the client gave up (`TimeOut`), or never
(`Lose`). `MaxDelay` bounds how old a reading is when its script runs; the proofs
need it to be at most the time an empty bucket takes to fill (60 s against socket
timeouts of 2 s). One call sends one command: the client is made with
`retry_on_timeout=False` and no retry policy (client.py:43-62). Redis keeps
nothing on disk (`--save ""`, `--appendonly no` in compose.yaml), so a restart
empties it. Eviction of a bucket under memory pressure is not modelled here; its
effect is that of a restart for one identity. `granted`, `allowance` and
`rewound` are history variables.

**Account lock.** Each script is one action with the clock reading its caller
took; an attempt is suspended in every script and while the password is verified.
`GiveUp` is the RedisError of the caller, whose script may still run. `Restart`
and `Evict` (allkeys-lru in compose.yaml) lose the hash. Policies are in whole
seconds, as `LoginProtectionPolicy` has them. `fresh` is a history field: no lock
was set since the attempt was admitted or refused.

**Role administration.** A request is suspended in every database call, and each
such call is one action: the permission query, the lookup of the target, the
listing, the opening of the session with the lookup of the role, the statement,
the COMMIT, and the audit event in a session of its own. A session is held from
`OpenSession` to the end of the COMMIT and by nothing else, so a short read needs
one only for the moment of its action (`Free`). PostgreSQL runs at READ COMMITTED:
`INSERT ... ON CONFLICT DO NOTHING` and the unique constraint on the name wait for
another transaction that has written the row (`Taken`), a DELETE does not see a row
that is not committed. A COMMIT whose confirmation is lost (`CommitFails`) leaves
a transaction the server settles later, either way (`LateCommit`, `LateAbort`); so
does `Crash`, which ends every request of the gateway. Accounts are never deleted
by the code, so the second lookup of the account inside the repository always
succeeds. `applied` is a history field.

**Proxy admission.** FastAPI resolves `get_current_user`,
`enforce_proxy_rate_limit` and `enforce_proxy_authorization` in this order (the
order of the parameters of `proxy_request`, the user being needed by both and
resolved once); each is an action for success and one or more for its failures. `Refuse` builds the audit
event before anything is stored; `Unhandled` is an exception the router does not
name, which the middleware turns into 500; `Cancel` is the client that goes away,
delivered as `CancelledError` at any suspension. `Deactivate` stands for an operator who
clears `is_active` in the database: the code reads the flag and never writes it.
`Counted` calls the best-effort recorders, each of which may lose its count without
an error (metrics.py:483-629). The counter of limiter decisions is left out, no
property being about it. A token may be gone although the limiter's answer never
came, because Redis failed or the request was cancelled meanwhile.
`forwarded` and `lapsed` are history fields; `lost` (counts the recorders lost) and
`refilled` (tokens put back) are history variables. A deployment without a database has
no authorization store and is left out.

**Lifespan.** Each acquisition and release of `lifespan()` is an action, in the
code's order, with its failure; `StartFails` goes where the finally block
begins. The HTTP client is acquired and released by an async with inside the try
block, so that its failure, too, leads to the finally block (`CloseHttpFails`); a
failure inside the finally block ends it (`ReleaseFails`). `raised` remembers whose
release failed. A probe runs its two checks concurrently (`asyncio.gather`), each under
its own `asyncio.timeout`; dependencies go down, hang and come back at any time.
Time passes only while no check is overdue: `asyncio.timeout` ends a check when
its time is over, and the event loop is assumed not to be blocked. `seen` and `age`
are history fields.

## Runs

| Run | Instance | Result |
|---|---|---|
| `executor_safety` | 1 circuit, 3 calls, GET and POST, every result, threshold 2, cooldown 1.5 s, 3 attempts, clock to 7 | holds |
| `executor_recovery` | 2 circuits, 2 calls, handled results, fairness | holds, liveness and refinement |
| `executor_probe_leak` | 1 circuit, 1 call, every result, fairness | `HalfOpenResolves` violated |
| `executor_retry_while_open` | 1 circuit, 2 calls | `NoNetworkCallWhileOpen` violated |
| `token_bucket_safety` | concurrent checks, one restart | holds |
| `token_bucket_reordered` | 2 checks, no restart | `BurstPlusRefill` violated |
| `login_safety` | 3 attempts, threshold 2, lock longer than the failure window, one loss of the hash | holds |
| `login_lock_lifted` | 2 attempts, threshold 1 | `LockLasts` violated |
| `role_administration` | 3 requests out of register, assign, remove, assign an unknown role, list; 2 sessions; fairness | holds, liveness and refinement |
| `proxy_admission` | 2 requests of one user, who may be registered, promoted, demoted and deactivated; a bucket of 1; a registered service and a name that is not registered and no event accepts; fairness | holds, liveness |
| `proxy_outcome_preserved` | 1 request, a bucket of 1 | `OutcomePreserved` violated |
| `lifespan` | every configuration, one probe after another, checks of 3 ticks, fairness | holds, liveness |

Every property of the passing runs has a mutant in `PROJECT.json`: a plausible
mistake in the code it is about, kept in the module beside the definition it
replaces, under which TLC finds the property violated.

*Bounds.* Two concurrent calls suffice for every conflict between a circuit and a
late completion; the third lets a stale call, a probe and a newcomer coexist. The
clock runs far enough for a circuit to open, be probed and open again, for a second
lock to be set after the first is over, and for a bucket to expire and be created
again, so that late completions and scripts meet a later life of what they were
meant for. A cooldown that
is not a whole number of seconds makes rounding visible. `MaxTime`, `MaxLosses`
and `MaxRestarts` cap the only counters that grow without bound. In
`role_administration` three requests let an assignment and a removal of one row
meet a registration, or two registrations of one name a listing, and with two
sessions a third request must wait for one; crashes and failing commits are not
limited. In `proxy_admission` two requests of one user contend for the only token;
requests do not meet in any other state, and everything that changes under way
(roles, account, bucket) does so without limit. Each request is sent at most once,
which bounds both runs. In `lifespan` probes share nothing but the health of the
dependencies, so one slot used again and again suffices; three ticks let
one check end while the other goes on.

*Symmetry* is used on tasks, requests and attempts in the safety runs only.

*Fairness.* `FairSpec` assumes weak fairness of each task's own progress: httpx
is configured with connect, read, write and pool timeouts, so an attempt ends,
and a sleep ends. Neither clients, cancellations nor the clock are assumed to do
anything. `HalfOpenResolves` and `CallsTerminate` rest on this. In
`RoleAdministration` the steps of a request and the settling of a transaction by
the server are weakly fair, faults and crashes are not: requests end although no
timeout frees a session or a row. In `ProxyAdmission` only what has a timeout of
its own is fair: the call of the limiter (socket timeouts of the Redis client,
rate_limit/client.py:47-52) and the upstream call (proxy/client.py:4-18; the executor
bounds the attempts, and a response is taken to be finite). A statement in
PostgreSQL has no timeout (database/client.py:30-49 limits connecting and waiting
for the pool), nor has the body of the request (proxy/router.py:106). So
`EndsOrWaits` does not say that every request ends: it says that one that does not
is left waiting for PostgreSQL or for its client. Arrivals, cancellations, refills
and administrators need do nothing. In `Lifespan` the event loop runs and time
passes for the probes; a dependency may hang for ever, and so may a start or a stop
that waits for one (`engine.dispose()` has no timeout), about whose end nothing is
claimed.

*Deadlock* is checked except in the runs whose requests are sent once
(`role_administration`, `proxy_admission`, `proxy_outcome_preserved`): when the last has ended, the
system may stop.

## What the violations show

1. `executor_probe_leak`: execute() records a verdict for `httpx.RequestError` and
   `CancelledError` only. Another exception raised during a probe leaves the
   circuit half open for ever.
2. `executor_retry_while_open`: the circuit is consulted once per call. The retry of a
   call admitted earlier is sent although the circuit is open, against
   README.md:846-848.
3. `token_bucket_reordered`: the script stores its caller's clock reading even when
   a later one is stored. Two scripts executed in the opposite order of their
   readings refill the same interval twice. `Budget` states, and the proof shows,
   that this is the only excess: it is bounded by the sum of the set-backs.
4. `login_lock_lifted`: a login that passed the check before the lock was set and
   succeeds after it deletes the lock.
5. `proxy_outcome_preserved`: a refusal is to be recorded "without changing an
   already-determined business outcome" (audit/dependencies.py:111-112), but before
   that the event is built from the path segment nobody has checked yet. For a name
   `SecurityAuditEvent` does not accept, a 429 or 503 of the limiter becomes 500.
   `DecisionStands` states, and the proof shows, that this is the only way a
   decision is altered, and that nothing is forwarded even then.

## Proofs

All theorems hold for every value of the constants that satisfies the named
assumptions (`BreakerAssumption`, `ExecutorAssumption`, `BucketAssumption`,
`LoginAssumption`, `StoreAssumption`, `OrdersAssumption`, `AdmissionAssumption`,
`LifespanAssumption`), which TLC evaluates in the runs of the modules that state them.

* **Executor** (`UpstreamExecutorProofs`). The inductive invariant `ExecutorInv`
  joins the types, `CircuitConsistent`, `PermitsMatchCircuit`, `SingleProbe`,
  `RetriesAreSafe` and `BackOffLeavesAttempt`. `SingleProbe` alone is not
  inductive: that a second probe cannot be admitted needs the probe flag to be set
  exactly while the circuit is half open, and that no late completion clears it
  needs every other permit to be of an older generation. `CooldownRespected` and
  `RetryAfterExact` follow from it with a lemma on rounding up. `AttemptsBounded`
  proves the loop variant behind `CallsTerminate`: every step of a call that goes
  on lowers `StepsLeft`, a natural number.
* **Contract** (`CircuitContractProofs`). `ContractHolds`: when `client.request` raises
  only what the code handles, executor and breakers implement `CircuitContract`
  under the mapping that keeps a circuit's phase, the calls whose permits are
  current, and the failure streak. Without the assumption it is false: that is the
  first violation. `HalfOpenProbed` is a consequence drawn from the contract
  alone: its steps never lose the one call a half-open circuit listens to
  (`ContractKeepsProbe`), and `PermitsMatchCircuit` says that this call is a probe.
* **Token bucket** (`TokenBucketProofs`). `Budget` becomes inductive as `BudgetInv`:
  while the hash exists the account is told from the last refill; while it does
  not, from every reading that may create it. Here the TTL matters: because the
  hash outlives two full refills and no reading is older than one, a script that
  finds no hash comes late enough.
* **Account lock** (`LoginProtectionProofs`). `LoginInv` joins the types, the age of
  readings and the four state properties. The key fact is that a reading is
  never ahead of the clock, so a caller that finds a lock over finds it over for
  good; `LockImmutable` follows from it.
* **Role administration** (`RoleAdministrationProofs`). `RoleInv` says of each
  request what it has found out and written (`Progress`) and what its answer and
  its row of the trail may tell (`Truthful`), and of each two that they are
  `Apart`: no two unsettled transactions are about the same row or name. Apartness
  is what makes the rest inductive: what a transaction is to do stays to be done
  while others commit (`OthersPending`), hence every commit, however late, is one
  step of the store (`ApplyIsStoreStep`). `StoreImplemented`, `OneAccount` and
  `TrailIsTruthful` follow. `ChangesAdd` needs the same fact once more: a commit
  always adds a row that is absent or removes one that is present, so each row's
  balance moves by one (`ApplyAddsUp`). `NobodyWaitsInACircle` counts the open
  sessions (`PoolInv`) and uses that an unsettled transaction belongs to a
  request that is committing or to nobody, so that it waits for nothing;
  `RequestsRunOnce` shows that every step takes a handler forward. The two are
  what `RequestsEnd` consists of besides fairness: somebody can go on, and nobody
  goes on for ever.
* **Proxy admission** (`ProxyAdmissionProofs`). `AdmissionInv` says what is known of
  a request at each point of the pipeline: the account is active, the service is
  registered, the permission is held, unless withdrawn since; nothing is decided
  before a refusal, and nothing is forwarded after one. `RightsAreHeld` turns the
  permission into roles with the table of the migration. `CountInv` relates
  counters and buckets to the requests. What it says of a counter is about `Tally`,
  the calls of its recorder, recorded or lost, because the counter alone may fall
  behind by any number; `SignalsAdd` is read off it. That upstream calls are
  recorded at most once each is not inductive by itself: the tally is compared with
  the requests that were forwarded and have left the call, because it moves when
  they leave it. `ForwardsPaid` weighs, user by user, the requests beyond the
  limiter against the tokens that have left the bucket: a request joins them only in
  the step that takes a token, a token may go without a request, and a refill is
  on record.
* **Lifespan** (`LifespanProofs`). `LifespanInv` says which resources are held in each
  phase (exactly, until the releases begin; then what may be left, and why), and
  relates the results of a probe to what it has seen, and the time its checks have
  left to its age.

The proofs that count requests do not assume that there are finitely many: that
only finitely many have begun is part of `CountInv` and `ChangeInv`, and holds
because one begins at a time.

Only model-checked is liveness, which the prover does not do: `CallsTerminate`,
`HalfOpenResolves`, `ProbesEnd`, `EndsOrWaits` and `RequestsEnd`. Every invariant, action
property and refinement of the passing runs is proved.

## Not modelled

* The address limit in front of a login: it is the token bucket again, and its
  refusals follow the pattern of `ProxyAdmission`.
* The lifetime of tokens against the state of accounts (a token is accepted or
  not), password hashing and token signing, which are library code, and
  `update_password_hash`, on which no other state depends.
* The in-memory user repository, which has no concurrency between its awaits, and
  the gateway without a database.
* Configuration: parsed once, sequentially, and covered by unit tests.
* Histograms, labels, the counters of limiter decisions and resilience events, log
  records, header and URL handling: no control that a property depends on.
* Column types, indexes and downgrades of the migrations; the demonstration services and the load
  tools, which are not part of the gateway.
* How SQLAlchemy and redis-py return a connection whose user is cancelled.

## Plan

1. Done: circuit breaker, executor, contract; token bucket; account lock; role
   administration and the store it implements; proxy admission; lifespan and
   readiness; their proofs.
2. Done: cardinality lemmas and the proofs of `ForwardsArePaid`, `SignalsAddUp` and
   `ChangesAddUp`; the safety halves of `CallsTerminate`, `HalfOpenResolves` and of
   `RequestsEnd`.
3. The same halves of `EndsOrWaits` and of `ProbesEnd`.
4. Eviction in `TokenBucket`; the address limit in front of `LoginProtection`.

The bucket of `ProxyAdmission` is not made an abstraction that `TokenBucket` refines:
it promises only that a token is there before it is taken, which would hold of
any limiter.
