--------------------------- MODULE ProxyAdmission ---------------------------
(***************************************************************************)
(* A proxied request on its way through the gateway: the middleware, the   *)
(* dependencies of proxy_request in the order FastAPI resolves them        *)
(* (get_current_user, enforce_proxy_rate_limit, enforce_proxy_authorization)*)
(* and the call of the upstream, with the audit event of each refusal.     *)
(*                                                                         *)
(* Requests run concurrently with each other and with role administration, *)
(* which changes accounts and grants as AuthorizationStore says.  A request*)
(* is suspended, and may be cancelled, in each call of a backend.          *)
(***************************************************************************)
EXTENDS AuthorizationStore, FiniteSets, Integers

CONSTANTS
    Requests,        \* requests, each sent at most once
    Methods,         \* HTTP methods they use
    ServiceNames,    \* first path segments they name
    Auditable,       \* the names SecurityAuditEvent accepts
    BucketSize       \* tokens of a user in the rate limiter

PROXY_READ_METHODS == {"GET", "HEAD", "OPTIONS"}

PROXY_WRITE_METHODS == {"POST", "PUT", "PATCH", "DELETE"}

ASSUME AdmissionAssumption ==
    /\ Methods \subseteq PROXY_READ_METHODS \cup PROXY_WRITE_METHODS
    /\ Auditable \subseteq ServiceNames
    /\ ProxyServices \cap ServiceNames \subseteq Auditable
    /\ BucketSize \in Nat

VARIABLES
    active,     \* accounts whose is_active is true
    bucket,     \* bucket[u]: tokens left to user u (module TokenBucket)
    request,    \* request[q]: the local state of request q
    metrics,    \* the counters of GatewayMetrics
    lost,       \* lost[c]: history, counts of c that were not recorded
    refilled    \* refilled[u]: history, tokens put back into u's bucket

vars == <<accounts, grants, active, bucket, request, metrics, lost, refilled>>

\* Where a request is suspended.
Working == {"authenticating", "limiting", "authorizing", "reading",
            "forwarding", "auditing"}

PastAuthentication == Working \ {"authenticating"}

PastAuthorization == {"reading", "forwarding"}

\* decision is the status the gateway has decided on (0: none), answer the one
\* the client gets; forwarded and lapsed are history: the upstream was called,
\* and a right was withdrawn after the check that established it.
Request ==
    [pc : Working \cup {"answered", "cancelled"}, user : Users, method : Methods,
     service : ServiceNames, decision : Nat, answer : Nat,
     forwarded : BOOLEAN, lapsed : BOOLEAN]

Idle == [pc |-> "idle"]

\* The counter of the limiter's decisions is left out: no property needs it.
Counters == {"http_requests", "security_events", "upstream_requests"}

Init ==
    /\ StoreInit
    /\ active = accounts
    /\ bucket = [u \in Users |-> BucketSize]
    /\ request = [q \in Requests |-> Idle]
    /\ metrics = [c \in Counters |-> 0]
    /\ lost = [c \in Counters |-> 0]
    /\ refilled = [u \in Users |-> 0]

-----------------------------------------------------------------------------
(* Answers, refusals and what is recorded about them.                      *)

User(q) == request[q].user

\* f with the entries of S one higher.
Plus(f, S) == [x \in DOMAIN f |-> IF x \in S THEN f[x] + 1 ELSE f[x]]

\* record_*_best_effort of each counter of S: a recorder that is not there or
\* raises returns without an error, and its count is lost.
Counted(S) ==
    \E recorded \in SUBSET S :
        /\ metrics' = Plus(metrics, recorded)
        /\ lost' = Plus(lost, S \ recorded)

Go(q, pc) == request' = [request EXCEPT ![q].pc = pc]

\* dispatch: the answer leaves the middleware, counted and logged.
Answered(q, status) ==
    request' = [request EXCEPT ![q].pc = "answered", ![q].answer = status]

\* create_security_audit_event accepts the service name of the request.
CanAudit(q) == request[q].service \in Auditable

\* A refusal that is audited: the event is built first, and a name it does
\* not accept raises ValueError, which the middleware turns into 500; then
\* the security metric is counted and the event is logged and stored.
Refuse(q, status) ==
    \/ /\ CanAudit(q)
       /\ request' = [request EXCEPT ![q].pc = "auditing", ![q].decision = status]
       /\ Counted({"security_events"})
    \/ /\ ~CanAudit(q)
       /\ request' = [request EXCEPT ![q].pc = "answered", ![q].decision = status,
                                     ![q].answer = 500]
       /\ Counted({"http_requests"})

-----------------------------------------------------------------------------
(* The steps of a request.                                                 *)

\* The request arrives; decode_access_token accepts its token, and the
\* account is looked up.
Begin(q, u, m, s) ==
    /\ request[q] = Idle
    /\ u \in accounts
    /\ request' = [request EXCEPT ![q] =
            [pc |-> "authenticating", user |-> u, method |-> m, service |-> s,
             decision |-> 0, answer |-> 0, forwarded |-> FALSE, lapsed |-> FALSE]]
    /\ UNCHANGED <<accounts, grants, active, bucket, metrics, lost, refilled>>

\* decode_access_token does not accept the token: 401.
BeginUnauthenticated(q, u, m, s) ==
    /\ request[q] = Idle
    /\ request' = [request EXCEPT ![q] =
            [pc |-> "answered", user |-> u, method |-> m, service |-> s,
             decision |-> 0, answer |-> 401, forwarded |-> FALSE, lapsed |-> FALSE]]
    /\ Counted({"http_requests"})
    /\ UNCHANGED <<accounts, grants, active, bucket, refilled>>

\* get_current_user: the account is active.
Authenticate(q) ==
    /\ request[q].pc = "authenticating"
    /\ User(q) \in active
    /\ Go(q, "limiting")
    /\ UNCHANGED <<accounts, grants, active, bucket, metrics, lost, refilled>>

\* get_current_user: the account is not active (401) or its store fails (503).
AuthenticateFails(q) ==
    /\ request[q].pc = "authenticating"
    /\ \/ User(q) \notin active /\ Answered(q, 401)
       \/ Answered(q, 503)
    /\ Counted({"http_requests"})
    /\ UNCHANGED <<accounts, grants, active, bucket, refilled>>

\* is_registered_service, then the action that the method needs.
Registered(q) == request[q].service \in ProxyServices

\* Mutant: PATCH and PUT count as reading.
resolve_proxy_permission_Patch(q) ==
    ProxyCode(request[q].service,
              IF request[q].method \in {"POST", "DELETE"} THEN "write" ELSE "read")

resolve_proxy_permission(q) ==
    ProxyCode(request[q].service,
              IF request[q].method \in PROXY_READ_METHODS THEN "read" ELSE "write")

\* Mutant: a bucket with no token left still allows one request.
LimitAllows_OffByOne(q) ==
    /\ request[q].pc = "limiting"
    /\ bucket[User(q)] >= 0
    /\ Registered(q)
    /\ bucket' = [bucket EXCEPT ![User(q)] = @ - 1]
    /\ Go(q, "authorizing")
    /\ UNCHANGED <<metrics, lost>>
    /\ UNCHANGED <<accounts, grants, active, refilled>>

\* The script takes a token from the bucket of user u.
TokenTaken(u) ==
    /\ bucket[u] > 0
    /\ bucket' = [bucket EXCEPT ![u] = @ - 1]

\* The limiter takes a token; the service must be registered.
LimitAllows(q) ==
    /\ request[q].pc = "limiting"
    /\ TokenTaken(User(q))
    /\ \/ /\ Registered(q)
          /\ Go(q, "authorizing")
          /\ UNCHANGED <<metrics, lost>>
       \/ /\ ~Registered(q)
          /\ Answered(q, 404)
          /\ Counted({"http_requests"})
    /\ UNCHANGED <<accounts, grants, active, refilled>>

LimitRejects(q) ==
    /\ request[q].pc = "limiting"
    /\ bucket[User(q)] = 0
    /\ Refuse(q, 429)
    /\ UNCHANGED <<accounts, grants, active, bucket, refilled>>

\* Mutant: the limiter is skipped when Redis is away.
LimitUnavailable_Open(q) ==
    /\ request[q].pc = "limiting"
    /\ Registered(q)
    /\ Go(q, "authorizing")
    /\ UNCHANGED <<metrics, lost>>
    /\ UNCHANGED <<accounts, grants, active, bucket, refilled>>

\* Redis fails: 503; the token may be gone.
LimitUnavailable(q) ==
    /\ request[q].pc = "limiting"
    /\ UNCHANGED bucket \/ TokenTaken(User(q))
    /\ Refuse(q, 503)
    /\ UNCHANGED <<accounts, grants, active, refilled>>

\* The permission is there; the body is read next.
AuthorizeAllows(q) ==
    /\ request[q].pc = "authorizing"
    /\ has_permission(User(q), resolve_proxy_permission(q))
    /\ Go(q, "reading")
    /\ UNCHANGED <<accounts, grants, active, bucket, metrics, lost, refilled>>

\* The permission is missing (403) or its store fails (503).
AuthorizeFails(q) ==
    /\ request[q].pc = "authorizing"
    /\ \E status \in {403, 503} :
        /\ status = 403 => ~has_permission(User(q), resolve_proxy_permission(q))
        /\ request' = [request EXCEPT ![q].pc = "auditing", ![q].decision = status]
    /\ Counted({"security_events"})
    /\ UNCHANGED <<accounts, grants, active, bucket, refilled>>

\* The body is here: the executor calls the upstream.
Forward(q) ==
    /\ request[q].pc = "reading"
    /\ request' = [request EXCEPT ![q].pc = "forwarding", ![q].forwarded = TRUE]
    /\ UNCHANGED <<accounts, grants, active, bucket, metrics, lost, refilled>>

\* The circuit is open: 503, and the upstream is not called.
CircuitOpen(q) ==
    /\ request[q].pc = "reading"
    /\ Answered(q, 503)
    /\ Counted({"http_requests"})
    /\ UNCHANGED <<accounts, grants, active, bucket, refilled>>

\* Mutant: a failed call is tried again, without an end.
UpstreamEnds_Retried(q) ==
    /\ request[q].pc = "forwarding"
    /\ Go(q, "reading")
    /\ UNCHANGED <<accounts, grants, active, bucket, metrics, lost, refilled>>

\* The upstream answers (its status is passed on), times out or fails.
UpstreamEnds(q) ==
    /\ request[q].pc = "forwarding"
    /\ \E status \in {200, 502, 504} : Answered(q, status)
    /\ Counted({"upstream_requests", "http_requests"})
    /\ UNCHANGED <<accounts, grants, active, bucket, refilled>>

\* An exception nobody handles: 500 (the configured address of the service is
\* invalid, the client is gone while its body is read, or the executor raises
\* something that is not a RequestError).
Unhandled(q) ==
    /\ request[q].pc \in {"reading", "forwarding"}
    /\ Answered(q, 500)
    /\ Counted({"http_requests"})
    /\ UNCHANGED <<accounts, grants, active, bucket, refilled>>

\* The event is stored, and the client gets the decision.
AuditStored(q) ==
    /\ request[q].pc = "auditing"
    /\ Answered(q, request[q].decision)
    /\ Counted({"http_requests"})
    /\ UNCHANGED <<accounts, grants, active, bucket, refilled>>

\* Mutant: a failure of the audit store ends in 500.
AuditLost_Raised(q) ==
    /\ request[q].pc = "auditing"
    /\ Answered(q, 500)
    /\ Counted({"http_requests"})
    /\ UNCHANGED <<accounts, grants, active, bucket, refilled>>

\* The audit store fails: a warning is logged, and the decision stands.
AuditLost(q) ==
    /\ request[q].pc = "auditing"
    /\ Answered(q, request[q].decision)
    /\ Counted({"http_requests"})
    /\ UNCHANGED <<accounts, grants, active, bucket, refilled>>

\* Mutant: the middleware catches the cancellation as well and counts it.
Cancel_Counted(q) ==
    /\ request[q].pc \in Working
    /\ Go(q, "cancelled")
    /\ Counted({"http_requests"})
    /\ UNCHANGED <<accounts, grants, active, bucket, refilled>>

\* The request is cancelled: CancelledError is no Exception, so that the
\* middleware neither counts nor logs it.  If the limiter was asked, the token
\* may be gone.
Cancel(q) ==
    /\ request[q].pc \in Working
    /\ \/ UNCHANGED bucket
       \/ request[q].pc = "limiting" /\ TokenTaken(User(q))
    /\ Go(q, "cancelled")
    /\ UNCHANGED <<accounts, grants, active, metrics, lost, refilled>>

-----------------------------------------------------------------------------
(* Meanwhile.                                                              *)

\* A registration creates an account, active from the start.
Register(u) ==
    /\ CreateUser(u)
    /\ active' = active \cup {u}
    /\ UNCHANGED <<bucket, request, metrics, lost, refilled>>

\* Role administration changes a row of user_roles.
ChangeRole(u, r) ==
    /\ AssignRole(u, r) \/ RemoveRole(u, r)
    /\ request' = [q \in Requests |->
            IF /\ request[q].pc \in PastAuthorization
               /\ ~PermittedBy(grants', User(q), resolve_proxy_permission(q))
            THEN [request[q] EXCEPT !.lapsed = TRUE]
            ELSE request[q]]
    /\ UNCHANGED <<active, bucket, metrics, lost, refilled>>

\* An operator of the database deactivates an account.
Deactivate(u) ==
    /\ u \in active
    /\ active' = active \ {u}
    /\ request' = [q \in Requests |->
            IF request[q].pc \in PastAuthentication /\ User(q) = u
            THEN [request[q] EXCEPT !.lapsed = TRUE]
            ELSE request[q]]
    /\ UNCHANGED <<accounts, grants, bucket, metrics, lost, refilled>>

\* Time refills the bucket.
Refill(u) ==
    /\ bucket[u] < BucketSize
    /\ bucket' = [bucket EXCEPT ![u] = @ + 1]
    /\ refilled' = [refilled EXCEPT ![u] = @ + 1]
    /\ UNCHANGED <<accounts, grants, active, request, metrics, lost>>

Step(q) ==
    \/ Authenticate(q)
    \/ AuthenticateFails(q)
    \/ LimitAllows(q)
    \/ LimitRejects(q)
    \/ LimitUnavailable(q)
    \/ AuthorizeAllows(q)
    \/ AuthorizeFails(q)
    \/ Forward(q)
    \/ CircuitOpen(q)
    \/ UpstreamEnds(q)
    \/ Unhandled(q)
    \/ AuditStored(q)
    \/ AuditLost(q)

Next ==
    \/ \E q \in Requests :
        \/ \E u \in Users, m \in Methods, s \in ServiceNames :
            Begin(q, u, m, s) \/ BeginUnauthenticated(q, u, m, s)
        \/ Step(q)
        \/ Cancel(q)
    \/ \E u \in Users :
        \/ Register(u)
        \/ \E r \in Roles : ChangeRole(u, r)
        \/ Deactivate(u)
        \/ Refill(u)

Spec == Init /\ [][Next]_vars

\* Where a request waits under a timeout of its own: the limiter's Redis client
\* and the HTTP client have them (rate_limit/client.py, proxy/client.py).  A
\* statement in PostgreSQL and the body of the client have none.
Timed == {"limiting", "forwarding"}

FairSpec ==
    /\ Spec
    /\ \A q \in Requests : WF_vars(request[q].pc \in Timed /\ Step(q))

-----------------------------------------------------------------------------
(* Properties.                                                             *)

\* Every variable has the shape the code gives it.
TypeOK ==
    /\ accounts \subseteq Users
    /\ grants \subseteq accounts \X Roles
    /\ active \subseteq accounts
    /\ bucket \in [Users -> 0..BucketSize]
    /\ request \in [Requests -> Request \cup {Idle}]
    /\ metrics \in [Counters -> Nat]
    /\ lost \in [Counters -> Nat]
    /\ refilled \in [Users -> Nat]

\* Whatever happens to roles and accounts meanwhile, a request that is past
\* the gate has every right it needs unless that right was withdrawn after
\* it was checked: a registered service, an active account and, for a method
\* that is not safe in the sense of HTTP, the role operator or admin
\* (authorization/dependencies.py:141-188 and 219 with the rows of the RBAC
\* migration).
RightsHeld ==
    \A q \in Requests :
        request[q].pc \in PastAuthorization =>
            /\ request[q].service \in ProxyServices
            /\ ~request[q].lapsed =>
                /\ User(q) \in active
                /\ \E r \in Roles :
                    /\ <<User(q), r>> \in grants
                    /\ r = "user" => request[q].method \in {"GET", "HEAD", "OPTIONS"}

\* Nothing goes beyond the limiter without a token, however Redis fails: the
\* requests of a user that the upstream was or may still be called for, and the
\* tokens still in the user's bucket, are never more than the bucket ever held
\* (rate_limit/dependencies.py:145-226).
ForwardsArePaid ==
    \A u \in Users :
        Cardinality({q \in Requests :
            /\ request[q].pc # "idle"
            /\ User(q) = u
            /\ request[q].forwarded \/ request[q].pc \in {"authorizing", "reading"}})
            + bucket[u] <= BucketSize + refilled[u]

\* A decision to refuse reaches the client as it was taken, whatever happens
\* to its audit event, unless the event cannot be built from the name of the
\* service; even then nothing is forwarded (audit/dependencies.py:105-193).
DecisionStands ==
    \A q \in Requests :
        request[q].pc = "answered" /\ request[q].decision # 0 =>
            /\ ~request[q].forwarded
            /\ \/ request[q].answer = request[q].decision
               \/ request[q].answer = 500 /\ request[q].service \notin Auditable

\* The counters are never ahead of what happened, and behind it only by the
\* counts their recorders lost: every answer is recorded or lost once and
\* nothing else is, a cancelled request least of all; so is every refusal whose
\* event could be built; and no upstream call is recorded that was not made
\* (middleware.py:155-235, metrics.py:483-629).
SignalsAddUp ==
    /\ metrics["http_requests"] + lost["http_requests"] =
        Cardinality({q \in Requests : request[q].pc = "answered"})
    /\ metrics["security_events"] + lost["security_events"] =
        Cardinality({q \in Requests :
            /\ request[q].pc \in {"auditing", "answered", "cancelled"}
            /\ request[q].decision # 0
            /\ request[q].service \in Auditable})
    /\ metrics["upstream_requests"] + lost["upstream_requests"] <=
        Cardinality({q \in Requests : request[q].pc # "idle" /\ request[q].forwarded})

\* A request is answered or cancelled, or it waits for ever for PostgreSQL or
\* for the body its client sends, which nothing limits in time; neither Redis
\* nor the upstream holds it, and it does not go round in circles
\* (rate_limit/client.py:47-51, proxy/client.py:4-18).
EndsOrWaits ==
    \A q \in Requests :
        request[q].pc \in Working ~>
            \/ request[q].pc \in {"answered", "cancelled"}
            \/ [](request[q].pc \in Working \ Timed)

\* "Record one security event without changing an already-determined business
\* outcome." (audit/dependencies.py:111-112).
OutcomePreserved ==
    \A q \in Requests :
        request[q].pc = "answered" /\ request[q].decision # 0 =>
            request[q].answer = request[q].decision

=============================================================================
