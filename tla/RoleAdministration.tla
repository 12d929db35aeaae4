------------------------- MODULE RoleAdministration -------------------------
(***************************************************************************)
(* Registration (gateway/app/auth/router.py) and role administration       *)
(* (gateway/app/authorization/router.py) by concurrent requests, over the  *)
(* transactions of PostgreSQLUserRepository and                            *)
(* PostgreSQLAuthorizationRepository (gateway/app/database).               *)
(*                                                                         *)
(* Every repository call has a session of its own, taken from a pool of    *)
(* limited size, and so has the audit event written after the decision.    *)
(* PostgreSQL runs at READ COMMITTED: a statement sees what is committed,  *)
(* and one that meets a row another transaction has written waits for that *)
(* transaction.  A caller whose COMMIT fails does not know whether the     *)
(* server has committed, will commit or never commits.                     *)
(***************************************************************************)
EXTENDS AuthorizationStore, FiniteSets, Naturals

CONSTANTS
    Requests,    \* requests, numbered in the order in which they arrive
    Orders,      \* what a request may ask for
    PoolSize     \* pool_size + max_overflow

Ops == {"register", "assign", "remove", "list"}

\* role may be a name that is no role; a registration takes the default role.
ASSUME OrdersAssumption ==
    /\ \A o \in Orders :
        /\ DOMAIN o = {"op", "actor", "target", "role"}
        /\ o.op \in Ops
        /\ o.actor \in Users
        /\ o.target \in Users
        /\ o.op = "register" => o.role = DEFAULT_ROLE
    /\ Requests \subseteq Nat
    /\ PoolSize \in Nat \ {0}

VARIABLES
    request,    \* request[q]: the local state of request q
    trail       \* trail[q]: the row of request q in table audit_events

vars == <<accounts, grants, request, trail>>

InSession == {"writing", "committing"}

Working == InSession \cup {"authorizing", "targeting", "listing", "opening", "auditing"}

Statuses == {0, 200, 201, 403, 404, 409, 503}

\* changed is rowcount; txn says whether the server holds a transaction of the
\* request that has written something, and whether its caller still waits for
\* it; applied is history: the server has committed the change.
Request ==
    [pc : Working, order : Orders, changed : BOOLEAN,
     txn : {"none", "open", "orphan"}, applied : BOOLEAN, answer : Statuses]

Ended ==
    [pc : {"answered", "gone"}, order : Orders, changed : BOOLEAN,
     txn : {"none", "orphan"}, applied : BOOLEAN, answer : Statuses]

Idle == [pc |-> "idle", changed |-> FALSE, txn |-> "none", applied |-> FALSE]

Init ==
    /\ StoreInit
    /\ request = [q \in Requests |-> Idle]
    /\ trail = [q \in Requests |-> "none"]

-----------------------------------------------------------------------------
(* The pool, the rows and the transactions.                                *)

\* Mutant: the session is still open while the audit event is written.
Free_HeldTooLong ==
    Cardinality({q \in Requests : request[q].pc \in InSession \cup {"auditing"}})
        < PoolSize

\* A session can be had.
Free ==
    Cardinality({q \in Requests : request[q].pc \in InSession}) < PoolSize

Op(q) == request[q].order.op

Target(q) == request[q].order.target

\* The row of user_roles the request is about.
Row(q) == <<request[q].order.target, request[q].order.role>>

\* Another uncommitted transaction has written the row (or the account).
Taken(q) ==
    \E p \in Requests \ {q} :
        /\ request[p].txn # "none"
        /\ (Op(p) = "register") <=> (Op(q) = "register")
        /\ Row(p) = Row(q)

Go(q, pc) == request' = [request EXCEPT ![q].pc = pc]

Conclude(q, pc, status) ==
    request' = [request EXCEPT ![q].pc = pc, ![q].answer = status]

\* Mutant: the default role is left to a second transaction.
Apply_NoDefaultRole(q) ==
    /\ accounts' = IF Op(q) = "register" THEN accounts \cup {Target(q)} ELSE accounts
    /\ grants' = CASE Op(q) = "remove" -> grants \ {Row(q)}
                   [] Op(q) = "assign" -> grants \cup {Row(q)}
                   [] OTHER -> grants

\* The server commits what the request's transaction has written.
Apply(q) ==
    /\ accounts' = IF Op(q) = "register" THEN accounts \cup {Target(q)} ELSE accounts
    /\ grants' = IF Op(q) = "remove" THEN grants \ {Row(q)} ELSE grants \cup {Row(q)}

-----------------------------------------------------------------------------
(* The steps of a request.                                                 *)

\* The request arrives; a role request has passed get_current_user.
Begin(q, o) ==
    /\ request[q].pc = "idle"
    /\ \A p \in Requests : request[p].pc = "idle" => q <= p
    /\ o.op # "register" => o.actor \in accounts
    /\ request' = [request EXCEPT ![q] =
            [pc |-> IF o.op = "register" THEN "opening" ELSE "authorizing",
             order |-> o, changed |-> FALSE, txn |-> "none",
             applied |-> FALSE, answer |-> 0]]
    /\ UNCHANGED <<accounts, grants, trail>>

RequiredPermission(q) == IF Op(q) = "list" THEN RolesRead ELSE RolesManage

\* require_permission: the actor has the permission, or 403 with an event.
Authorize(q) ==
    /\ request[q].pc = "authorizing"
    /\ Free
    /\ IF has_permission(request[q].order.actor, RequiredPermission(q))
       THEN Go(q, "targeting")
       ELSE Conclude(q, "auditing", 403)
    /\ UNCHANGED <<accounts, grants, trail>>

\* get_target_user: the account exists, or 404.
FindTarget(q) ==
    /\ request[q].pc = "targeting"
    /\ Free
    /\ IF Target(q) \notin accounts THEN Conclude(q, "answered", 404)
       ELSE Go(q, IF Op(q) = "list" THEN "listing" ELSE "opening")
    /\ UNCHANGED <<accounts, grants, trail>>

\* get_role_names_for_user.
ReadRoles(q) ==
    /\ request[q].pc = "listing"
    /\ Free
    /\ Conclude(q, "auditing", 200)
    /\ UNCHANGED <<accounts, grants, trail>>

\* Mutant: a name that is no role is not refused.
OpenSession_AnyRole(q) ==
    /\ request[q].pc = "opening"
    /\ Free
    /\ Go(q, "writing")
    /\ UNCHANGED <<accounts, grants, trail>>

\* A session is opened; the role is normalized and looked up, or 404.  The
\* account is looked up again and is there: accounts are never deleted.
OpenSession(q) ==
    /\ request[q].pc = "opening"
    /\ Free
    /\ IF request[q].order.role \in Roles THEN Go(q, "writing")
       ELSE Conclude(q, "answered", 404)
    /\ UNCHANGED <<accounts, grants, trail>>

\* The statement ran and changed a row, or none.
Wrote(q, changed) ==
    request' = [request EXCEPT ![q].pc = "committing", ![q].changed = changed,
                               ![q].txn = IF changed THEN "open" ELSE "none"]

\* Mutant: SELECT and then INSERT, without ON CONFLICT.
InsertRole_CheckThenAct(q) ==
    /\ request[q].pc = "writing"
    /\ Wrote(q, Row(q) \notin grants)
    /\ UNCHANGED <<accounts, grants, trail>>

\* INSERT ... ON CONFLICT DO NOTHING.
InsertRole(q) ==
    /\ request[q].pc = "writing"
    /\ ~Taken(q)
    /\ Wrote(q, Row(q) \notin grants)
    /\ UNCHANGED <<accounts, grants, trail>>

\* DELETE: a row that is not committed is not seen.
DeleteRole(q) ==
    /\ request[q].pc = "writing"
    /\ Row(q) \in grants => ~Taken(q)
    /\ Wrote(q, Row(q) \in grants)
    /\ UNCHANGED <<accounts, grants, trail>>

\* The unique constraint on the name is violated.
NameTaken(q) == Target(q) \in accounts

\* Mutant: the name is looked up, and no unique constraint backs the lookup.
InsertUser_CheckThenAct(q) ==
    /\ request[q].pc = "writing"
    /\ IF NameTaken(q) THEN Conclude(q, "answered", 409)
       ELSE Wrote(q, TRUE)
    /\ UNCHANGED <<accounts, grants, trail>>

\* The flush of create_user inserts the account with its default role; the
\* unique constraint on the name ends in a rollback and 409.
InsertUser(q) ==
    /\ request[q].pc = "writing"
    /\ ~NameTaken(q) => ~Taken(q)
    /\ IF NameTaken(q) THEN Conclude(q, "answered", 409)
       ELSE Wrote(q, TRUE)
    /\ UNCHANGED <<accounts, grants, trail>>

\* The COMMIT is confirmed.
Commit(q) ==
    /\ request[q].pc = "committing"
    /\ IF request[q].changed THEN Apply(q) ELSE UNCHANGED <<accounts, grants>>
    /\ request' = [request EXCEPT
            ![q].pc = "auditing", ![q].txn = "none", ![q].applied = request[q].changed,
            ![q].answer = IF Op(q) = "register" THEN 201 ELSE 200]
    /\ UNCHANGED trail

\* Mutant: the error of the COMMIT is swallowed.
CommitFails_Ignored(q) ==
    /\ request[q].pc = "committing"
    /\ request' = [request EXCEPT
            ![q].pc = "auditing", ![q].txn = IF request[q].changed THEN "orphan" ELSE "none",
            ![q].answer = IF Op(q) = "register" THEN 201 ELSE 200]
    /\ UNCHANGED <<accounts, grants, trail>>

\* Mutant: the statement is run again after a COMMIT that failed.
CommitFails_Retried(q) ==
    /\ request[q].pc = "committing"
    /\ request' = [request EXCEPT
            ![q].pc = "writing", ![q].txn = IF request[q].changed THEN "orphan" ELSE "none"]
    /\ UNCHANGED <<accounts, grants, trail>>

\* The COMMIT raises: rollback_quietly, event, 503.  The server may have
\* received it.
CommitFails(q) ==
    /\ request[q].pc = "committing"
    /\ request' = [request EXCEPT
            ![q].pc = "auditing", ![q].txn = IF request[q].changed THEN "orphan" ELSE "none",
            ![q].answer = 503]
    /\ UNCHANGED <<accounts, grants, trail>>

\* Any other database call fails or the pool times out: event, 503.
Unavailable(q) ==
    /\ request[q].pc \in {"authorizing", "targeting", "listing", "opening", "writing"}
    /\ Conclude(q, "auditing", 503)
    /\ UNCHANGED <<accounts, grants, trail>>

\* The audit event of the decision is stored in a session of its own.
AuditStored(q) ==
    /\ request[q].pc = "auditing"
    /\ Free
    /\ trail' = [trail EXCEPT ![q] =
            IF request[q].answer \in {200, 201} THEN "success" ELSE "refusal"]
    /\ Go(q, "answered")
    /\ UNCHANGED <<accounts, grants>>

\* The audit store fails: a warning is logged and the decision stands.
AuditLost(q) ==
    /\ request[q].pc = "auditing"
    /\ trail' = [trail EXCEPT ![q] = "lost"]
    /\ Go(q, "answered")
    /\ UNCHANGED <<accounts, grants>>

\* The server settles a transaction nobody waits for.
LateCommit(q) ==
    /\ request[q].txn = "orphan"
    /\ Apply(q)
    /\ request' = [request EXCEPT ![q].txn = "none", ![q].applied = TRUE]
    /\ UNCHANGED trail

LateAbort(q) ==
    /\ request[q].txn = "orphan"
    /\ request' = [request EXCEPT ![q].txn = "none"]
    /\ UNCHANGED <<accounts, grants, trail>>

\* The gateway stops: its requests end without an answer, and the server is
\* left with the transactions whose COMMIT may have been sent.
Crash ==
    /\ \E q \in Requests : request[q].pc \in Working
    /\ request' = [q \in Requests |->
            IF request[q].pc \notin Working THEN request[q]
            ELSE [request[q] EXCEPT !.pc = "gone", !.answer = 0,
                                    !.txn = IF @ = "none" THEN "none" ELSE "orphan"]]
    /\ UNCHANGED <<accounts, grants, trail>>

\* The handlers, as far as nothing fails.
register_user(q) ==
    /\ Op(q) = "register"
    /\ OpenSession(q) \/ InsertUser(q) \/ Commit(q) \/ AuditStored(q)

read_user_roles(q) ==
    /\ Op(q) = "list"
    /\ Authorize(q) \/ FindTarget(q) \/ ReadRoles(q) \/ AuditStored(q)

assign_user_role(q) ==
    /\ Op(q) = "assign"
    /\ \/ Authorize(q) \/ FindTarget(q) \/ OpenSession(q)
       \/ InsertRole(q) \/ Commit(q) \/ AuditStored(q)

remove_user_role(q) ==
    /\ Op(q) = "remove"
    /\ \/ Authorize(q) \/ FindTarget(q) \/ OpenSession(q)
       \/ DeleteRole(q) \/ Commit(q) \/ AuditStored(q)

Step(q) ==
    /\ request[q].pc \in Working
    /\ \/ register_user(q)
       \/ read_user_roles(q)
       \/ assign_user_role(q)
       \/ remove_user_role(q)

Fault(q) ==
    \/ CommitFails(q)
    \/ Unavailable(q)
    \/ AuditLost(q)

Settle(q) == LateCommit(q) \/ LateAbort(q)

Next ==
    \/ \E q \in Requests :
        \/ \E o \in Orders : Begin(q, o)
        \/ Step(q)
        \/ Fault(q)
        \/ Settle(q)
    \/ Crash

Spec == Init /\ [][Next]_vars

\* The event loop and PostgreSQL keep running; faults need not happen.
Fairness == \A q \in Requests : WF_vars(Step(q)) /\ WF_vars(Settle(q))

FairSpec == Spec /\ Fairness

-----------------------------------------------------------------------------
(* Properties.                                                             *)

\* Every variable has the shape the code and the schema give it: a role is
\* assigned to existing accounts only, and only a seeded role.
TypeOK ==
    /\ accounts \subseteq Users
    /\ grants \subseteq accounts \X Roles
    /\ request \in [Requests -> Request \cup Ended \cup {Idle}]
    /\ trail \in [Requests -> {"none", "lost", "success", "refusal"}]

\* The requests whose committed change added (removed) this row.
Added(row) ==
    {q \in Requests : request[q].applied /\ Op(q) # "remove" /\ Row(q) = row}
Removed(row) ==
    {q \in Requests : request[q].applied /\ Op(q) = "remove" /\ Row(q) = row}

InitialGrants == (InitialUsers \X {DEFAULT_ROLE}) \cup (InitialAdmins \X {"admin"})

\* "changed" is the truth for every interleaving of assignments and removals,
\* commits of unknown outcome included: the requests that changed a row are
\* exactly those that explain whether it is there now
\* (authorization_repository.py:377 and 454: rowcount, read after the COMMIT).
ChangesAddUp ==
    \A row \in Users \X Roles :
        Cardinality(Added(row)) + (IF row \in InitialGrants THEN 1 ELSE 0)
            = Cardinality(Removed(row)) + (IF row \in grants THEN 1 ELSE 0)

\* However registrations of one name race, at most one creates the account;
\* 201 and 409 are answered only for a name that has one
\* (user_repository.py:213-235).
OneAccountPerName ==
    \A q \in Requests :
        request[q].pc # "idle" /\ Op(q) = "register" =>
            /\ request[q].applied =>
                /\ Target(q) \in accounts \ InitialUsers
                /\ \A p \in Requests \ {q} :
                    request[p].applied /\ Op(p) = "register" => Target(p) # Target(q)
            /\ request[q].pc = "answered" /\ request[q].answer \in {201, 409} =>
                Target(q) \in accounts

\* The trail never reports a success whose change is not committed, and a
\* committed change is missing from it only if its event is still to be
\* written, the audit store failed, the gateway stopped in between, or the
\* caller was told 503 (authorization/router.py:292-336).
TrailTruthful ==
    \A q \in Requests :
        /\ trail[q] = "success" /\ request[q].changed => request[q].applied
        /\ request[q].applied /\ trail[q] # "success" =>
            \/ request[q].pc \in {"auditing", "gone"}
            \/ trail[q] = "lost"
            \/ request[q].answer = 503

\* Nobody waits in a circle: no more sessions are open than the pool has; when
\* it has none left, a request that holds one goes on without waiting or the
\* server has a transaction to settle; and whoever waits for a row waits for a
\* transaction that waits for nothing (every repository call has a session of
\* its own and gives it back before the audit event needs one,
\* authorization_repository.py:316-377 and audit_repository.py:110-135).
NoCircularWait ==
    /\ Cardinality({q \in Requests : request[q].pc \in InSession}) <= PoolSize
    /\ ~Free => \E q \in Requests :
        \/ request[q].pc = "committing" \/ request[q].txn = "orphan"
        \/ request[q].pc = "writing" /\ ~Taken(q)
    /\ \A q \in Requests : request[q].pc = "writing" /\ Taken(q) =>
        \E p \in Requests \ {q} :
            /\ request[p].pc = "committing" \/ request[p].txn = "orphan"
            /\ Row(p) = Row(q)

\* How far a handler is.
Stage(pc) ==
    CASE pc = "idle" -> 0
      [] pc = "authorizing" -> 1
      [] pc = "targeting" -> 2
      [] pc \in {"listing", "opening"} -> 3
      [] pc = "writing" -> 4
      [] pc = "committing" -> 5
      [] pc = "auditing" -> 6
      [] OTHER -> 7

\* From x to y the handler went on, or the server settled its transaction.
Forward(x, y) ==
    \/ Stage(x.pc) < Stage(y.pc)
    \/ /\ x.txn = "orphan" /\ y.txn = "none"
       /\ y.pc = x.pc /\ y.answer = x.answer

\* A request runs once: its handler only goes forward, so that no statement is
\* repeated after a COMMIT of unknown outcome, its order stays what it was, and
\* once it has ended neither its answer nor its event changes, whatever the
\* server still does with its transaction (authorization/router.py:229-343).
RunsOnce ==
    [][\A q \in Requests :
        /\ request'[q] = request[q] \/ Forward(request[q], request'[q])
        /\ request[q].pc # "idle" => request'[q].order = request[q].order
        /\ Stage(request[q].pc) = 7 => trail'[q] = trail[q]]_vars

\* Accounts and assignments change as AuthorizationStore promises, one at a
\* time, whatever fails in between.
ImplementsStore == StoreSpec

\* Every request ends, although requests wait for each other's rows and for
\* sessions of the pool, and no fault is needed to free them.
RequestsEnd ==
    \A q \in Requests :
        request[q].pc \in Working ~> request[q].pc \in {"answered", "gone"}

=============================================================================
