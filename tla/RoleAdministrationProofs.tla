---------------------- MODULE RoleAdministrationProofs ----------------------
(***************************************************************************)
(* Proofs about RoleAdministration.                                        *)
(***************************************************************************)
EXTENDS RoleAdministration, CountingLemmas, TLAPS

RowOf(x) == <<x.order.target, x.order.role>>

\* What the uncommitted transaction of request x would do is still to be done.
Pending(x, acc, gr) ==
    /\ x.changed /\ ~x.applied
    /\ x.order.op # "list" /\ x.order.role \in Roles
    /\ x.order.op = "register" => x.order.target \notin acc
    /\ x.order.op = "assign" => x.order.target \in acc /\ RowOf(x) \notin gr
    /\ x.order.op = "remove" => RowOf(x) \in gr

\* How far a request is: what it has found out and what it has written.
Progress(x, acc, gr) ==
    /\ x.pc \in {"opening", "writing", "committing"} =>
        /\ x.order.op # "list"
        /\ x.order.op # "register" => x.order.target \in acc
    /\ x.pc \in {"writing", "committing"} => x.order.role \in Roles
    /\ x.pc \in Working \ {"committing", "auditing"} =>
        ~x.changed /\ ~x.applied /\ x.txn = "none"
    /\ x.pc = "committing" =>
        /\ ~x.applied /\ x.txn # "orphan"
        /\ x.changed <=> x.txn # "none"
        /\ x.order.op = "register" => x.changed
    /\ x.pc # "committing" => x.txn # "open"
    /\ x.txn # "none" => Pending(x, acc, gr)

\* What a request that has an answer may tell.
Truthful(x, acc, t) ==
    /\ x.applied => x.changed /\ (x.order.op = "register" => x.order.target \in acc \ InitialUsers)
    /\ x.pc \in {"auditing", "answered"} =>
        /\ x.txn # "none" => x.answer = 503
        /\ x.applied => x.answer \in {200, 201, 503}
        /\ x.answer \in {200, 201} /\ x.changed => x.applied
        /\ x.answer \in {201, 409} /\ x.order.op = "register" => x.order.target \in acc
    /\ t = "success" => x.pc = "answered" /\ x.answer \in {200, 201}
    /\ x.pc = "answered" /\ x.applied => t \in {"success", "lost"} \/ x.answer = 503

Sound(x, acc, gr, t) ==
    \/ x = Idle /\ t = "none"
    \/ x \in Request \cup Ended /\ Progress(x, acc, gr) /\ Truthful(x, acc, t)

\* No two transactions are about the same row (or name), and no two requests
\* have created the same account.
Apart(x, y) ==
    /\ x.txn # "none" /\ y.txn # "none" =>
        ~(/\ (x.order.op = "register") <=> (y.order.op = "register")
          /\ RowOf(x) = RowOf(y))
    /\ x.applied /\ y.applied /\ x.order.op = "register" /\ y.order.op = "register" =>
        x.order.target # y.order.target

RoleInv ==
    /\ TypeOK
    /\ InitialUsers \subseteq accounts
    /\ \A q \in Requests : Sound(request[q], accounts, grants, trail[q])
    /\ \A p, q \in Requests : p # q => Apart(request[p], request[q])


-----------------------------------------------------------------------------
(* Shapes.                                                                 *)

\* A request, field by field.
Rec(pc, o, c, t, a, s) ==
    [pc |-> pc, order |-> o, changed |-> c, txn |-> t, applied |-> a, answer |-> s]

LEMMA RecFields ==
    ASSUME NEW pc, NEW o, NEW c, NEW t, NEW a, NEW s
    PROVE  /\ Rec(pc, o, c, t, a, s).pc = pc
           /\ Rec(pc, o, c, t, a, s).order = o
           /\ Rec(pc, o, c, t, a, s).changed = c
           /\ Rec(pc, o, c, t, a, s).txn = t
           /\ Rec(pc, o, c, t, a, s).applied = a
           /\ Rec(pc, o, c, t, a, s).answer = s
    BY DEF Rec

LEMMA RecType ==
    ASSUME NEW pc, NEW o \in Orders, NEW c \in BOOLEAN, NEW t, NEW a \in BOOLEAN,
           NEW s \in Statuses,
           \/ pc \in Working /\ t \in {"none", "open", "orphan"}
           \/ pc \in {"answered", "gone"} /\ t \in {"none", "orphan"}
    PROVE  Rec(pc, o, c, t, a, s) \in Request \cup Ended
    BY DEF Rec, Request, Ended

LEMMA FieldTypes ==
    ASSUME NEW r \in Request \cup Ended
    PROVE  /\ r.order \in Orders /\ r.changed \in BOOLEAN /\ r.applied \in BOOLEAN
           /\ r.answer \in Statuses /\ r.txn \in {"none", "open", "orphan"}
           /\ r.pc \in Working \cup {"answered", "gone"}
           /\ r.pc # "idle"
    BY DEF Request, Ended, Working, InSession

\* A request that is not idle has all fields.
LEMMA RequestShape ==
    ASSUME TypeOK, NEW q \in Requests, request[q].pc # "idle"
    PROVE  request[q] \in Request \cup Ended
    BY DEF TypeOK, Idle

\* A request is the record of its fields.
LEMMA RecOf ==
    ASSUME NEW r \in Request \cup Ended
    PROVE  r = Rec(r.pc, r.order, r.changed, r.txn, r.applied, r.answer)
    BY DEF Rec, Request, Ended

\* The updates the actions make, one field after the other.
LEMMA MovedOn ==
    ASSUME TypeOK, NEW q \in Requests, request[q] \in Request \cup Ended, NEW pc,
           request' = [request EXCEPT ![q].pc = pc]
    PROVE  request' = [request EXCEPT ![q] =
            Rec(pc, request[q].order, request[q].changed,
                request[q].txn, request[q].applied, request[q].answer)]
<1> DEFINE r == request[q]
           x == [r EXCEPT !.pc = pc]
           y == [r EXCEPT !.pc = pc]
<1>1. request' = [request EXCEPT ![q] = x] /\ x = y
    BY DEF TypeOK
<1>2. r = Rec(r.pc, r.order, r.changed, r.txn, r.applied, r.answer)
    BY RecOf
<1> HIDE DEF x
<1>3. y = Rec(pc, r.order, r.changed, r.txn, r.applied, r.answer)
    BY <1>2 DEF Rec
<1> HIDE DEF y
<1> QED
    BY <1>1, <1>3

LEMMA LateDone ==
    ASSUME TypeOK, NEW q \in Requests, request[q] \in Request \cup Ended, NEW t, NEW a,
           request' = [request EXCEPT ![q].txn = t, ![q].applied = a]
    PROVE  request' = [request EXCEPT ![q] =
            Rec(request[q].pc, request[q].order, request[q].changed,
                t, a, request[q].answer)]
<1> DEFINE r == request[q]
           x == [r EXCEPT !.txn = t, !.applied = a]
           y == [r EXCEPT !.txn = t]
           z == [y EXCEPT !.applied = a]
<1>1. request' = [request EXCEPT ![q] = x] /\ x = z
    BY DEF TypeOK
<1>2. r = Rec(r.pc, r.order, r.changed, r.txn, r.applied, r.answer)
    BY RecOf
<1> HIDE DEF x
<1>3. y = Rec(r.pc, r.order, r.changed, t, r.applied, r.answer)
    BY <1>2 DEF Rec
<1> HIDE DEF y
<1>4. z = Rec(r.pc, r.order, r.changed, t, a, r.answer)
    BY <1>3 DEF Rec
<1> HIDE DEF z
<1> QED
    BY <1>1, <1>4

LEMMA LateUndone ==
    ASSUME TypeOK, NEW q \in Requests, request[q] \in Request \cup Ended, NEW t,
           request' = [request EXCEPT ![q].txn = t]
    PROVE  request' = [request EXCEPT ![q] =
            Rec(request[q].pc, request[q].order, request[q].changed,
                t, request[q].applied, request[q].answer)]
<1> DEFINE r == request[q]
           x == [r EXCEPT !.txn = t]
           y == [r EXCEPT !.txn = t]
<1>1. request' = [request EXCEPT ![q] = x] /\ x = y
    BY DEF TypeOK
<1>2. r = Rec(r.pc, r.order, r.changed, r.txn, r.applied, r.answer)
    BY RecOf
<1> HIDE DEF x
<1>3. y = Rec(r.pc, r.order, r.changed, t, r.applied, r.answer)
    BY <1>2 DEF Rec
<1> HIDE DEF y
<1> QED
    BY <1>1, <1>3

\* What an order says.
LEMMA OrderFacts ==
    ASSUME NEW o \in Orders
    PROVE  /\ o.op \in {"register", "assign", "remove", "list"}
           /\ o.actor \in Users /\ o.target \in Users
           /\ o.op = "register" => o.role = DEFAULT_ROLE
    BY OrdersAssumption DEF Ops

\* A request under way is sound in the sense of the invariant.
LEMMA Underway ==
    ASSUME RoleInv, NEW q \in Requests, request[q].pc # "idle"
    PROVE  /\ request[q] \in Request \cup Ended
           /\ Progress(request[q], accounts, grants)
           /\ Truthful(request[q], accounts, trail[q])
<1>1. request[q] \in Request \cup Ended
    BY RequestShape DEF RoleInv
<1>2. request[q] # Idle
    BY DEF Idle
<1> QED
    BY <1>1, <1>2 DEF RoleInv, Sound

LEMMA ApartSymmetric ==
    ASSUME NEW x, NEW y, Apart(x, y)
    PROVE  Apart(y, x)
    BY DEF Apart

-----------------------------------------------------------------------------
(* A step that changes one request and neither accounts nor grants.        *)

LEMMA OneRequest ==
    ASSUME RoleInv, NEW q \in Requests, NEW x \in Request \cup Ended,
           NEW t \in {"none", "lost", "success", "refusal"},
           request' = [request EXCEPT ![q] = x], trail' = [trail EXCEPT ![q] = t],
           UNCHANGED <<accounts, grants>>,
           Progress(x, accounts, grants), Truthful(x, accounts, t),
           \A p \in Requests \ {q} : Apart(x, request[p])
    PROVE  RoleInv'
<1>0. TypeOK
    BY DEF RoleInv
<1>1. TypeOK'
    BY <1>0 DEF TypeOK
<1>2. (InitialUsers \subseteq accounts)'
    BY DEF RoleInv
<1>3. /\ request'[q] = x /\ trail'[q] = t
      /\ \A p \in Requests \ {q} : request'[p] = request[p] /\ trail'[p] = trail[p]
    BY <1>0 DEF TypeOK
<1>4. ASSUME NEW p \in Requests
      PROVE  Sound(request'[p], accounts', grants', trail'[p])
    <2>1. CASE p = q
        BY <1>3, <2>1 DEF Sound
    <2>2. CASE p # q
        BY <1>3, <2>2 DEF RoleInv
    <2> QED
        BY <2>1, <2>2
<1>5. ASSUME NEW p \in Requests, NEW o \in Requests, p # o
      PROVE  Apart(request'[p], request'[o])
    <2>1. CASE p = q
        BY <1>3, <1>5, <2>1
    <2>2. CASE o = q
        BY <1>3, <1>5, <2>2, ApartSymmetric
    <2>3. CASE p # q /\ o # q
        BY <1>3, <1>5, <2>3 DEF RoleInv
    <2> QED
        BY <2>1, <2>2, <2>3
<1> QED
    BY <1>1, <1>2, <1>4, <1>5 DEF RoleInv

\* A request that neither writes nor creates anything stays apart.
LEMMA StaysApart ==
    ASSUME RoleInv, NEW q \in Requests, NEW x, NEW p \in Requests \ {q},
           x.order = request[q].order \/ (x.txn = "none" /\ ~x.applied),
           x.txn # "none" => request[q].txn # "none",
           x.applied => request[q].applied
    PROVE  Apart(x, request[p])
<1>1. Apart(request[q], request[p])
    BY DEF RoleInv
<1> QED
    BY <1>1 DEF Apart, RowOf

LEMMA SameTrail ==
    ASSUME RoleInv, NEW q \in Requests, UNCHANGED trail
    PROVE  /\ trail' = [trail EXCEPT ![q] = trail[q]]
           /\ trail[q] \in {"none", "lost", "success", "refusal"}
    BY DEF RoleInv, TypeOK

-----------------------------------------------------------------------------
(* The steps of a request.                                                 *)

LEMMA BeginKeeps ==
    ASSUME RoleInv, NEW q \in Requests, NEW o \in Orders, Begin(q, o)
    PROVE  RoleInv'
<1> DEFINE pc == IF o.op = "register" THEN "opening" ELSE "authorizing"
           x == Rec(pc, o, FALSE, "none", FALSE, 0)
<1>1. request' = [request EXCEPT ![q] = x] /\ UNCHANGED <<accounts, grants, trail>>
    BY DEF Begin, Rec
<1>2. pc \in {"opening", "authorizing"} /\ (pc = "opening" => o.op = "register")
    OBVIOUS
<1> HIDE DEF pc
<1>3. x \in Request \cup Ended
    BY <1>2 DEF Rec, Request, Working, InSession, Statuses
<1>4. /\ x.pc = pc /\ x.order = o /\ x.changed = FALSE /\ x.txn = "none"
      /\ x.applied = FALSE /\ x.answer = 0
    BY DEF Rec
<1> HIDE DEF x
<1>5. trail[q] = "none"
    <2>1. request[q] \notin Request \cup Ended
        BY FieldTypes DEF Begin
    <2> QED
        BY <2>1 DEF RoleInv, Sound
<1>6. Progress(x, accounts, grants)
    BY <1>2, <1>4 DEF Progress
<1>7. Truthful(x, accounts, trail[q])
    BY <1>2, <1>4, <1>5 DEF Truthful
<1>8. \A p \in Requests \ {q} : Apart(x, request[p])
    BY <1>4 DEF Apart
<1> QED
    BY <1>1, <1>3, <1>6, <1>7, <1>8, SameTrail, OneRequest

\* The request goes on to pc without having written anything.
LEMMA GoKeeps ==
    ASSUME RoleInv, NEW q \in Requests,
           request[q].pc \in Working \ {"committing", "auditing"},
           NEW pc \in {"targeting", "listing", "opening", "writing"}, Go(q, pc),
           UNCHANGED <<accounts, grants, trail>>,
           pc \in {"opening", "writing"} =>
                /\ Op(q) # "list"
                /\ Op(q) # "register" => Target(q) \in accounts,
           pc = "writing" => request[q].order.role \in Roles
    PROVE  RoleInv'
<1> DEFINE r == request[q]
           x == Rec(pc, r.order, r.changed, r.txn, r.applied, r.answer)
<1>1. /\ r \in Request \cup Ended /\ Progress(r, accounts, grants)
      /\ Truthful(r, accounts, trail[q]) /\ r.pc # "idle"
    BY Underway DEF Working, InSession
<1>2. request' = [request EXCEPT ![q] = x]
    BY <1>1, MovedOn DEF Go, RoleInv
<1>3. /\ x.pc = pc /\ x.order = r.order /\ x.changed = r.changed /\ x.txn = r.txn
      /\ x.applied = r.applied /\ x.answer = r.answer
    BY RecFields
<1>4. r.txn = "none" /\ ~r.changed /\ ~r.applied
    BY <1>1 DEF Progress
<1>5. trail[q] # "success"
    BY <1>1 DEF Truthful, Working, InSession
<1>6. Progress(x, accounts, grants)
    BY <1>3, <1>4 DEF Progress, Op, Target
<1>7. Truthful(x, accounts, trail[q])
    BY <1>3, <1>4, <1>5 DEF Truthful
<1>8. pc \in Working
    BY DEF Working, InSession
<1>9. x \in Request \cup Ended
    BY <1>1, <1>4, <1>8, FieldTypes, RecType
<1> HIDE DEF x
<1>10. \A p \in Requests \ {q} : Apart(x, request[p])
    BY <1>3, StaysApart
<1> QED
    BY <1>2, <1>6, <1>7, <1>9, <1>10, SameTrail, OneRequest

\* The request has its answer without having written anything.
LEMMA ConcludeKeeps ==
    ASSUME RoleInv, NEW q \in Requests,
           request[q].pc \in Working \ {"committing", "auditing"},
           NEW pc \in {"auditing", "answered"}, NEW s \in Statuses, Conclude(q, pc, s),
           UNCHANGED <<accounts, grants, trail>>,
           s \in {201, 409} /\ Op(q) = "register" => Target(q) \in accounts
    PROVE  RoleInv'
<1> DEFINE r == request[q]
           x == Rec(pc, r.order, r.changed, r.txn, r.applied, s)
<1>1. /\ r \in Request \cup Ended /\ Progress(r, accounts, grants)
      /\ Truthful(r, accounts, trail[q]) /\ r.pc # "idle"
    BY Underway DEF Working, InSession
<1>2. request' = [request EXCEPT ![q] = x]
    <2> DEFINE y == [r EXCEPT !.pc = pc]
               z == [y EXCEPT !.answer = s]
    <2>1. request' = [request EXCEPT ![q] = z]
        BY DEF Conclude, RoleInv, TypeOK
    <2>2. r = Rec(r.pc, r.order, r.changed, r.txn, r.applied, r.answer)
        BY <1>1, RecOf
    <2>3. y = Rec(pc, r.order, r.changed, r.txn, r.applied, r.answer)
        BY <2>2 DEF Rec
    <2> HIDE DEF y
    <2>4. z = Rec(pc, r.order, r.changed, r.txn, r.applied, s)
        BY <2>3 DEF Rec
    <2> QED
        BY <2>1, <2>4
<1>3. /\ x.pc = pc /\ x.order = r.order /\ x.changed = r.changed /\ x.txn = r.txn
      /\ x.applied = r.applied /\ x.answer = s
    BY RecFields
<1>4. r.txn = "none" /\ ~r.changed /\ ~r.applied
    BY <1>1 DEF Progress
<1>5. trail[q] # "success"
    BY <1>1 DEF Truthful, Working, InSession
<1>6. Progress(x, accounts, grants)
    BY <1>3, <1>4 DEF Progress
<1>7. Truthful(x, accounts, trail[q])
    BY <1>3, <1>4, <1>5 DEF Truthful, Op, Target
<1>8. pc \in Working \/ pc = "answered"
    BY DEF Working, InSession
<1>9. x \in Request \cup Ended
    BY <1>1, <1>4, <1>8, FieldTypes, RecType
<1> HIDE DEF x
<1>10. \A p \in Requests \ {q} : Apart(x, request[p])
    BY <1>3, StaysApart
<1> QED
    BY <1>2, <1>6, <1>7, <1>9, <1>10, SameTrail, OneRequest

LEMMA ReadingKeeps ==
    ASSUME RoleInv, NEW q \in Requests,
           \/ Authorize(q) \/ FindTarget(q) \/ ReadRoles(q) \/ OpenSession(q)
           \/ Unavailable(q)
    PROVE  RoleInv'
<1> USE DEF Working, InSession, Statuses
<1>1. CASE Authorize(q)
    <2>1. Go(q, "targeting") \/ Conclude(q, "auditing", 403)
        BY <1>1 DEF Authorize
    <2> QED
        BY <1>1, <2>1, GoKeeps, ConcludeKeeps DEF Authorize
<1>2. CASE FindTarget(q)
    <2>1. \/ Go(q, "listing")
          \/ Go(q, "opening") /\ Target(q) \in accounts /\ Op(q) # "list"
          \/ Conclude(q, "answered", 404)
        BY <1>2 DEF FindTarget
    <2> QED
        BY <1>2, <2>1, GoKeeps, ConcludeKeeps DEF FindTarget
<1>3. CASE ReadRoles(q)
    BY <1>3, ConcludeKeeps DEF ReadRoles
<1>4. CASE OpenSession(q)
    <2>1. /\ Op(q) # "list"
          /\ Op(q) # "register" => Target(q) \in accounts
        BY <1>4, Underway DEF OpenSession, Progress, Op, Target
    <2>2. \/ Go(q, "writing") /\ request[q].order.role \in Roles
          \/ Conclude(q, "answered", 404)
        BY <1>4 DEF OpenSession
    <2> QED
        BY <1>4, <2>1, <2>2, GoKeeps, ConcludeKeeps DEF OpenSession
<1>5. CASE Unavailable(q)
    BY <1>5, ConcludeKeeps DEF Unavailable
<1> QED
    BY <1>1, <1>2, <1>3, <1>4, <1>5


\* The statement of a request has written its row, or has found nothing to do.
LEMMA WroteKeeps ==
    ASSUME RoleInv, NEW q \in Requests, request[q].pc = "writing",
           NEW c \in BOOLEAN, Wrote(q, c), UNCHANGED <<accounts, grants, trail>>,
           c => /\ ~Taken(q)
                /\ Op(q) = "register" => Target(q) \notin accounts
                /\ Op(q) = "assign" => Row(q) \notin grants
                /\ Op(q) = "remove" => Row(q) \in grants,
           Op(q) = "register" => c
    PROVE  RoleInv'
<1> DEFINE r == request[q]
           t == IF c THEN "open" ELSE "none"
           x == Rec("committing", r.order, c, t, r.applied, r.answer)
<1>1. /\ r \in Request \cup Ended /\ Progress(r, accounts, grants)
      /\ Truthful(r, accounts, trail[q]) /\ r.pc # "idle"
    BY Underway
<1>2. request' = [request EXCEPT ![q] = x]
    <2> DEFINE y == [r EXCEPT !.pc = "committing"]
               z == [y EXCEPT !.changed = c]
               w == [z EXCEPT !.txn = t]
    <2>1. request' = [request EXCEPT ![q] = w]
        <3>1. request' = [request EXCEPT ![q].pc = "committing", ![q].changed = c,
                                         ![q].txn = t]
            BY DEF Wrote
        <3>2. request \in [Requests -> Request \cup Ended \cup {Idle}]
            BY DEF RoleInv, TypeOK
        <3> HIDE DEF t
        <3> QED
            BY <3>1, <3>2
    <2>2. r = Rec(r.pc, r.order, r.changed, r.txn, r.applied, r.answer)
        BY <1>1, RecOf
    <2>3. y = Rec("committing", r.order, r.changed, r.txn, r.applied, r.answer)
        BY <2>2 DEF Rec
    <2> HIDE DEF y, t
    <2>4. z = Rec("committing", r.order, c, r.txn, r.applied, r.answer)
        BY <2>3 DEF Rec
    <2> HIDE DEF z
    <2>5. w = x
        BY <2>4 DEF Rec
    <2> QED
        BY <2>1, <2>5
<1>3. t \in {"none", "open"} /\ (c <=> t # "none")
    OBVIOUS
<1> HIDE DEF t
<1>4. /\ x.pc = "committing" /\ x.order = r.order /\ x.changed = c /\ x.txn = t
      /\ x.applied = r.applied /\ x.answer = r.answer
    BY RecFields
<1>5. x \in Request \cup Ended
    BY <1>1, <1>3, FieldTypes, RecType DEF Working, InSession
<1>6. /\ r.txn = "none" /\ ~r.applied /\ r.order.op # "list" /\ r.order.role \in Roles
      /\ r.order.op # "register" => r.order.target \in accounts
    BY <1>1 DEF Progress, Working, InSession
<1> HIDE DEF x
<1>7. Progress(x, accounts, grants)
    BY <1>3, <1>4, <1>6 DEF Progress, Pending, Working, InSession, Op, Target, Row, RowOf
<1>8. Truthful(x, accounts, trail[q])
    BY <1>1, <1>4, <1>6 DEF Truthful
<1>9. ASSUME NEW p \in Requests \ {q} PROVE Apart(x, request[p])
    BY <1>3, <1>4, <1>6 DEF Apart, Taken, Op, Row, RowOf
<1> QED
    BY <1>2, <1>5, <1>7, <1>8, <1>9, SameTrail, OneRequest

LEMMA WritingKeeps ==
    ASSUME RoleInv, NEW q \in Requests,
           \/ Op(q) = "assign" /\ InsertRole(q)
           \/ Op(q) = "remove" /\ DeleteRole(q)
           \/ Op(q) = "register" /\ InsertUser(q)
    PROVE  RoleInv'
<1>1. CASE Op(q) = "assign" /\ InsertRole(q)
    BY <1>1, WroteKeeps DEF InsertRole
<1>2. CASE Op(q) = "remove" /\ DeleteRole(q)
    <2> DEFINE c == Row(q) \in grants
    <2>1. /\ request[q].pc = "writing" /\ Wrote(q, c) /\ (c => ~Taken(q))
          /\ UNCHANGED <<accounts, grants, trail>>
        BY <1>2 DEF DeleteRole
    <2>2. c \in BOOLEAN /\ (c => Row(q) \in grants)
        OBVIOUS
    <2> HIDE DEF c
    <2> QED
        BY <1>2, <2>1, <2>2, WroteKeeps
<1>3. CASE Op(q) = "register" /\ InsertUser(q) /\ NameTaken(q)
    BY <1>3, ConcludeKeeps DEF InsertUser, NameTaken, Working, InSession, Statuses
<1>4. CASE Op(q) = "register" /\ InsertUser(q) /\ ~NameTaken(q)
    BY <1>4, WroteKeeps DEF InsertUser, NameTaken
<1> QED
    BY <1>1, <1>2, <1>3, <1>4

LEMMA CommitFailsKeeps ==
    ASSUME RoleInv, NEW q \in Requests, CommitFails(q)
    PROVE  RoleInv'
<1> DEFINE r == request[q]
           t == IF r.changed THEN "orphan" ELSE "none"
           x == Rec("auditing", r.order, r.changed, t, r.applied, 503)
<1>1. /\ r \in Request \cup Ended /\ Progress(r, accounts, grants)
      /\ Truthful(r, accounts, trail[q]) /\ r.pc = "committing" /\ r.pc # "idle"
    BY Underway DEF CommitFails
<1>2. request' = [request EXCEPT ![q] = x]
    <2>1. PICK s : s = 503
        OBVIOUS
    <2> DEFINE y == [r EXCEPT !.pc = "auditing"]
               z == [y EXCEPT !.txn = t]
               w == [z EXCEPT !.answer = s]
    <2>2. request' = [request EXCEPT ![q] = w]
        <3>1. request' = [request EXCEPT ![q].pc = "auditing", ![q].txn = t,
                                         ![q].answer = s]
            BY <2>1 DEF CommitFails
        <3>2. request \in [Requests -> Request \cup Ended \cup {Idle}]
            BY DEF RoleInv, TypeOK
        <3> HIDE DEF t
        <3> QED
            BY <3>1, <3>2
    <2>3. r = Rec(r.pc, r.order, r.changed, r.txn, r.applied, r.answer)
        BY <1>1, RecOf
    <2>4. y = Rec("auditing", r.order, r.changed, r.txn, r.applied, r.answer)
        BY <2>3 DEF Rec
    <2> HIDE DEF y, t
    <2>5. z = Rec("auditing", r.order, r.changed, t, r.applied, r.answer)
        BY <2>4 DEF Rec
    <2> HIDE DEF z
    <2>6. w = x
        BY <2>1, <2>5 DEF Rec
    <2> QED
        BY <2>2, <2>6
<1>3. t \in {"none", "orphan"} /\ (r.changed <=> t # "none")
    OBVIOUS
<1> HIDE DEF t
<1>4. /\ x.pc = "auditing" /\ x.order = r.order /\ x.changed = r.changed /\ x.txn = t
      /\ x.applied = r.applied /\ x.answer = 503
    BY RecFields
<1>5. /\ ~r.applied /\ (t # "none" => r.txn # "none")
      /\ r.txn # "none" => Pending(r, accounts, grants)
    BY <1>1, <1>3 DEF Progress
<1>6. x \in Request \cup Ended
    <2>1. "auditing" \in Working /\ 503 \in Statuses
        BY DEF Working, InSession, Statuses
    <2> QED
        BY <1>1, <1>3, <2>1, FieldTypes, RecType
<1> HIDE DEF x
<1>7. Progress(x, accounts, grants)
    BY <1>3, <1>4, <1>5 DEF Progress, Pending, Working, InSession, RowOf
<1>8. Truthful(x, accounts, trail[q])
    BY <1>1, <1>4, <1>5 DEF Truthful
<1>9. \A p \in Requests \ {q} : Apart(x, request[p])
    BY <1>4, <1>5, StaysApart
<1>10. UNCHANGED <<accounts, grants, trail>>
    BY DEF CommitFails
<1> QED
    BY <1>2, <1>6, <1>7, <1>8, <1>9, <1>10, SameTrail, OneRequest

LEMMA AuditKeeps ==
    ASSUME RoleInv, NEW q \in Requests, AuditStored(q) \/ AuditLost(q)
    PROVE  RoleInv'
<1> DEFINE r == request[q]
           x == Rec("answered", r.order, r.changed, r.txn, r.applied, r.answer)
<1>1. /\ r \in Request \cup Ended /\ Progress(r, accounts, grants)
      /\ Truthful(r, accounts, trail[q]) /\ r.pc = "auditing" /\ r.pc # "idle"
    BY Underway DEF AuditStored, AuditLost
<1>2. request' = [request EXCEPT ![q] = x]
    BY <1>1, MovedOn DEF AuditStored, AuditLost, Go, RoleInv
<1>3. PICK t \in {"lost", "success", "refusal"} :
        /\ trail' = [trail EXCEPT ![q] = t]
        /\ t = "success" => r.answer \in {200, 201}
        /\ t = "refusal" => r.answer \notin {200, 201}
    BY DEF AuditStored, AuditLost
<1>4. /\ x.pc = "answered" /\ x.order = r.order /\ x.changed = r.changed /\ x.txn = r.txn
      /\ x.applied = r.applied /\ x.answer = r.answer
    BY RecFields
<1>5. x \in Request \cup Ended
    <2>1. r.txn \in {"none", "orphan"}
        BY <1>1, FieldTypes DEF Progress
    <2> QED
        BY <1>1, <2>1, FieldTypes, RecType
<1> HIDE DEF x
<1>6. Progress(x, accounts, grants)
    BY <1>1, <1>4 DEF Progress, Pending, Working, InSession, RowOf
<1>7. Truthful(x, accounts, t)
    BY <1>1, <1>3, <1>4 DEF Truthful
<1>8. \A p \in Requests \ {q} : Apart(x, request[p])
    BY <1>4, StaysApart
<1>9. UNCHANGED <<accounts, grants>>
    BY DEF AuditStored, AuditLost
<1>10. t \in {"none", "lost", "success", "refusal"} /\ trail' = [trail EXCEPT ![q] = t]
    BY <1>3
<1> QED
    BY ONLY RoleInv, q \in Requests, <1>2, <1>5, <1>6, <1>7, <1>8, <1>9, <1>10, OneRequest

LEMMA LateAbortKeeps ==
    ASSUME RoleInv, NEW q \in Requests, LateAbort(q)
    PROVE  RoleInv'
<1> DEFINE r == request[q]
           x == Rec(r.pc, r.order, r.changed, "none", r.applied, r.answer)
<1>0. r.pc # "idle"
    BY DEF LateAbort, RoleInv, TypeOK, Idle, Request, Ended, Working, InSession
<1>1. /\ r \in Request \cup Ended /\ Progress(r, accounts, grants)
      /\ Truthful(r, accounts, trail[q])
    BY <1>0, Underway
<1>2. request' = [request EXCEPT ![q] = x]
    BY <1>1, LateUndone DEF LateAbort, RoleInv
<1>3. /\ x.pc = r.pc /\ x.order = r.order /\ x.changed = r.changed /\ x.txn = "none"
      /\ x.applied = r.applied /\ x.answer = r.answer
    BY RecFields
<1>4. r.pc # "committing"
    BY <1>1 DEF Progress, LateAbort
<1>5. x \in Request \cup Ended
    BY <1>1, FieldTypes, RecType
<1> HIDE DEF x
<1>6. \A p \in Requests \ {q} : Apart(x, request[p])
    BY <1>3, StaysApart
<1>7. Progress(x, accounts, grants)
    BY <1>1, <1>3, <1>4 DEF Progress
<1>8. Truthful(x, accounts, trail[q])
    BY <1>1, <1>3 DEF Truthful
<1>9. UNCHANGED <<accounts, grants, trail>>
    BY DEF LateAbort
<1> QED
    BY <1>2, <1>5, <1>6, <1>7, <1>8, <1>9, SameTrail, OneRequest

-----------------------------------------------------------------------------
(* The server commits what a request has written.                          *)

\* The commit is one step of the store, and makes tables that fit.
LEMMA ApplyIsStoreStep ==
    ASSUME RoleInv, NEW q \in Requests, request[q].pc # "idle",
           request[q].txn # "none", Apply(q)
    PROVE  /\ StoreNext
           /\ accounts' \subseteq Users /\ grants' \subseteq accounts' \X Roles
           /\ accounts \subseteq accounts'
           /\ Op(q) = "register" => Target(q) \in accounts' \ accounts
<1>1. /\ request[q].order \in Orders
      /\ Pending(request[q], accounts, grants)
    BY Underway, FieldTypes DEF Progress
<1>2. /\ Op(q) \in {"register", "assign", "remove"} /\ Target(q) \in Users
      /\ request[q].order.role \in Roles
      /\ Op(q) = "register" => Row(q) = <<Target(q), DEFAULT_ROLE>>
    BY <1>1, OrderFacts DEF Pending, Op, Target, Row
<1>3. /\ Op(q) = "register" => Target(q) \notin accounts
      /\ Op(q) = "assign" => Target(q) \in accounts /\ Row(q) \notin grants
      /\ Op(q) = "remove" => Row(q) \in grants
      /\ Row(q) = <<Target(q), request[q].order.role>>
    BY <1>1 DEF Pending, Op, Target, Row, RowOf
<1>4. accounts \subseteq Users /\ grants \subseteq accounts \X Roles
    BY DEF RoleInv, TypeOK
<1>5. CASE Op(q) = "register"
    <2>1. accounts' = accounts \cup {Target(q)} /\ grants' = grants \cup {Row(q)}
        BY <1>5 DEF Apply
    <2>2. CreateUser(Target(q))
        BY <1>2, <1>3, <1>5, <2>1 DEF CreateUser
    <2> QED
        BY <1>2, <1>3, <1>4, <1>5, <2>1, <2>2 DEF StoreNext, DEFAULT_ROLE, Roles
<1>6. CASE Op(q) = "assign"
    <2>1. accounts' = accounts /\ grants' = grants \cup {Row(q)}
        BY <1>6 DEF Apply
    <2>2. AssignRole(Target(q), request[q].order.role)
        BY <1>2, <1>3, <1>6, <2>1 DEF AssignRole
    <2> QED
        BY <1>2, <1>3, <1>4, <1>6, <2>1, <2>2 DEF StoreNext
<1>7. CASE Op(q) = "remove"
    <2>1. accounts' = accounts /\ grants' = grants \ {Row(q)}
        BY <1>7 DEF Apply
    <2>2. RemoveRole(Target(q), request[q].order.role)
        BY <1>2, <1>3, <1>7, <2>1 DEF RemoveRole
    <2> QED
        BY <1>2, <1>3, <1>4, <1>7, <2>1, <2>2 DEF StoreNext
<1> QED
    BY <1>2, <1>5, <1>6, <1>7

\* What another transaction is to do is still to be done after the commit.
LEMMA OthersPending ==
    ASSUME RoleInv, NEW q \in Requests, request[q].pc # "idle",
           request[q].txn # "none", Apply(q),
           NEW p \in Requests \ {q}, request[p].pc # "idle", request[p].txn # "none"
    PROVE  Pending(request[p], accounts', grants')
<1>1. /\ request[q].order \in Orders /\ request[p].order \in Orders
      /\ Pending(request[q], accounts, grants) /\ Pending(request[p], accounts, grants)
    BY Underway, FieldTypes DEF Progress
<1>2. ~(/\ (Op(p) = "register") <=> (Op(q) = "register")
        /\ Row(p) = Row(q))
    BY DEF RoleInv, Apart, Op, Row, RowOf
<1>3. accounts \subseteq accounts'
    BY ApplyIsStoreStep
<1>4. CASE Op(p) = "register"
    <2>1. Target(p) \notin accounts
        BY <1>1, <1>4 DEF Pending, Op, Target
    <2>2. Op(q) = "register" => Target(p) # Target(q)
        BY <1>1, <1>2, <1>4, OrderFacts DEF Op, Row, Target
    <2>3. Target(p) \notin accounts'
        BY <2>1, <2>2 DEF Apply
    <2> QED
        BY <1>1, <1>4, <2>3 DEF Pending, Op, Target
<1>5. CASE Op(p) = "assign"
    <2>1. Target(p) \in accounts /\ Row(p) \notin grants
        BY <1>1, <1>5 DEF Pending, Op, Target, Row, RowOf
    <2>2. Op(q) # "remove" => Row(p) # Row(q)
        <3>1. CASE Op(q) = "register"
            <4>1. Target(q) \notin accounts
                BY <1>1, <3>1 DEF Pending, Op, Target
            <4> QED
                BY <2>1, <4>1 DEF Row, Target
        <3>2. CASE Op(q) # "register"
            BY <1>2, <1>5, <3>2
        <3> QED
            BY <3>1, <3>2
    <2>3. Row(p) \notin grants'
        BY <2>1, <2>2 DEF Apply
    <2> QED
        BY <1>1, <1>3, <1>5, <2>1, <2>3 DEF Pending, Op, Target, Row, RowOf
<1>6. CASE Op(p) = "remove"
    <2>1. Row(p) \in grants
        BY <1>1, <1>6 DEF Pending, Op, Row, RowOf
    <2>2. Op(q) = "remove" => Row(p) # Row(q)
        BY <1>2, <1>6
    <2>3. Row(p) \in grants'
        BY <2>1, <2>2 DEF Apply
    <2> QED
        BY <1>1, <1>6, <2>3 DEF Pending, Op, Row, RowOf
<1>7. Op(p) \in {"register", "assign", "remove"}
    BY <1>1, OrderFacts DEF Pending, Op
<1> QED
    BY <1>4, <1>5, <1>6, <1>7

LEMMA ApplyKeeps ==
    ASSUME RoleInv, NEW q \in Requests, request[q].pc # "idle",
           request[q].txn # "none", Apply(q), UNCHANGED trail,
           NEW x \in Request \cup Ended, request' = [request EXCEPT ![q] = x],
           x.order = request[q].order, x.changed, x.applied, x.txn = "none",
           x.pc \in {"auditing", "answered", "gone"},
           x.pc \in {"auditing", "answered"} => x.answer \in {200, 201, 503},
           x.pc = "answered" => x.answer = 503,
           trail[q] # "success"
    PROVE  RoleInv'
<1>0. /\ accounts' \subseteq Users /\ grants' \subseteq accounts' \X Roles
      /\ accounts \subseteq accounts'
      /\ Op(q) = "register" => Target(q) \in accounts' \ accounts
    BY ApplyIsStoreStep
<1>1. TypeOK'
    BY <1>0 DEF RoleInv, TypeOK
<1>2. (InitialUsers \subseteq accounts)'
    BY <1>0 DEF RoleInv
<1>3. /\ request'[q] = x
      /\ \A p \in Requests \ {q} : request'[p] = request[p]
    BY DEF RoleInv, TypeOK
<1>4. Progress(x, accounts', grants')
    BY DEF Progress, Working, InSession
<1>5. Truthful(x, accounts', trail[q])
    BY <1>0 DEF Truthful, Op, Target, RoleInv
<1>6. ASSUME NEW p \in Requests \ {q}, request[p].pc # "idle"
      PROVE  /\ Progress(request[p], accounts', grants')
             /\ Truthful(request[p], accounts', trail[p])
    <2>1. /\ Progress(request[p], accounts, grants)
          /\ Truthful(request[p], accounts, trail[p])
        BY <1>6, Underway
    <2>2. request[p].txn # "none" => Pending(request[p], accounts', grants')
        BY <1>6, OthersPending
    <2> QED
        BY <1>0, <2>1, <2>2 DEF Progress, Truthful
<1>7. ASSUME NEW p \in Requests
      PROVE  Sound(request'[p], accounts', grants', trail'[p])
    <2>1. CASE p = q
        BY <1>3, <1>4, <1>5, <2>1 DEF Sound
    <2>2. CASE p # q /\ request[p].pc # "idle"
        BY <1>3, <1>6, <2>2, Underway DEF Sound
    <2>3. CASE p # q /\ request[p].pc = "idle"
        <3>1. request[p] \notin Request \cup Ended
            BY <2>3, FieldTypes
        <3> QED
            BY <1>3, <2>3, <3>1 DEF RoleInv, Sound
    <2> QED
        BY <2>1, <2>2, <2>3
<1>8. ASSUME NEW p \in Requests \ {q} PROVE Apart(x, request[p])
    <2>1. CASE request[p].pc = "idle"
        <3>1. request[p] = Idle
            BY <2>1, FieldTypes DEF RoleInv, TypeOK
        <3> QED
            BY <3>1 DEF Apart, Idle
    <2>2. CASE request[p].pc # "idle"
        <3>1. Truthful(request[p], accounts, trail[p])
            BY <2>2, Underway
        <3> QED
            BY <1>0, <3>1 DEF Apart, Truthful, Op, Target
    <2> QED
        BY <2>1, <2>2
<1>9. ASSUME NEW p \in Requests, NEW o \in Requests, p # o
      PROVE  Apart(request'[p], request'[o])
    <2>1. CASE p = q
        BY <1>3, <1>8, <1>9, <2>1
    <2>2. CASE o = q
        BY <1>3, <1>8, <1>9, <2>2, ApartSymmetric
    <2>3. CASE p # q /\ o # q
        BY <1>3, <1>9, <2>3 DEF RoleInv
    <2> QED
        BY <2>1, <2>2, <2>3
<1> QED
    BY <1>1, <1>2, <1>7, <1>9 DEF RoleInv

LEMMA NothingWritten ==
    ASSUME RoleInv, NEW q \in Requests, NEW x \in Request \cup Ended,
           request' = [request EXCEPT ![q] = x], UNCHANGED <<accounts, grants>>,
           UNCHANGED trail,
           Progress(x, accounts, grants), Truthful(x, accounts, trail[q]),
           x.txn = "none", ~x.applied
    PROVE  RoleInv'
<1>1. \A p \in Requests \ {q} : Apart(x, request[p])
    BY DEF Apart
<1> QED
    BY <1>1, SameTrail, OneRequest

\* The request of which the COMMIT is confirmed.
LEMMA CommitMoves ==
    ASSUME RoleInv, NEW q \in Requests, Commit(q)
    PROVE  \E x \in Request \cup Ended :
            /\ request' = [request EXCEPT ![q] = x]
            /\ x.pc = "auditing" /\ x.order = request[q].order
            /\ x.changed = request[q].changed /\ x.txn = "none"
            /\ x.applied = request[q].changed /\ x.answer \in {200, 201}
<1> DEFINE r == request[q]
           f == [request EXCEPT ![q].pc = "auditing"]
           g == [f EXCEPT ![q].txn = "none"]
<1>1. r \in Request \cup Ended
    BY Underway DEF Commit
<1>2. PICK s \in {200, 201} : s = IF Op(q) = "register" THEN 201 ELSE 200
    OBVIOUS
<1>3. PICK a \in BOOLEAN : a = r.changed
    BY <1>1, FieldTypes
<1> DEFINE h == [g EXCEPT ![q].applied = a]
           y == Rec("auditing", r.order, r.changed, r.txn, r.applied, r.answer)
           z == Rec("auditing", r.order, r.changed, "none", r.applied, r.answer)
           w == Rec("auditing", r.order, r.changed, "none", a, r.answer)
           x == Rec("auditing", r.order, r.changed, "none", a, s)
<1>4. request' = [h EXCEPT ![q].answer = s]
    BY <1>2, <1>3 DEF Commit
<1>5. request \in [Requests -> Request \cup Ended \cup {Idle}]
    BY DEF RoleInv, TypeOK
<1>6. r = Rec(r.pc, r.order, r.changed, r.txn, r.applied, r.answer)
    BY <1>1, RecOf
<1>7. f = [request EXCEPT ![q] = y]
    <2>1. [r EXCEPT !.pc = "auditing"] = y
        BY <1>6 DEF Rec
    <2> HIDE DEF y
    <2> QED
        BY <1>5, <2>1
<1> HIDE DEF f
<1>8. g = [request EXCEPT ![q] = z]
    <2>1. [y EXCEPT !.txn = "none"] = z
        BY DEF Rec
    <2> HIDE DEF y, z
    <2>2. f[q] = y /\ q \in DOMAIN f
        BY <1>5, <1>7
    <2>3. g = [f EXCEPT ![q] = z]
        BY <2>1, <2>2
    <2> QED
        BY <1>5, <1>7, <2>3
<1> HIDE DEF g
<1>9. h = [request EXCEPT ![q] = w]
    <2>1. [z EXCEPT !.applied = a] = w
        BY DEF Rec
    <2> HIDE DEF z, w
    <2>2. g[q] = z /\ q \in DOMAIN g
        BY <1>5, <1>8
    <2>3. h = [g EXCEPT ![q] = w]
        BY <2>1, <2>2
    <2> QED
        BY <1>5, <1>8, <2>3
<1> HIDE DEF h
<1>10. request' = [request EXCEPT ![q] = x]
    <2>1. [w EXCEPT !.answer = s] = x
        BY DEF Rec
    <2> HIDE DEF w, x
    <2>2. h[q] = w /\ q \in DOMAIN h
        BY <1>5, <1>9
    <2>3. request' = [h EXCEPT ![q] = x]
        BY <1>4, <2>1, <2>2
    <2> QED
        BY <1>5, <1>9, <2>3
<1>11. /\ x.pc = "auditing" /\ x.order = r.order /\ x.changed = r.changed
       /\ x.txn = "none" /\ x.applied = r.changed /\ x.answer \in {200, 201}
    BY <1>2, <1>3, RecFields
<1>12. x \in Request \cup Ended
    <2>1. "auditing" \in Working /\ s \in Statuses
        BY <1>2 DEF Working, InSession, Statuses
    <2> QED
        BY <1>1, <2>1, FieldTypes, RecType
<1> HIDE DEF x
<1> QED
    BY <1>10, <1>11, <1>12

LEMMA CommitKeeps ==
    ASSUME RoleInv, NEW q \in Requests, Commit(q)
    PROVE  RoleInv'
<1> DEFINE r == request[q]
<1>1. /\ Progress(r, accounts, grants) /\ Truthful(r, accounts, trail[q])
      /\ r.pc = "committing" /\ r.pc # "idle"
    BY Underway DEF Commit
<1>2. PICK x \in Request \cup Ended :
        /\ request' = [request EXCEPT ![q] = x]
        /\ x.pc = "auditing" /\ x.order = r.order /\ x.changed = r.changed
        /\ x.txn = "none" /\ x.applied = r.changed /\ x.answer \in {200, 201}
    BY CommitMoves
<1>3. trail[q] # "success" /\ UNCHANGED trail
    BY <1>1 DEF Truthful, Commit
<1>4. CASE r.changed
    <2>1. r.txn # "none" /\ Apply(q)
        BY <1>1, <1>4 DEF Progress, Commit
    <2>2. /\ x.changed /\ x.applied /\ x.pc \in {"auditing", "answered", "gone"}
          /\ x.answer \in {200, 201, 503} /\ x.pc # "answered"
        BY <1>2, <1>4
    <2> QED
        BY <1>1, <1>2, <1>3, <2>1, <2>2, ApplyKeeps
<1>5. CASE ~r.changed
    <2>1. UNCHANGED <<accounts, grants>>
        BY <1>5 DEF Commit
    <2>2. Progress(x, accounts, grants)
        BY <1>2 DEF Progress, Working, InSession
    <2>3. r.order.op # "register"
        BY <1>1, <1>5 DEF Progress
    <2>4. x.txn = "none" /\ ~x.applied /\ ~x.changed
        BY <1>2, <1>5
    <2>5. Truthful(x, accounts, trail[q])
        BY <1>2, <1>3, <2>3, <2>4 DEF Truthful
    <2> QED
        BY <1>2, <1>3, <2>1, <2>2, <2>4, <2>5, NothingWritten
<1> QED
    BY <1>4, <1>5

LEMMA LateCommitKeeps ==
    ASSUME RoleInv, NEW q \in Requests, LateCommit(q)
    PROVE  RoleInv'
<1> DEFINE r == request[q]
<1>0. r.pc # "idle"
    BY DEF LateCommit, RoleInv, TypeOK, Idle, Request, Ended, Working, InSession
<1>1. /\ r \in Request \cup Ended /\ Progress(r, accounts, grants)
      /\ Truthful(r, accounts, trail[q]) /\ r.txn = "orphan"
    BY <1>0, Underway DEF LateCommit
<1>2. PICK a \in BOOLEAN : a = TRUE
    OBVIOUS
<1> DEFINE x == Rec(r.pc, r.order, r.changed, "none", a, r.answer)
<1>3. request' = [request EXCEPT ![q] = x]
    <2>1. request' = [request EXCEPT ![q].txn = "none", ![q].applied = a]
        BY <1>2 DEF LateCommit
    <2> QED
        BY <1>1, <2>1, LateDone DEF RoleInv
<1>4. /\ x.pc = r.pc /\ x.order = r.order /\ x.changed = r.changed /\ x.txn = "none"
      /\ x.applied = a /\ x.answer = r.answer
    BY RecFields
<1>5. x \in Request \cup Ended
    BY <1>1, FieldTypes, RecType
<1> HIDE DEF x
<1>6. r.changed /\ r.pc \in {"auditing", "answered", "gone"}
    BY <1>1, FieldTypes DEF Progress, Pending, Working, InSession
<1>7. /\ r.pc \in {"auditing", "answered"} => r.answer = 503
      /\ trail[q] # "success"
    BY <1>1 DEF Truthful
<1>8. Apply(q) /\ UNCHANGED trail
    BY DEF LateCommit
<1>9. /\ x.changed /\ x.applied /\ r.txn # "none"
      /\ x.pc \in {"auditing", "answered", "gone"}
      /\ x.pc \in {"auditing", "answered"} => x.answer \in {200, 201, 503}
      /\ x.pc = "answered" => x.answer = 503
    BY <1>1, <1>2, <1>4, <1>6, <1>7
<1> QED
    BY ONLY RoleInv, q \in Requests, <1>0, <1>3, <1>4, <1>5, <1>7, <1>8, <1>9, ApplyKeeps

-----------------------------------------------------------------------------
(* The gateway stops.                                                      *)

LEMMA StoppedSound ==
    ASSUME RoleInv, Crash, NEW q \in Requests
    PROVE  /\ request'[q] \in Request \cup Ended \cup {Idle}
           /\ Sound(request'[q], accounts, grants, trail[q])
           /\ request'[q].applied = request[q].applied
           /\ request'[q].txn # "none" => request[q].txn # "none"
           /\ request[q].pc # "idle" => request'[q].order = request[q].order
<1> DEFINE r == request[q]
           t == IF r.txn = "none" THEN "none" ELSE "orphan"
           x == Rec("gone", r.order, r.changed, t, r.applied, 0)
<1>1. CASE r.pc \notin Working
    BY <1>1 DEF Crash, RoleInv, TypeOK
<1>2. CASE r.pc \in Working
    <2>1. /\ r \in Request \cup Ended /\ Progress(r, accounts, grants)
          /\ Truthful(r, accounts, trail[q])
        BY <1>2, Underway DEF Working, InSession
    <2>2. request'[q] = x
        <3>1. PICK s : s = 0
            OBVIOUS
        <3> DEFINE y == [r EXCEPT !.pc = "gone"]
                   z == [y EXCEPT !.answer = s]
                   w == [z EXCEPT !.txn = t]
        <3>2. request'[q] = w
            BY <1>2, <2>1, <3>1 DEF Crash, Request, Ended
        <3>3. r = Rec(r.pc, r.order, r.changed, r.txn, r.applied, r.answer)
            BY <2>1, RecOf
        <3>4. y = Rec("gone", r.order, r.changed, r.txn, r.applied, r.answer)
            BY <3>3 DEF Rec
        <3> HIDE DEF y, t
        <3>5. z = Rec("gone", r.order, r.changed, r.txn, r.applied, s)
            BY <3>4 DEF Rec
        <3> HIDE DEF z
        <3>6. w = x
            BY <3>1, <3>5 DEF Rec
        <3> QED
            BY <3>2, <3>6
    <2>3. t \in {"none", "orphan"} /\ (t # "none" => r.txn # "none")
        OBVIOUS
    <2> HIDE DEF t
    <2>4. /\ x.pc = "gone" /\ x.order = r.order /\ x.changed = r.changed
          /\ x.txn = t /\ x.applied = r.applied /\ x.answer = 0
        BY RecFields
    <2>5. x \in Request \cup Ended
        BY <2>1, <2>3, FieldTypes, RecType DEF Statuses
    <2> HIDE DEF x
    <2>6. Progress(x, accounts, grants)
        BY <2>1, <2>3, <2>4 DEF Progress, Pending, RowOf, Working, InSession
    <2>7. trail[q] # "success"
        BY <1>2, <2>1 DEF Truthful, Working, InSession
    <2>8. Truthful(x, accounts, trail[q])
        BY <2>1, <2>4, <2>7 DEF Truthful
    <2> QED
        BY <2>2, <2>3, <2>4, <2>5, <2>6, <2>8 DEF Sound
<1> QED
    BY <1>1, <1>2

LEMMA CrashKeeps ==
    ASSUME RoleInv, Crash
    PROVE  RoleInv'
<1>1. UNCHANGED <<accounts, grants, trail>>
    BY DEF Crash
<1>2. request' \in [Requests -> Request \cup Ended \cup {Idle}]
    <2>1. request' = [q \in Requests |-> request'[q]]
        BY DEF Crash
    <2> QED
        BY <2>1, StoppedSound
<1>3. TypeOK'
    BY <1>1, <1>2 DEF RoleInv, TypeOK
<1>4. \A q \in Requests : Sound(request'[q], accounts', grants', trail'[q])
    BY <1>1, StoppedSound
<1>5. ASSUME NEW p \in Requests, NEW q \in Requests, p # q
      PROVE  Apart(request'[p], request'[q])
    <2>1. Apart(request[p], request[q])
        BY <1>5 DEF RoleInv
    <2>2. \A o \in Requests : request[o].pc = "idle" => request[o] = Idle
        BY FieldTypes DEF RoleInv, TypeOK
    <2>3. \A o \in Requests :
            /\ request'[o].applied => request[o].applied
            /\ request'[o].txn # "none" => request[o].txn # "none"
            /\ request[o].applied \/ request[o].txn # "none" =>
                request'[o].order = request[o].order
        BY <2>2, StoppedSound DEF Idle
    <2> QED
        BY <2>1, <2>3 DEF Apart, RowOf
<1> QED
    BY <1>1, <1>3, <1>4, <1>5 DEF RoleInv

-----------------------------------------------------------------------------
(* The invariant and what follows from it.                                 *)

LEMMA InitSound ==
    ASSUME Init
    PROVE  RoleInv
<1>1. TypeOK
    BY StoreAssumption DEF Init, StoreInit, TypeOK, DEFAULT_ROLE, Roles
<1>2. InitialUsers \subseteq accounts
    BY DEF Init, StoreInit
<1>3. \A q \in Requests : Sound(request[q], accounts, grants, trail[q])
    BY DEF Init, Sound
<1>4. \A q \in Requests : request[q].txn = "none" /\ ~request[q].applied
    BY DEF Init, Idle
<1>5. \A p, q \in Requests : Apart(request[p], request[q])
    BY <1>4 DEF Apart
<1> QED
    BY <1>1, <1>2, <1>3, <1>5 DEF RoleInv

LEMMA StepKeeps ==
    ASSUME RoleInv, NEW q \in Requests, Step(q)
    PROVE  RoleInv'
    BY ReadingKeeps, WritingKeeps, CommitKeeps, AuditKeeps
    DEF Step, register_user, read_user_roles, assign_user_role, remove_user_role

LEMMA NextKeeps == RoleInv /\ [Next]_vars => RoleInv'
<1> SUFFICES ASSUME RoleInv, [Next]_vars PROVE RoleInv'
    OBVIOUS
<1>1. ASSUME NEW q \in Requests, NEW o \in Orders, Begin(q, o) PROVE RoleInv'
    BY <1>1, BeginKeeps
<1>2. ASSUME NEW q \in Requests, Step(q) PROVE RoleInv'
    BY <1>2, StepKeeps
<1>3. ASSUME NEW q \in Requests, Fault(q) PROVE RoleInv'
    BY <1>3, CommitFailsKeeps, ReadingKeeps, AuditKeeps DEF Fault
<1>4. ASSUME NEW q \in Requests, Settle(q) PROVE RoleInv'
    BY <1>4, LateCommitKeeps, LateAbortKeeps DEF Settle
<1>5. CASE Crash
    BY <1>5, CrashKeeps
<1>6. CASE UNCHANGED vars
    BY <1>6 DEF vars, RoleInv, TypeOK
<1> QED
    BY <1>1, <1>2, <1>3, <1>4, <1>5, <1>6 DEF Next

\* The inductive invariant holds for any number of requests, any orders and a
\* pool of any size.
THEOREM RoleInvariant == Spec => []RoleInv
    BY InitSound, NextKeeps, PTL DEF Spec

\* Type correctness: an assignment is always of an existing account and of a
\* seeded role.
THEOREM TypeCorrect == Spec => []TypeOK
<1>1. RoleInv => TypeOK
    BY DEF RoleInv
<1> QED
    BY <1>1, RoleInvariant, PTL

\* The answers and the trail tell the truth about the store.
LEMMA InvTruthful == RoleInv => TrailTruthful
<1> SUFFICES ASSUME RoleInv, NEW q \in Requests
             PROVE  /\ trail[q] = "success" /\ request[q].changed => request[q].applied
                    /\ request[q].applied /\ trail[q] # "success" =>
                        \/ request[q].pc \in {"auditing", "gone"}
                        \/ trail[q] = "lost"
                        \/ request[q].answer = 503
    BY DEF TrailTruthful
<1>1. CASE request[q].pc = "idle"
    <2>1. request[q] = Idle
        BY <1>1, FieldTypes DEF RoleInv, TypeOK
    <2> QED
        BY <2>1 DEF Idle
<1>2. CASE request[q].pc # "idle"
    <2>1. /\ request[q] \in Request \cup Ended /\ Progress(request[q], accounts, grants)
          /\ Truthful(request[q], accounts, trail[q])
        BY <1>2, Underway
    <2>2. request[q].pc \in Working \cup {"answered", "gone"}
        BY <2>1, FieldTypes
    <2>3. request[q].applied => request[q].pc \in {"auditing", "answered", "gone"}
        BY <2>1, <2>2 DEF Progress, Working, InSession
    <2> QED
        BY <2>1, <2>3 DEF Truthful
<1> QED
    BY <1>1, <1>2

\* The audit trail never reports a success that is not committed, and says
\* why it misses a change that is.
THEOREM TrailIsTruthful == Spec => []TrailTruthful
    BY InvTruthful, RoleInvariant, PTL

LEMMA InvOneAccount == RoleInv => OneAccountPerName
<1> SUFFICES ASSUME RoleInv, NEW q \in Requests,
                    request[q].pc # "idle", Op(q) = "register"
             PROVE  /\ request[q].applied =>
                        /\ Target(q) \in accounts \ InitialUsers
                        /\ \A p \in Requests \ {q} :
                            request[p].applied /\ Op(p) = "register"
                                => Target(p) # Target(q)
                    /\ request[q].pc = "answered" /\ request[q].answer \in {201, 409} =>
                        Target(q) \in accounts
    BY DEF OneAccountPerName
<1>1. Truthful(request[q], accounts, trail[q])
    BY Underway
<1>2. \A p \in Requests \ {q} : Apart(request[q], request[p])
    BY DEF RoleInv
<1> QED
    BY <1>1, <1>2 DEF Truthful, Apart, Op, Target

\* However registrations race, one name gets one account.
THEOREM OneAccount == Spec => []OneAccountPerName
    BY InvOneAccount, RoleInvariant, PTL

\* Every step that changes the tables is a step of the store.
LEMMA StepImplements ==
    ASSUME RoleInv, [Next]_vars
    PROVE  [StoreNext]_<<accounts, grants>>
<1>1. ASSUME NEW q \in Requests, Commit(q) PROVE [StoreNext]_<<accounts, grants>>
    <2>1. CASE request[q].changed
        <3>1. request[q].pc # "idle" /\ request[q].pc = "committing" /\ Apply(q)
            BY <1>1, <2>1 DEF Commit
        <3>2. request[q].txn # "none"
            BY <2>1, <3>1, Underway DEF Progress
        <3> QED
            BY <3>1, <3>2, ApplyIsStoreStep
    <2>2. CASE ~request[q].changed
        BY <1>1, <2>2 DEF Commit
    <2> QED
        BY <2>1, <2>2
<1>2. ASSUME NEW q \in Requests, LateCommit(q) PROVE [StoreNext]_<<accounts, grants>>
    <2>1. request[q].pc # "idle" /\ request[q].txn # "none" /\ Apply(q)
        BY <1>2 DEF LateCommit, RoleInv, TypeOK, Idle, Request, Ended, Working, InSession
    <2> QED
        BY <2>1, ApplyIsStoreStep
<1>3. ASSUME NEW q \in Requests, NEW o \in Orders, Begin(q, o)
      PROVE  UNCHANGED <<accounts, grants>>
    BY <1>3 DEF Begin
<1>4. ASSUME NEW q \in Requests, Step(q), ~Commit(q)
      PROVE  UNCHANGED <<accounts, grants>>
    BY <1>4 DEF Step, register_user, read_user_roles, assign_user_role,
        remove_user_role, Authorize, FindTarget, ReadRoles, OpenSession, InsertRole,
        DeleteRole, InsertUser, AuditStored
<1>5. ASSUME NEW q \in Requests, Fault(q) PROVE UNCHANGED <<accounts, grants>>
    BY <1>5 DEF Fault, CommitFails, Unavailable, AuditLost
<1>6. ASSUME NEW q \in Requests, LateAbort(q) PROVE UNCHANGED <<accounts, grants>>
    BY <1>6 DEF LateAbort
<1>7. CASE Crash
    BY <1>7 DEF Crash
<1>8. CASE UNCHANGED vars
    BY <1>8 DEF vars
<1> QED
    BY <1>1, <1>2, <1>3, <1>4, <1>5, <1>6, <1>7, <1>8 DEF Next, Settle

\* The repositories and their transactions implement AuthorizationStore, for
\* every interleaving, failure and crash: accounts and assignments change one
\* at a time and at once.
THEOREM StoreImplemented == Spec => ImplementsStore
<1>1. Init => StoreInit
    BY DEF Init
<1>2. RoleInv /\ [Next]_vars => [StoreNext]_<<accounts, grants>>
    BY StepImplements
<1> QED
    BY <1>1, <1>2, RoleInvariant, PTL DEF Spec, ImplementsStore, StoreSpec

-----------------------------------------------------------------------------
(* What was changed explains what is there.                                *)

Begun == {p \in Requests : request[p].pc # "idle"}

\* Finitely many requests have arrived, however many there may be, and their
\* changes add up.
ChangeInv == IsFiniteSet(Begun) /\ ChangesAddUp

LEMMA AppliedBegun ==
    ASSUME RoleInv, NEW q \in Requests, request[q].applied \/ request[q].txn # "none"
    PROVE  request[q].pc # "idle"
<1>1. request[q].pc = "idle" => request[q] = Idle
    BY FieldTypes DEF RoleInv, TypeOK
<1> QED
    BY <1>1 DEF Idle

LEMMA ChangesFinite ==
    ASSUME RoleInv, IsFiniteSet(Begun), NEW row
    PROVE  IsFiniteSet(Added(row)) /\ IsFiniteSet(Removed(row))
<1>1. Added(row) \in SUBSET Begun /\ Removed(row) \in SUBSET Begun
    BY AppliedBegun DEF Added, Removed, Begun
<1> QED
    BY <1>1, FS_Subset

\* A step that commits nothing.
LEMMA NothingApplied ==
    ASSUME ChangeInv, UNCHANGED grants,
           \A p \in Requests :
            /\ request'[p].applied <=> request[p].applied
            /\ request[p].applied => request'[p].order = request[p].order,
           NEW q, Begun' \subseteq Begun \cup {q}
    PROVE  ChangeInv'
<1>1. \A row : Added(row)' = Added(row) /\ Removed(row)' = Removed(row)
    BY DEF Added, Removed, Op, Row
<1>2. ChangesAddUp'
    BY <1>1 DEF ChangeInv, ChangesAddUp
<1>3. IsFiniteSet(Begun')
    BY FS_AddElement, FS_Subset DEF ChangeInv
<1> QED
    BY <1>2, <1>3 DEF ChangeInv

\* One row more, or one less.
LEMMA ApplyAddsUp ==
    ASSUME RoleInv, ChangeInv, NEW q \in Requests, request[q].txn # "none", Apply(q),
           NEW x, request' = [request EXCEPT ![q] = x], x.applied, x.pc # "idle",
           x.order = request[q].order
    PROVE  ChangeInv'
<1>0. request[q].pc # "idle"
    BY AppliedBegun
<1>1. /\ request[q].order \in Orders
      /\ Pending(request[q], accounts, grants)
    BY <1>0, Underway, FieldTypes DEF Progress
<1>2. \A p \in Requests : request'[p] = IF p = q THEN x ELSE request[p]
    BY DEF RoleInv, TypeOK
<1>3. Begun' = Begun
    BY <1>0, <1>2 DEF Begun
<1>4. ~request[q].applied
    BY <1>1 DEF Pending
<1>5. /\ Op(q) # "remove" => Row(q) \notin grants /\ grants' = grants \cup {Row(q)}
      /\ Op(q) = "remove" => Row(q) \in grants /\ grants' = grants \ {Row(q)}
    <2>1. grants \subseteq accounts \X Roles
        BY DEF RoleInv, TypeOK
    <2>2. Op(q) \in {"register", "assign", "remove"}
        BY <1>1, OrderFacts DEF Pending, Op
    <2>3. Op(q) = "register" => Row(q) \notin grants
        BY <1>1, <2>1 DEF Pending, Op, Row
    <2>4. Op(q) = "assign" => Row(q) \notin grants
        BY <1>1 DEF Pending, Op, Row, RowOf
    <2>5. Op(q) = "remove" => Row(q) \in grants
        BY <1>1 DEF Pending, Op, Row, RowOf
    <2> QED
        BY <2>2, <2>3, <2>4, <2>5 DEF Apply
<1>6. ASSUME NEW row \in Users \X Roles
      PROVE  Cardinality(Added(row)') + (IF row \in InitialGrants THEN 1 ELSE 0)
                = Cardinality(Removed(row)') + (IF row \in grants' THEN 1 ELSE 0)
    <2>1. /\ q \notin Added(row) /\ q \notin Removed(row)
          /\ q \in Added(row)' <=> Op(q) # "remove" /\ Row(q) = row
          /\ q \in Removed(row)' <=> Op(q) = "remove" /\ Row(q) = row
        BY <1>2, <1>4 DEF Added, Removed, Op, Row
    <2>2. Added(row)' \ {q} = Added(row) \ {q}
        BY <1>2 DEF Added, Op, Row
    <2>3. Removed(row)' \ {q} = Removed(row) \ {q}
        BY <1>2 DEF Removed, Op, Row
    <2>4. IsFiniteSet(Added(row)) /\ IsFiniteSet(Removed(row))
        BY ChangesFinite DEF ChangeInv
    <2>5. /\ Cardinality(Added(row)) \in Nat /\ Cardinality(Added(row)') \in Nat
          /\ Cardinality(Added(row)') + Bit(q \in Added(row))
                = Cardinality(Added(row)) + Bit(q \in Added(row)')
        BY <2>2, <2>4, OneDiffers
    <2>6. /\ Cardinality(Removed(row)) \in Nat /\ Cardinality(Removed(row)') \in Nat
          /\ Cardinality(Removed(row)') + Bit(q \in Removed(row))
                = Cardinality(Removed(row)) + Bit(q \in Removed(row)')
        BY <2>3, <2>4, OneDiffers
    <2>7. Cardinality(Added(row)) + (IF row \in InitialGrants THEN 1 ELSE 0)
            = Cardinality(Removed(row)) + (IF row \in grants THEN 1 ELSE 0)
        BY <1>6 DEF ChangeInv, ChangesAddUp
    <2>8. CASE Row(q) # row
        <3>1. row \in grants' <=> row \in grants
            BY <1>5, <2>8
        <3>2. /\ Cardinality(Added(row)') = Cardinality(Added(row))
              /\ Cardinality(Removed(row)') = Cardinality(Removed(row))
            BY <2>1, <2>5, <2>6, <2>8 DEF Bit
        <3> QED
            BY <2>7, <3>1, <3>2
    <2>9. CASE Row(q) = row /\ Op(q) = "remove"
        <3>1. row \in grants /\ row \notin grants'
            BY <1>5, <2>9
        <3>2. /\ Cardinality(Added(row)') = Cardinality(Added(row))
              /\ Cardinality(Removed(row)') = Cardinality(Removed(row)) + 1
            BY <2>1, <2>5, <2>6, <2>9 DEF Bit
        <3> QED
            BY <2>5, <2>6, <2>7, <3>1, <3>2
    <2>10. CASE Row(q) = row /\ Op(q) # "remove"
        <3>1. row \notin grants /\ row \in grants'
            BY <1>5, <2>10
        <3>2. /\ Cardinality(Added(row)') = Cardinality(Added(row)) + 1
              /\ Cardinality(Removed(row)') = Cardinality(Removed(row))
            BY <2>1, <2>5, <2>6, <2>10 DEF Bit
        <3> QED
            BY <2>5, <2>6, <2>7, <3>1, <3>2
    <2> QED
        BY <2>8, <2>9, <2>10
<1>7. InitialGrants' = InitialGrants
    BY DEF InitialGrants, DEFAULT_ROLE
<1>8. ChangesAddUp'
    BY <1>6, <1>7 DEF ChangesAddUp
<1> QED
    BY <1>3, <1>8 DEF ChangeInv

\* One request moves on, and what it has committed stays as it is.
LEMMA OneMoves ==
    ASSUME RoleInv, ChangeInv, NEW q \in Requests, UNCHANGED grants,
           NEW x, request' = [request EXCEPT ![q] = x],
           x.applied <=> request[q].applied,
           request[q].applied => x.order = request[q].order
    PROVE  ChangeInv'
<1>1. \A p \in Requests : request'[p] = IF p = q THEN x ELSE request[p]
    BY DEF RoleInv, TypeOK
<1>2. Begun' \subseteq Begun \cup {q}
    BY <1>1 DEF Begun
<1> QED
    BY <1>1, <1>2, NothingApplied

LEMMA BeginAddsUp ==
    ASSUME RoleInv, ChangeInv, NEW q \in Requests, NEW o \in Orders, Begin(q, o)
    PROVE  ChangeInv'
<1>1. ~request[q].applied /\ UNCHANGED grants
    BY AppliedBegun DEF Begin
<1>2. PICK pc : pc = IF o.op = "register" THEN "opening" ELSE "authorizing"
    OBVIOUS
<1> DEFINE x == Rec(pc, o, FALSE, "none", FALSE, 0)
<1>3. request' = [request EXCEPT ![q] = x]
    BY <1>2 DEF Begin, Rec
<1>4. ~x.applied
    BY DEF Rec
<1> HIDE DEF x
<1> QED
    BY <1>1, <1>3, <1>4, OneMoves

\* The updates that leave applied and order alone.
LEMMA GoAddsUp ==
    ASSUME RoleInv, ChangeInv, NEW q \in Requests, request[q] \in Request \cup Ended,
           UNCHANGED grants, NEW pc, Go(q, pc)
    PROVE  ChangeInv'
<1> DEFINE r == request[q]
           x == Rec(pc, r.order, r.changed, r.txn, r.applied, r.answer)
<1>1. request' = [request EXCEPT ![q] = x]
    BY MovedOn DEF Go, RoleInv
<1>2. x.applied = r.applied /\ x.order = r.order
    BY RecFields
<1> HIDE DEF x
<1> QED
    BY <1>1, <1>2, OneMoves

LEMMA ConcludeAddsUp ==
    ASSUME RoleInv, ChangeInv, NEW q \in Requests, request[q] \in Request \cup Ended,
           UNCHANGED grants, NEW pc, NEW s, Conclude(q, pc, s)
    PROVE  ChangeInv'
<1> DEFINE r == request[q]
           x == [r EXCEPT !.pc = pc, !.answer = s]
<1>1. request' = [request EXCEPT ![q] = x]
    BY DEF Conclude, RoleInv, TypeOK
<1>2. x.applied = r.applied /\ x.order = r.order
    BY DEF Request, Ended
<1> HIDE DEF x
<1> QED
    BY <1>1, <1>2, OneMoves

LEMMA WroteAddsUp ==
    ASSUME RoleInv, ChangeInv, NEW q \in Requests, request[q] \in Request \cup Ended,
           UNCHANGED grants, NEW c \in BOOLEAN, Wrote(q, c)
    PROVE  ChangeInv'
<1>1. PICK t : t = IF c THEN "open" ELSE "none"
    OBVIOUS
<1> DEFINE r == request[q]
           x == [r EXCEPT !.pc = "committing", !.changed = c, !.txn = t]
<1>2. request' = [request EXCEPT ![q].pc = "committing", ![q].changed = c, ![q].txn = t]
    BY <1>1 DEF Wrote
<1>3. request' = [request EXCEPT ![q] = x]
    BY <1>2 DEF RoleInv, TypeOK
<1>4. x.applied = r.applied /\ x.order = r.order
    BY DEF Request, Ended
<1> HIDE DEF x
<1> QED
    BY <1>3, <1>4, OneMoves

LEMMA CommitFailsAddsUp ==
    ASSUME RoleInv, ChangeInv, NEW q \in Requests, CommitFails(q)
    PROVE  ChangeInv'
<1>0. request[q] \in Request \cup Ended /\ UNCHANGED grants
    BY Underway DEF CommitFails
<1>1. PICK t : t = IF request[q].changed THEN "orphan" ELSE "none"
    OBVIOUS
<1>2. PICK s : s = 503
    OBVIOUS
<1> DEFINE r == request[q]
           x == [r EXCEPT !.pc = "auditing", !.txn = t, !.answer = s]
<1>3. request' = [request EXCEPT ![q].pc = "auditing", ![q].txn = t, ![q].answer = s]
    BY <1>1, <1>2 DEF CommitFails
<1>4. request' = [request EXCEPT ![q] = x]
    BY <1>3 DEF RoleInv, TypeOK
<1>5. x.applied = r.applied /\ x.order = r.order
    BY <1>0 DEF Request, Ended
<1> HIDE DEF x
<1> QED
    BY <1>0, <1>4, <1>5, OneMoves

LEMMA LateAbortAddsUp ==
    ASSUME RoleInv, ChangeInv, NEW q \in Requests, LateAbort(q)
    PROVE  ChangeInv'
<1>0. request[q] \in Request \cup Ended /\ UNCHANGED grants
    BY AppliedBegun, Underway DEF LateAbort
<1> DEFINE r == request[q]
           x == [r EXCEPT !.txn = "none"]
<1>1. request' = [request EXCEPT ![q] = x]
    BY DEF LateAbort, RoleInv, TypeOK
<1>2. x.applied = r.applied /\ x.order = r.order
    BY <1>0 DEF Request, Ended
<1> HIDE DEF x
<1> QED
    BY <1>0, <1>1, <1>2, OneMoves

\* Every step of a request but the confirmed COMMIT.
LEMMA UncommittedAddsUp ==
    ASSUME RoleInv, ChangeInv, NEW q \in Requests,
           \/ Step(q) /\ ~Commit(q)
           \/ Unavailable(q) \/ AuditLost(q)
    PROVE  ChangeInv'
<1>1. request[q].pc \in Working /\ UNCHANGED grants
    BY DEF Step, register_user, read_user_roles, assign_user_role, remove_user_role,
        Authorize, FindTarget, ReadRoles, OpenSession, InsertRole, DeleteRole,
        InsertUser, AuditStored, Unavailable, AuditLost, Working, InSession
<1>2. request[q] \in Request \cup Ended
    BY <1>1, Underway DEF Working, InSession
<1>3. \/ \E pc : Go(q, pc)
      \/ \E pc, s : Conclude(q, pc, s)
      \/ \E c \in BOOLEAN : Wrote(q, c)
    <2>1. CASE Step(q) /\ ~Commit(q)
        <3>1. \/ Authorize(q) \/ FindTarget(q) \/ ReadRoles(q) \/ OpenSession(q)
              \/ InsertRole(q) \/ DeleteRole(q) \/ InsertUser(q) \/ AuditStored(q)
            BY <2>1 DEF Step, register_user, read_user_roles, assign_user_role,
                        remove_user_role
        <3>2. CASE Authorize(q) \/ FindTarget(q) \/ ReadRoles(q) \/ OpenSession(q)
            BY <3>2 DEF Authorize, FindTarget, ReadRoles, OpenSession
        <3>3. CASE InsertRole(q)
            BY <3>3 DEF InsertRole
        <3>4. CASE DeleteRole(q)
            <4>1. (Row(q) \in grants) \in BOOLEAN
                OBVIOUS
            <4>2. Wrote(q, Row(q) \in grants)
                BY <3>4 DEF DeleteRole
            <4> QED
                BY <4>1, <4>2, Zenon
        <3>5. CASE InsertUser(q) \/ AuditStored(q)
            BY <3>5 DEF InsertUser, AuditStored
        <3> QED
            BY <3>1, <3>2, <3>3, <3>4, <3>5
    <2>2. CASE Unavailable(q) \/ AuditLost(q)
        BY <2>2 DEF Unavailable, AuditLost
    <2> QED
        BY <2>1, <2>2
<1> QED
    BY <1>1, <1>2, <1>3, GoAddsUp, ConcludeAddsUp, WroteAddsUp

LEMMA CommitAddsUp ==
    ASSUME RoleInv, ChangeInv, NEW q \in Requests, Commit(q)
    PROVE  ChangeInv'
<1> DEFINE r == request[q]
<1>1. Progress(r, accounts, grants) /\ r.pc = "committing"
    BY Underway DEF Commit
<1>2. PICK x \in Request \cup Ended :
        /\ request' = [request EXCEPT ![q] = x]
        /\ x.pc = "auditing" /\ x.order = r.order /\ x.applied = r.changed
    BY CommitMoves
<1>3. CASE r.changed
    <2>1. r.txn # "none" /\ Apply(q) /\ x.applied /\ x.pc # "idle"
        BY <1>1, <1>2, <1>3 DEF Progress, Commit
    <2> QED
        BY <1>2, <2>1, ApplyAddsUp
<1>4. CASE ~r.changed
    <2>1. UNCHANGED grants /\ ~x.applied /\ ~r.applied
        BY <1>1, <1>2, <1>4 DEF Progress, Commit
    <2> QED
        BY <1>2, <2>1, OneMoves
<1> QED
    BY <1>3, <1>4

LEMMA LateCommitAddsUp ==
    ASSUME RoleInv, ChangeInv, NEW q \in Requests, LateCommit(q)
    PROVE  ChangeInv'
<1> DEFINE r == request[q]
<1>0. r.txn # "none" /\ r.pc # "idle" /\ Apply(q) /\ TypeOK
    BY AppliedBegun DEF LateCommit, RoleInv
<1>1. r \in Request \cup Ended
    BY <1>0, Underway
<1>2. PICK a \in BOOLEAN : a = TRUE
    OBVIOUS
<1> DEFINE x == Rec(r.pc, r.order, r.changed, "none", a, r.answer)
<1>3. request' = [request EXCEPT ![q] = x]
    <2>1. request' = [request EXCEPT ![q].txn = "none", ![q].applied = a]
        BY <1>2 DEF LateCommit
    <2> QED
        BY <1>0, <1>1, <2>1, LateDone
<1>4. x.pc = r.pc /\ x.order = r.order /\ x.applied = a
    BY RecFields
<1> HIDE DEF x
<1> QED
    BY <1>0, <1>2, <1>3, <1>4, ApplyAddsUp

LEMMA CrashAddsUp ==
    ASSUME RoleInv, ChangeInv, Crash
    PROVE  ChangeInv'
<1>1. ASSUME NEW p \in Requests
      PROVE  /\ request'[p].applied <=> request[p].applied
             /\ request[p].applied => request'[p].order = request[p].order
             /\ request[p].pc = "idle" => request'[p].pc = "idle"
    <2>1. request[p].pc = "idle" => request'[p] = request[p]
        BY DEF Crash, Working, InSession
    <2> QED
        BY <2>1, StoppedSound, AppliedBegun
<1>2. Begun' \subseteq Begun
    BY <1>1 DEF Begun
<1>3. \E q : Begun' \subseteq Begun \cup {q}
    BY <1>2
<1> QED
    BY <1>1, <1>3, NothingApplied DEF Crash

LEMMA InitAddsUp ==
    ASSUME Init
    PROVE  ChangeInv
<1>1. \A q \in Requests : request[q].pc = "idle" /\ ~request[q].applied
    BY DEF Init, Idle
<1>2. Begun = {} /\ \A row : Added(row) = {} /\ Removed(row) = {}
    BY <1>1 DEF Begun, Added, Removed
<1>3. grants = InitialGrants
    BY DEF Init, StoreInit, InitialGrants
<1> QED
    BY <1>2, <1>3, FS_EmptySet DEF ChangeInv, ChangesAddUp

LEMMA NextAddsUp == RoleInv /\ ChangeInv /\ [Next]_vars => ChangeInv'
<1> SUFFICES ASSUME RoleInv, ChangeInv, [Next]_vars PROVE ChangeInv'
    OBVIOUS
<1>1. ASSUME NEW q \in Requests, NEW o \in Orders, Begin(q, o) PROVE ChangeInv'
    BY <1>1, BeginAddsUp
<1>2. ASSUME NEW q \in Requests, Step(q) PROVE ChangeInv'
    BY <1>2, CommitAddsUp, UncommittedAddsUp
<1>3. ASSUME NEW q \in Requests, Fault(q) PROVE ChangeInv'
    BY <1>3, CommitFailsAddsUp, UncommittedAddsUp DEF Fault
<1>4. ASSUME NEW q \in Requests, Settle(q) PROVE ChangeInv'
    BY <1>4, LateCommitAddsUp, LateAbortAddsUp DEF Settle
<1>5. CASE Crash
    BY <1>5, CrashAddsUp
<1>6. CASE UNCHANGED vars
    <2>1. Begun' = Begun /\ grants' = grants
          /\ \A row : Added(row)' = Added(row) /\ Removed(row)' = Removed(row)
        BY <1>6 DEF vars, Begun, Added, Removed, Op, Row
    <2> QED
        BY <2>1 DEF ChangeInv, ChangesAddUp
<1> QED
    BY <1>1, <1>2, <1>3, <1>4, <1>5, <1>6 DEF Next

\* "changed" is the truth for any number of requests, also when the outcome
\* of a COMMIT is unknown and when the gateway stops: the committed additions
\* and removals of a row explain whether it is there.
THEOREM ChangesAdd == Spec => []ChangesAddUp
<1>1. Spec => []ChangeInv
    BY InitAddsUp, NextAddsUp, RoleInvariant, PTL DEF Spec
<1>2. ChangeInv => ChangesAddUp
    BY DEF ChangeInv
<1> QED
    BY <1>1, <1>2, PTL

-----------------------------------------------------------------------------
(* The pool: who waits, and for whom.                                      *)

Sessions == {q \in Requests : request[q].pc \in InSession}

PoolInv == Cardinality(Sessions) <= PoolSize

LEMMA SessionsFinite ==
    ASSUME IsFiniteSet(Begun)
    PROVE  IsFiniteSet(Sessions) /\ Cardinality(Sessions) \in Nat
<1>1. Sessions \in SUBSET Begun
    BY DEF Sessions, Begun, InSession
<1> QED
    BY <1>1, FS_Subset, FS_CardinalityType

\* Sessions are given back, or one is taken that was free.
LEMMA PoolKeeps ==
    ASSUME IsFiniteSet(Begun), PoolInv,
           \/ Sessions' \subseteq Sessions
           \/ Free /\ \E q : Sessions' \subseteq Sessions \cup {q}
    PROVE  PoolInv'
<1>1. IsFiniteSet(Sessions) /\ Cardinality(Sessions) \in Nat
    BY SessionsFinite
<1>2. PoolSize \in Nat
    BY OrdersAssumption
<1>3. CASE Sessions' \subseteq Sessions
    <2>1. Cardinality(Sessions') \in Nat /\ Cardinality(Sessions') <= Cardinality(Sessions)
        BY <1>1, <1>3, FS_Subset, FS_CardinalityType
    <2> QED
        BY <1>1, <1>2, <2>1 DEF PoolInv
<1>4. ASSUME Free, NEW q, Sessions' \subseteq Sessions \cup {q} PROVE PoolInv'
    <2> DEFINE S == Sessions \cup {q}
    <2>0. /\ IsFiniteSet(S)
          /\ Cardinality(S) = Cardinality(Sessions) \/ Cardinality(S) = Cardinality(Sessions) + 1
        BY <1>1, FS_AddElement
    <2>1. /\ IsFiniteSet(S) /\ Cardinality(S) \in Nat
          /\ Cardinality(S) <= Cardinality(Sessions) + 1
        BY <1>1, <2>0
    <2>2. Sessions' \in SUBSET S
        BY <1>4
    <2> HIDE DEF S
    <2>3. Cardinality(Sessions') \in Nat /\ Cardinality(Sessions') <= Cardinality(S)
        BY <2>1, <2>2, FS_Subset, FS_CardinalityType
    <2>4. Cardinality(Sessions) < PoolSize
        BY <1>4 DEF Free, Sessions
    <2> QED
        BY <1>1, <1>2, <2>1, <2>3, <2>4 DEF PoolInv
<1> QED
    BY <1>3, <1>4

\* The session a request may have taken in this step.
LEMMA OneSession ==
    ASSUME NEW q \in Requests,
           \A p \in Requests \ {q} : request'[p] = request[p]
    PROVE  /\ Sessions' \subseteq Sessions \cup {q}
           /\ q \in Sessions \/ request'[q].pc \notin InSession =>
                Sessions' \subseteq Sessions
    BY DEF Sessions

LEMMA UpdatedPc ==
    ASSUME TypeOK, NEW q \in Requests, NEW pc,
           \/ Go(q, pc)
           \/ \E s : Conclude(q, pc, s)
    PROVE  /\ request'[q].pc = pc
           /\ \A p \in Requests \ {q} : request'[p] = request[p]
<1>1. \A p \in Requests \ {q} : request'[p] = request[p]
    BY DEF TypeOK, Go, Conclude
<1> DEFINE r == request[q]
<1>2. r \in Request \cup Ended \cup {Idle}
    BY DEF TypeOK
<1>3. CASE Go(q, pc)
    <2> DEFINE x == [r EXCEPT !.pc = pc]
    <2>1. request'[q] = x
        BY <1>3 DEF TypeOK, Go
    <2>2. x.pc = pc
        BY <1>2 DEF Request, Ended, Idle
    <2> QED
        BY <1>1, <2>1, <2>2
<1>4. ASSUME NEW s, Conclude(q, pc, s) PROVE request'[q].pc = pc
    <2> DEFINE x == [r EXCEPT !.pc = pc, !.answer = s]
    <2>1. request'[q] = x
        BY <1>4 DEF TypeOK, Conclude
    <2>2. x.pc = pc
        BY <1>2 DEF Request, Ended, Idle
    <2> QED
        BY <2>1, <2>2
<1> QED
    BY <1>1, <1>3, <1>4

\* A request outside a session opens none but in OpenSession.
LEMMA OutsideMoves ==
    ASSUME RoleInv, NEW q \in Requests,
           \/ Authorize(q) \/ FindTarget(q) \/ ReadRoles(q) \/ Unavailable(q)
           \/ AuditStored(q) \/ AuditLost(q)
    PROVE  Sessions' \subseteq Sessions
<1>1. PICK pc \in {"targeting", "listing", "opening", "auditing", "answered"} :
        Go(q, pc) \/ \E s : Conclude(q, pc, s)
    <2>1. CASE Authorize(q)
        BY <2>1 DEF Authorize
    <2>2. CASE FindTarget(q)
        BY <2>2 DEF FindTarget
    <2>3. CASE ReadRoles(q) \/ Unavailable(q)
        BY <2>3 DEF ReadRoles, Unavailable
    <2>4. CASE AuditStored(q) \/ AuditLost(q)
        BY <2>4 DEF AuditStored, AuditLost
    <2> QED
        BY <2>1, <2>2, <2>3, <2>4
<1>2. /\ request'[q].pc = pc
      /\ \A p \in Requests \ {q} : request'[p] = request[p]
    BY <1>1, UpdatedPc DEF RoleInv
<1>3. request'[q].pc \notin InSession
    BY <1>2 DEF InSession
<1> QED
    BY <1>2, <1>3, OneSession

\* A request in a session keeps it or gives it back.
LEMMA InsideMoves ==
    ASSUME RoleInv, NEW q \in Requests,
           \/ InsertRole(q) \/ DeleteRole(q) \/ InsertUser(q)
           \/ Commit(q) \/ CommitFails(q)
    PROVE  Sessions' \subseteq Sessions
<1>1. q \in Sessions
    BY DEF InsertRole, DeleteRole, InsertUser, Commit, CommitFails, Sessions, InSession
<1>2. \A p \in Requests \ {q} : request'[p] = request[p]
    <2>1. ASSUME NEW c, Wrote(q, c)
          PROVE  \A p \in Requests \ {q} : request'[p] = request[p]
        BY <2>1 DEF Wrote, RoleInv, TypeOK
    <2>2. CASE InsertRole(q) \/ DeleteRole(q)
        BY <2>1, <2>2 DEF InsertRole, DeleteRole
    <2>3. CASE InsertUser(q)
        <3>1. Wrote(q, TRUE) \/ Conclude(q, "answered", 409)
            BY <2>3 DEF InsertUser
        <3>2. CASE Wrote(q, TRUE)
            BY <2>1, <3>2
        <3>3. CASE Conclude(q, "answered", 409)
            <4>1. TypeOK /\ \E s : Conclude(q, "answered", s)
                BY <3>3 DEF RoleInv
            <4> QED
                BY <4>1, UpdatedPc
        <3> QED
            BY <3>1, <3>2, <3>3
    <2>4. CASE Commit(q)
        BY <2>4, CommitMoves DEF RoleInv, TypeOK
    <2>5. CASE CommitFails(q)
        BY <2>5 DEF CommitFails, RoleInv, TypeOK
    <2> QED
        BY <2>2, <2>3, <2>4, <2>5
<1> QED
    BY <1>1, <1>2, OneSession

\* The server, on its own, opens no session.
LEMMA SettleMoves ==
    ASSUME RoleInv, NEW q \in Requests, Settle(q)
    PROVE  Sessions' \subseteq Sessions
<1> DEFINE r == request[q]
<1>0. r.pc # "idle" /\ TypeOK
    BY AppliedBegun DEF Settle, LateCommit, LateAbort, RoleInv
<1>1. r \in Request \cup Ended
    BY <1>0, Underway
<1>2. \A p \in Requests \ {q} : request'[p] = request[p]
    BY <1>0 DEF Settle, LateCommit, LateAbort, TypeOK
<1>3. request'[q].pc = r.pc
    <2>1. CASE LateCommit(q)
        <3>1. PICK a \in BOOLEAN : a = TRUE
            OBVIOUS
        <3>2. request' = [request EXCEPT ![q].txn = "none", ![q].applied = a]
            BY <2>1, <3>1 DEF LateCommit
        <3>3. request' = [request EXCEPT ![q] =
                Rec(r.pc, r.order, r.changed, "none", a, r.answer)]
            BY <1>0, <1>1, <3>2, LateDone
        <3> QED
            BY <1>0, <3>3, RecFields DEF TypeOK
    <2>2. CASE LateAbort(q)
        <3>1. request' = [request EXCEPT ![q] =
                Rec(r.pc, r.order, r.changed, "none", r.applied, r.answer)]
            BY <1>0, <1>1, <2>2, LateUndone DEF LateAbort
        <3> QED
            BY <1>0, <3>1, RecFields DEF TypeOK
    <2> QED
        BY <2>1, <2>2 DEF Settle
<1> QED
    BY <1>2, <1>3, OneSession DEF Sessions

\* The requests the gateway was working on are gone.
LEMMA StoppedGone ==
    ASSUME RoleInv, Crash, NEW p \in Requests, request[p].pc \in Working
    PROVE  request'[p].pc = "gone"
<1> DEFINE t == IF request[p].txn = "none" THEN "none" ELSE "orphan"
<1>1. request[p] \in Request \cup Ended
    BY Underway DEF Working, InSession
<1>2. PICK s : s = 0
    OBVIOUS
<1>3. request'[p] = [request[p] EXCEPT !.pc = "gone", !.answer = s, !.txn = t]
    BY <1>2 DEF Crash
<1> HIDE DEF t
<1> QED
    BY <1>1, <1>3 DEF Request, Ended

LEMMA NextPool == RoleInv /\ ChangeInv /\ PoolInv /\ [Next]_vars => PoolInv'
<1> SUFFICES ASSUME RoleInv, ChangeInv, PoolInv, [Next]_vars PROVE PoolInv'
    OBVIOUS
<1>0. IsFiniteSet(Begun) /\ TypeOK
    BY DEF ChangeInv, RoleInv
<1>1. ASSUME NEW q \in Requests, NEW o \in Orders, Begin(q, o)
      PROVE  Sessions' \subseteq Sessions
    <2>1. PICK pc \in {"opening", "authorizing"} :
            request' = [request EXCEPT ![q] = Rec(pc, o, FALSE, "none", FALSE, 0)]
        BY <1>1 DEF Begin, Rec
    <2> DEFINE x == Rec(pc, o, FALSE, "none", FALSE, 0)
    <2>x. x.pc = pc
        BY DEF Rec
    <2> HIDE DEF x
    <2>y. request' = [request EXCEPT ![q] = x]
        BY <2>1 DEF x
    <2>2. request'[q].pc = pc /\ \A p \in Requests \ {q} : request'[p] = request[p]
        BY <1>0, <2>x, <2>y DEF TypeOK
    <2> QED
        BY <2>2, OneSession DEF InSession
<1>2. ASSUME NEW q \in Requests, OpenSession(q)
      PROVE  Free /\ Sessions' \subseteq Sessions \cup {q}
    <2>1. \E pc : Go(q, pc) \/ \E s : Conclude(q, pc, s)
        BY <1>2 DEF OpenSession
    <2> QED
        BY <1>0, <1>2, <2>1, UpdatedPc, OneSession DEF OpenSession
<1>3. ASSUME NEW q \in Requests, Step(q) \/ Fault(q), ~OpenSession(q)
      PROVE  Sessions' \subseteq Sessions
    BY <1>3, OutsideMoves, InsideMoves
    DEF Step, Fault, register_user, read_user_roles, assign_user_role, remove_user_role
<1>4. CASE Crash
    <2>1. ASSUME NEW p \in Requests, request'[p].pc \in InSession
          PROVE  request[p].pc \in InSession
        <3>1. request[p].pc \in Working => request'[p].pc = "gone"
            BY <1>4, StoppedGone
        <3>2. request[p].pc \notin Working => request'[p] = request[p]
            BY <1>4 DEF Crash
        <3> QED
            BY <2>1, <3>1, <3>2 DEF InSession
    <2> QED
        BY <1>0, <2>1, PoolKeeps DEF Sessions
<1>5. CASE UNCHANGED vars
    <2>1. Sessions' = Sessions
        BY <1>5 DEF vars, Sessions
    <2> QED
        BY <2>1 DEF PoolInv
<1> QED
    BY <1>0, <1>1, <1>2, <1>3, <1>4, <1>5, SettleMoves, PoolKeeps DEF Next

\* Somebody can always go on.
LEMMA SomebodyGoesOn ==
    ASSUME RoleInv, ChangeInv, PoolInv
    PROVE  NoCircularWait
<1>1. ASSUME NEW q \in Requests, request[q].pc = "writing", Taken(q)
      PROVE  \E p \in Requests \ {q} :
                /\ request[p].pc = "committing" \/ request[p].txn = "orphan"
                /\ Row(p) = Row(q)
    <2>1. PICK p \in Requests \ {q} : request[p].txn # "none" /\ Row(p) = Row(q)
        BY <1>1 DEF Taken
    <2>2. /\ request[p] \in Request \cup Ended
          /\ Progress(request[p], accounts, grants)
        BY <2>1, AppliedBegun, Underway
    <2>3. request[p].pc = "committing" \/ request[p].txn = "orphan"
        BY <2>1, <2>2, FieldTypes DEF Progress
    <2> QED
        BY <2>1, <2>3
<1>2. ASSUME ~Free
      PROVE  \E q \in Requests :
                \/ request[q].pc = "committing" \/ request[q].txn = "orphan"
                \/ request[q].pc = "writing" /\ ~Taken(q)
    <2>1. Sessions # {}
        BY <1>2, OrdersAssumption, FS_EmptySet DEF Free, Sessions
    <2>2. PICK q \in Requests : request[q].pc \in {"writing", "committing"}
        BY <2>1 DEF Sessions, InSession
    <2> QED
        BY <1>1, <2>2
<1>3. Cardinality({q \in Requests : request[q].pc \in InSession}) <= PoolSize
    BY DEF PoolInv, Sessions
<1> QED
    BY <1>1, <1>2, <1>3 DEF NoCircularWait

\* For any pool and any number of requests: the pool is not exceeded, and
\* neither a full pool nor a row written by somebody else ever makes everyone
\* wait for everyone (the sessions of authorization_repository.py:316-377).
THEOREM NobodyWaitsInACircle == Spec => []NoCircularWait
<1>1. Spec => []ChangeInv
    BY InitAddsUp, NextAddsUp, RoleInvariant, PTL DEF Spec
<1>2. Init => PoolInv
    <2>1. Init => Sessions = {}
        BY DEF Init, Idle, Sessions, InSession
    <2> QED
        BY <2>1, FS_EmptySet, OrdersAssumption DEF PoolInv
<1>3. Spec => []PoolInv
    BY <1>1, <1>2, NextPool, RoleInvariant, PTL DEF Spec
<1> QED
    BY <1>1, <1>3, RoleInvariant, SomebodyGoesOn, PTL

-----------------------------------------------------------------------------
(* A request runs once.                                                    *)

\* What a step may do to request q.
Once(q) ==
    /\ request'[q] = request[q] \/ Forward(request[q], request'[q])
    /\ request[q].pc # "idle" => request'[q].order = request[q].order
    /\ Stage(request[q].pc) = 7 => trail'[q] = trail[q]

LEMMA StageOrder ==
    /\ Stage("idle") = 0 /\ Stage("authorizing") = 1 /\ Stage("targeting") = 2
    /\ Stage("listing") = 3 /\ Stage("opening") = 3 /\ Stage("writing") = 4
    /\ Stage("committing") = 5 /\ Stage("auditing") = 6
    /\ Stage("answered") = 7 /\ Stage("gone") = 7
BY DEF Stage

LEMMA WorkingStage ==
    ASSUME NEW pc \in Working
    PROVE  Stage(pc) \in 1..6
BY StageOrder DEF Working, InSession

\* One request goes on; the others, and their events, stay as they are.
LEMMA GoesOn ==
    ASSUME TypeOK, NEW q \in Requests, request[q].pc \in Working \/ request[q].txn = "orphan",
           NEW x, request' = [request EXCEPT ![q] = x],
           x.order = request[q].order, Forward(request[q], x),
           \A p \in Requests \ {q} : trail'[p] = trail[p],
           request[q].pc \notin Working => UNCHANGED trail
    PROVE  \A p \in Requests : Once(p)
<1>1. request'[q] = x /\ \A p \in Requests \ {q} : request'[p] = request[p]
    BY DEF TypeOK
<1>2. ASSUME NEW p \in Requests, p # q PROVE Once(p)
    BY <1>1, <1>2 DEF Once
<1>3. Stage(request[q].pc) = 7 => trail'[q] = trail[q]
    BY WorkingStage
<1>4. Once(q)
    BY <1>1, <1>3 DEF Once
<1> QED
    BY <1>2, <1>4

LEMMA BeginOnce ==
    ASSUME RoleInv, NEW q \in Requests, NEW o \in Orders, Begin(q, o)
    PROVE  \A p \in Requests : Once(p)
<1>0. TypeOK /\ request[q].pc = "idle" /\ UNCHANGED trail
    BY DEF RoleInv, Begin
<1>1. PICK pc \in {"opening", "authorizing"} :
        request' = [request EXCEPT ![q] = Rec(pc, o, FALSE, "none", FALSE, 0)]
    BY DEF Begin, Rec
<1> DEFINE x == Rec(pc, o, FALSE, "none", FALSE, 0)
<1>2. x.pc = pc
    BY DEF Rec
<1> HIDE DEF x
<1>3. request' = [request EXCEPT ![q] = x]
    BY <1>1 DEF x
<1>4. request'[q] = x /\ \A p \in Requests \ {q} : request'[p] = request[p]
    BY <1>0, <1>3 DEF TypeOK
<1>5. Stage(request[q].pc) = 0 /\ Stage(x.pc) \in {1, 3}
    BY <1>0, <1>2, StageOrder
<1>6. Once(q)
    BY <1>0, <1>4, <1>5 DEF Once, Forward
<1>7. ASSUME NEW p \in Requests, p # q PROVE Once(p)
    BY <1>0, <1>4, <1>7 DEF Once
<1> QED
    BY <1>6, <1>7

\* The handlers' steps that set pc, and perhaps the answer.
LEMMA GoOnce ==
    ASSUME RoleInv, NEW q \in Requests, request[q].pc \in Working,
           NEW pc, Stage(request[q].pc) < Stage(pc),
           Go(q, pc) \/ \E s : Conclude(q, pc, s),
           \A p \in Requests \ {q} : trail'[p] = trail[p]
    PROVE  \A p \in Requests : Once(p)
<1> DEFINE r == request[q]
<1>0. r \in Request \cup Ended /\ TypeOK
    BY Underway DEF Working, InSession, RoleInv
<1>1. CASE Go(q, pc)
    <2> DEFINE x == [r EXCEPT !.pc = pc]
    <2>1. request' = [request EXCEPT ![q] = x]
        BY <1>0, <1>1 DEF Go, TypeOK
    <2>2. x.pc = pc /\ x.order = r.order
        BY <1>0 DEF Request, Ended
    <2> HIDE DEF x
    <2>3. Forward(r, x)
        BY <2>2 DEF Forward
    <2> QED
        BY <1>0, <2>1, <2>2, <2>3, GoesOn
<1>2. ASSUME NEW s, Conclude(q, pc, s) PROVE \A p \in Requests : Once(p)
    <2> DEFINE x == [r EXCEPT !.pc = pc, !.answer = s]
    <2>1. request' = [request EXCEPT ![q] = x]
        BY <1>0, <1>2 DEF Conclude, TypeOK
    <2>2. x.pc = pc /\ x.order = r.order
        BY <1>0 DEF Request, Ended
    <2> HIDE DEF x
    <2>3. Forward(r, x)
        BY <2>2 DEF Forward
    <2> QED
        BY <1>0, <2>1, <2>2, <2>3, GoesOn
<1> QED
    BY <1>1, <1>2

LEMMA WroteOnce ==
    ASSUME RoleInv, NEW q \in Requests, request[q].pc = "writing",
           NEW c \in BOOLEAN, Wrote(q, c), UNCHANGED trail
    PROVE  \A p \in Requests : Once(p)
<1>1. PICK t : t = IF c THEN "open" ELSE "none"
    OBVIOUS
<1> DEFINE r == request[q]
           x == [r EXCEPT !.pc = "committing", !.changed = c, !.txn = t]
<1>0. r \in Request \cup Ended /\ TypeOK /\ r.pc \in Working
    BY Underway DEF Working, InSession, RoleInv
<1>2. request' = [request EXCEPT ![q].pc = "committing", ![q].changed = c, ![q].txn = t]
    BY <1>1 DEF Wrote
<1>3. request' = [request EXCEPT ![q] = x]
    BY <1>0, <1>2 DEF TypeOK
<1>4. x.pc = "committing" /\ x.order = r.order
    BY <1>0 DEF Request, Ended
<1> HIDE DEF x
<1>5. Forward(r, x)
    BY <1>4, StageOrder DEF Forward
<1> QED
    BY <1>0, <1>3, <1>4, <1>5, GoesOn

LEMMA CommitOnce ==
    ASSUME RoleInv, NEW q \in Requests, Commit(q) \/ CommitFails(q)
    PROVE  \A p \in Requests : Once(p)
<1> DEFINE r == request[q]
<1>0. r \in Request \cup Ended /\ TypeOK /\ r.pc = "committing" /\ r.pc \in Working
      /\ UNCHANGED trail
    BY Underway DEF Working, InSession, RoleInv, Commit, CommitFails
<1>1. PICK x : /\ request' = [request EXCEPT ![q] = x]
               /\ x.pc = "auditing" /\ x.order = r.order
    <2>1. CASE Commit(q)
        <3>1. PICK x \in Request \cup Ended :
                /\ request' = [request EXCEPT ![q] = x]
                /\ x.pc = "auditing" /\ x.order = r.order
            BY <2>1, CommitMoves
        <3> QED
            BY <3>1
    <2>2. CASE CommitFails(q)
        <3>1. PICK t : t = IF r.changed THEN "orphan" ELSE "none"
            OBVIOUS
        <3>2. PICK s : s = 503
            OBVIOUS
        <3> DEFINE x == [r EXCEPT !.pc = "auditing", !.txn = t, !.answer = s]
        <3>3. request' = [request EXCEPT ![q].pc = "auditing", ![q].txn = t,
                                         ![q].answer = s]
            BY <2>2, <3>1, <3>2 DEF CommitFails
        <3>4. request' = [request EXCEPT ![q] = x]
            BY <1>0, <3>3 DEF TypeOK
        <3>5. x.pc = "auditing" /\ x.order = r.order
            BY <1>0 DEF Request, Ended
        <3> HIDE DEF x
        <3> QED
            BY <3>4, <3>5
    <2> QED
        BY <2>1, <2>2
<1>2. Forward(r, x)
    BY <1>0, <1>1, StageOrder DEF Forward
<1> QED
    BY <1>0, <1>1, <1>2, GoesOn

LEMMA ReadingOnce ==
    ASSUME RoleInv, NEW q \in Requests,
           \/ Authorize(q) \/ FindTarget(q) \/ ReadRoles(q) \/ OpenSession(q)
           \/ Unavailable(q) \/ AuditStored(q) \/ AuditLost(q)
    PROVE  \A p \in Requests : Once(p)
<1>1. /\ request[q].pc \in Working
      /\ \A p \in Requests \ {q} : trail'[p] = trail[p]
    BY DEF Authorize, FindTarget, ReadRoles, OpenSession, Unavailable, AuditStored,
        AuditLost, Working, InSession, RoleInv, TypeOK
<1>2. \E pc : /\ Stage(request[q].pc) < Stage(pc)
              /\ Go(q, pc) \/ \E s : Conclude(q, pc, s)
    <2>1. CASE Authorize(q)
        BY <2>1, StageOrder DEF Authorize
    <2>2. CASE FindTarget(q)
        <3>1. PICK pc \in {"listing", "opening", "answered"} :
                Go(q, pc) \/ \E s : Conclude(q, pc, s)
            BY <2>2 DEF FindTarget
        <3> QED
            BY <2>2, <3>1, StageOrder DEF FindTarget
    <2>3. CASE ReadRoles(q)
        BY <2>3, StageOrder DEF ReadRoles
    <2>4. CASE OpenSession(q)
        BY <2>4, StageOrder DEF OpenSession
    <2>5. CASE Unavailable(q)
        BY <2>5, StageOrder DEF Unavailable
    <2>6. CASE AuditStored(q) \/ AuditLost(q)
        BY <2>6, StageOrder DEF AuditStored, AuditLost
    <2> QED
        BY <2>1, <2>2, <2>3, <2>4, <2>5, <2>6
<1> QED
    BY <1>1, <1>2, GoOnce

LEMMA WritingOnce ==
    ASSUME RoleInv, NEW q \in Requests,
           InsertRole(q) \/ DeleteRole(q) \/ InsertUser(q)
    PROVE  \A p \in Requests : Once(p)
<1>1. request[q].pc = "writing" /\ UNCHANGED trail
    BY DEF InsertRole, DeleteRole, InsertUser
<1>2. ASSUME Conclude(q, "answered", 409) PROVE \A p \in Requests : Once(p)
    <2>1. request[q].pc \in Working /\ Stage(request[q].pc) < Stage("answered")
        BY <1>1, StageOrder DEF Working, InSession
    <2>2. \E s : Conclude(q, "answered", s)
        BY <1>2
    <2> QED
        BY <1>1, <2>1, <2>2, GoOnce
<1>3. CASE InsertRole(q)
    <2>1. (Row(q) \notin grants) \in BOOLEAN
        OBVIOUS
    <2>2. Wrote(q, Row(q) \notin grants)
        BY <1>3 DEF InsertRole
    <2>3. \E c \in BOOLEAN : Wrote(q, c)
        BY <2>1, <2>2, Zenon
    <2> QED
        BY <1>1, <2>3, WroteOnce
<1>4. CASE DeleteRole(q)
    <2>1. (Row(q) \in grants) \in BOOLEAN
        OBVIOUS
    <2>2. Wrote(q, Row(q) \in grants)
        BY <1>4 DEF DeleteRole
    <2>3. \E c \in BOOLEAN : Wrote(q, c)
        BY <2>1, <2>2, Zenon
    <2> QED
        BY <1>1, <2>3, WroteOnce
<1>5. CASE InsertUser(q)
    <2>1. Conclude(q, "answered", 409) \/ Wrote(q, TRUE)
        BY <1>5 DEF InsertUser
    <2>2. Conclude(q, "answered", 409) \/ \E c \in BOOLEAN : Wrote(q, c)
        BY <2>1, Zenon
    <2> QED
        BY <1>1, <1>2, <2>2, WroteOnce
<1> QED
    BY <1>3, <1>4, <1>5

\* The server settles a transaction: the request stays where it is.
LEMMA SettleOnce ==
    ASSUME RoleInv, NEW q \in Requests, Settle(q)
    PROVE  \A p \in Requests : Once(p)
<1> DEFINE r == request[q]
<1>0. r.txn = "orphan" /\ UNCHANGED trail /\ TypeOK
    BY DEF Settle, LateCommit, LateAbort, RoleInv
<1>1. r \in Request \cup Ended
    BY <1>0, AppliedBegun, Underway
<1>2. PICK a : request' = [request EXCEPT ![q] =
                    Rec(r.pc, r.order, r.changed, "none", a, r.answer)]
    <2>1. CASE LateCommit(q)
        <3>1. PICK a \in BOOLEAN : a = TRUE
            OBVIOUS
        <3>2. request' = [request EXCEPT ![q].txn = "none", ![q].applied = a]
            BY <2>1, <3>1 DEF LateCommit
        <3> QED
            BY <1>0, <1>1, <3>2, LateDone
    <2>2. CASE LateAbort(q)
        BY <1>0, <1>1, <2>2, LateUndone DEF LateAbort
    <2> QED
        BY <2>1, <2>2 DEF Settle
<1> DEFINE x == Rec(r.pc, r.order, r.changed, "none", a, r.answer)
<1>3. x.pc = r.pc /\ x.order = r.order /\ x.txn = "none" /\ x.answer = r.answer
    BY RecFields
<1> HIDE DEF x
<1>4. request' = [request EXCEPT ![q] = x]
    BY <1>2 DEF x
<1>5. Forward(r, x)
    BY <1>0, <1>3 DEF Forward
<1> QED
    BY <1>0, <1>3, <1>4, <1>5, GoesOn

LEMMA CrashOnce ==
    ASSUME RoleInv, Crash, NEW p \in Requests
    PROVE  Once(p)
<1>0. UNCHANGED trail
    BY DEF Crash
<1>1. CASE request[p].pc \notin Working
    <2>1. request'[p] = request[p]
        BY <1>1 DEF Crash
    <2> QED
        BY <1>0, <2>1 DEF Once
<1>2. CASE request[p].pc \in Working
    <2>1. request'[p].pc = "gone"
        BY <1>2, StoppedGone
    <2>2. request[p].pc # "idle"
        BY <1>2 DEF Working, InSession
    <2>3. request'[p].order = request[p].order
        BY <2>2, StoppedSound
    <2>4. Stage(request[p].pc) < Stage(request'[p].pc)
        BY <1>2, <2>1, WorkingStage, StageOrder
    <2> QED
        BY <1>0, <2>3, <2>4 DEF Once, Forward
<1> QED
    BY <1>1, <1>2

\* For any number of requests, faults and late commits: no handler goes back,
\* so no statement is repeated after a COMMIT of unknown outcome, and the
\* answer and the event of a request that has ended are final.
THEOREM RequestsRunOnce == Spec => RunsOnce
<1>1. RoleInv /\ [Next]_vars => [\A q \in Requests : Once(q)]_vars
    <2> SUFFICES ASSUME RoleInv, [Next]_vars, ~UNCHANGED vars
                 PROVE  \A q \in Requests : Once(q)
        OBVIOUS
    <2>1. ASSUME NEW q \in Requests, Step(q) PROVE \A p \in Requests : Once(p)
        BY <2>1, ReadingOnce, WritingOnce, CommitOnce
        DEF Step, register_user, read_user_roles, assign_user_role, remove_user_role
    <2>2. ASSUME NEW q \in Requests, Fault(q) PROVE \A p \in Requests : Once(p)
        BY <2>2, ReadingOnce, CommitOnce DEF Fault
    <2> QED
        BY <2>1, <2>2, BeginOnce, SettleOnce, CrashOnce DEF Next
<1> QED
    BY <1>1, RoleInvariant, PTL DEF Spec, RunsOnce, Once

=============================================================================
