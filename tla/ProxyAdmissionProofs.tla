------------------------ MODULE ProxyAdmissionProofs ------------------------
(***************************************************************************)
(* Proofs about ProxyAdmission: types, the rights of a request beyond the  *)
(* gate, the fate of a decision, and the counters.                         *)
(***************************************************************************)
EXTENDS ProxyAdmission, CountingLemmas, TLAPS

\* The permission a request needs.
Code(x) == ProxyCode(x.service, IF x.method \in PROXY_READ_METHODS THEN "read" ELSE "write")

\* What is known of a request x while the rows of user_roles are g and the
\* active accounts a.
Sound(x, g, a) ==
    /\ x.pc \in {"limiting", "authorizing", "reading", "forwarding"} /\ ~x.lapsed
        => x.user \in a
    /\ x.pc \in {"authorizing", "reading", "forwarding"} => x.service \in ProxyServices
    /\ x.pc \in PastAuthorization /\ ~x.lapsed => PermittedBy(g, x.user, Code(x))
    /\ x.pc \in Working \ {"auditing"} => x.decision = 0
    /\ x.pc \in Working => (x.forwarded <=> x.pc = "forwarding")
    /\ x.pc = "answered" /\ x.decision # 0 =>
        /\ ~x.forwarded
        /\ x.answer = x.decision \/ (x.answer = 500 /\ x.service \notin Auditable)

AdmissionInv ==
    /\ TypeOK
    /\ \A q \in Requests : Sound(request[q], grants, active)

-----------------------------------------------------------------------------
(* Shapes.                                                                 *)

LEMMA IdleSound == ASSUME NEW g, NEW a PROVE Sound(Idle, g, a)
<1>1. Idle.pc = "idle"
    BY DEF Idle
<1> QED
    BY <1>1 DEF Sound, Working, PastAuthorization

\* A request under way has all fields.
LEMMA RequestShape ==
    ASSUME TypeOK, NEW q \in Requests, request[q].pc # "idle"
    PROVE  request[q] \in Request
BY DEF TypeOK, Idle

\* The counters and the history variables have their types.
CountsTyped ==
    /\ metrics \in [Counters -> Nat]
    /\ lost \in [Counters -> Nat]
    /\ refilled \in [Users -> Nat]

LEMMA PlusType ==
    ASSUME NEW D, NEW f \in [D -> Nat], NEW S
    PROVE  Plus(f, S) \in [D -> Nat]
BY DEF Plus

LEMMA CountedType ==
    ASSUME TypeOK, NEW S, Counted(S), UNCHANGED refilled
    PROVE  CountsTyped'
BY PlusType DEF TypeOK, Counted, CountsTyped

LEMMA UncountedType ==
    ASSUME TypeOK, UNCHANGED <<metrics, lost, refilled>>
    PROVE  CountsTyped'
BY DEF TypeOK, CountsTyped

\* A step of one request: what remains to be shown of its new record x.
LEMMA OneRequest ==
    ASSUME AdmissionInv, NEW q \in Requests, NEW x \in Request,
           Sound(x, grants, active),
           request' = [request EXCEPT ![q] = x],
           UNCHANGED <<accounts, grants, active>>,
           bucket' \in [Users -> 0..BucketSize],
           CountsTyped'
    PROVE  AdmissionInv'
<1>1. TypeOK'
    BY DEF AdmissionInv, TypeOK, CountsTyped
<1>2. \A p \in Requests : Sound(request'[p], grants, active)
    BY DEF AdmissionInv, TypeOK
<1> QED
    BY <1>1, <1>2 DEF AdmissionInv

LEMMA GoesTo ==
    ASSUME TypeOK, NEW q \in Requests, request[q] \in Request,
           NEW pc \in Working \cup {"answered", "cancelled"}, Go(q, pc)
    PROVE  \E x \in Request :
            /\ request' = [request EXCEPT ![q] = x]
            /\ x.pc = pc
            /\ x.user = request[q].user /\ x.method = request[q].method
            /\ x.service = request[q].service /\ x.decision = request[q].decision
            /\ x.answer = request[q].answer /\ x.forwarded = request[q].forwarded
            /\ x.lapsed = request[q].lapsed
<1> DEFINE x == [request[q] EXCEPT !.pc = pc]
<1>1. request' = [request EXCEPT ![q] = x]
    BY DEF Go, TypeOK
<1>2. x \in Request
    BY DEF Request
<1>3. /\ x.pc = pc
      /\ x.user = request[q].user /\ x.method = request[q].method
      /\ x.service = request[q].service /\ x.decision = request[q].decision
      /\ x.answer = request[q].answer /\ x.forwarded = request[q].forwarded
      /\ x.lapsed = request[q].lapsed
    BY DEF Request
<1> HIDE DEF x
<1> QED
    BY <1>1, <1>2, <1>3

LEMMA AnsweredWith ==
    ASSUME TypeOK, NEW q \in Requests, request[q] \in Request,
           NEW status \in Nat, Answered(q, status)
    PROVE  \E x \in Request :
            /\ request' = [request EXCEPT ![q] = x]
            /\ x.pc = "answered" /\ x.answer = status
            /\ x.decision = request[q].decision /\ x.service = request[q].service
            /\ x.forwarded = request[q].forwarded /\ x.user = request[q].user
<1> DEFINE x == [request[q] EXCEPT !.pc = "answered", !.answer = status]
<1>1. request' = [request EXCEPT ![q] = x]
    BY DEF Answered, TypeOK
<1>2. x \in Request
    BY DEF Request
<1>3. /\ x.pc = "answered" /\ x.answer = status
      /\ x.decision = request[q].decision /\ x.service = request[q].service
      /\ x.forwarded = request[q].forwarded /\ x.user = request[q].user
    BY DEF Request
<1> HIDE DEF x
<1> QED
    BY <1>1, <1>2, <1>3

\* An answer to a request nothing has been decided about.
LEMMA AnswerKeeps ==
    ASSUME AdmissionInv, NEW q \in Requests, request[q].pc \in Working,
           NEW status \in Nat, Answered(q, status),
           request[q].decision = 0 \/ (status = request[q].decision /\ request[q].pc = "auditing"),
           UNCHANGED <<accounts, grants, active>>,
           bucket' \in [Users -> 0..BucketSize],
           CountsTyped'
    PROVE  AdmissionInv'
<1>1. request[q] \in Request
    BY RequestShape DEF AdmissionInv, Working
<1>2. PICK x \in Request :
        /\ request' = [request EXCEPT ![q] = x]
        /\ x.pc = "answered" /\ x.answer = status
        /\ x.decision = request[q].decision /\ x.service = request[q].service
        /\ x.forwarded = request[q].forwarded
    BY <1>1, AnsweredWith DEF AdmissionInv
<1>3. Sound(request[q], grants, active)
    BY DEF AdmissionInv
<1>4. Sound(x, grants, active)
    BY <1>2, <1>3 DEF Sound, Working, PastAuthorization
<1> QED
    BY <1>2, <1>4, OneRequest

\* A refusal: the decision is taken, and nothing was forwarded.
LEMMA RefusedWith ==
    ASSUME AdmissionInv, NEW q \in Requests,
           request[q].pc \in {"limiting", "authorizing"}, NEW x \in Request,
           \/ x.pc = "auditing"
           \/ x.pc = "answered" /\ x.answer = 500 /\ ~CanAudit(q),
           x.service = request[q].service, x.forwarded = request[q].forwarded,
           request' = [request EXCEPT ![q] = x],
           UNCHANGED <<accounts, grants, active>>,
           bucket' \in [Users -> 0..BucketSize],
           CountsTyped'
    PROVE  AdmissionInv'
<1>1. ~request[q].forwarded
    BY DEF AdmissionInv, Sound, Working
<1>2. Sound(x, grants, active)
    BY <1>1 DEF Sound, Working, PastAuthorization, CanAudit
<1> QED
    BY <1>2, OneRequest

-----------------------------------------------------------------------------
(* The steps of a request.                                                 *)

LEMMA BeginKeeps ==
    ASSUME AdmissionInv, NEW q \in Requests, NEW u \in Users, NEW m \in Methods,
           NEW s \in ServiceNames, Begin(q, u, m, s) \/ BeginUnauthenticated(q, u, m, s)
    PROVE  AdmissionInv'
<1> USE DEF Working
<1>0. bucket' \in [Users -> 0..BucketSize] /\ CountsTyped'
    <2>1. CASE Begin(q, u, m, s)
        BY <2>1, UncountedType DEF Begin, AdmissionInv, TypeOK
    <2>2. CASE BeginUnauthenticated(q, u, m, s)
        BY <2>2, CountedType DEF BeginUnauthenticated, AdmissionInv, TypeOK
    <2> QED
        BY <2>1, <2>2
<1>1. \E pc \in {"authenticating", "answered"}, answer \in {0, 401} :
        request' = [request EXCEPT ![q] =
            [pc |-> pc, user |-> u, method |-> m, service |-> s,
             decision |-> 0, answer |-> answer, forwarded |-> FALSE, lapsed |-> FALSE]]
    BY DEF Begin, BeginUnauthenticated
<1>2. PICK pc \in {"authenticating", "answered"}, answer \in {0, 401} :
        request' = [request EXCEPT ![q] =
            [pc |-> pc, user |-> u, method |-> m, service |-> s,
             decision |-> 0, answer |-> answer, forwarded |-> FALSE, lapsed |-> FALSE]]
    BY <1>1
<1> DEFINE x == [pc |-> pc, user |-> u, method |-> m, service |-> s,
                 decision |-> 0, answer |-> answer, forwarded |-> FALSE, lapsed |-> FALSE]
<1>3. x \in Request
    BY DEF Request
<1>4. Sound(x, grants, active)
    BY DEF Sound, PastAuthorization
<1>5. request' = [request EXCEPT ![q] = x]
    BY <1>2
<1>6. UNCHANGED <<accounts, grants, active>>
    BY DEF Begin, BeginUnauthenticated
<1> HIDE DEF x
<1> QED
    BY <1>0, <1>3, <1>4, <1>5, <1>6, OneRequest

\* Authentication, and every answer that no decision precedes.
LEMMA AuthenticateKeeps ==
    ASSUME AdmissionInv, NEW q \in Requests, Authenticate(q)
    PROVE  AdmissionInv'
<1>1. request[q] \in Request
    BY RequestShape DEF AdmissionInv, Authenticate
<1>2. PICK x \in Request :
        /\ request' = [request EXCEPT ![q] = x]
        /\ x.pc = "limiting"
        /\ x.user = request[q].user /\ x.decision = request[q].decision
        /\ x.forwarded = request[q].forwarded
    BY <1>1, GoesTo DEF AdmissionInv, Authenticate, Working
<1>3. Sound(request[q], grants, active)
    BY DEF AdmissionInv
<1>4. Sound(x, grants, active)
    BY <1>2, <1>3 DEF Sound, Working, PastAuthorization, Authenticate, User
<1> QED
    BY <1>2, <1>4, UncountedType, OneRequest DEF Authenticate, AdmissionInv, TypeOK

LEMMA UndecidedAnswers ==
    ASSUME AdmissionInv, NEW q \in Requests,
           \/ AuthenticateFails(q) \/ CircuitOpen(q) \/ UpstreamEnds(q) \/ Unhandled(q)
    PROVE  AdmissionInv'
<1>1. request[q].pc \in {"authenticating", "reading", "forwarding"}
    BY DEF AuthenticateFails, CircuitOpen, UpstreamEnds, Unhandled
<1>2. request[q].decision = 0
    BY <1>1 DEF AdmissionInv, Sound, Working
<1>3. \E status \in Nat : Answered(q, status)
    BY DEF AuthenticateFails, CircuitOpen, UpstreamEnds, Unhandled
<1>4. UNCHANGED <<accounts, grants, active, bucket>>
    BY DEF AuthenticateFails, CircuitOpen, UpstreamEnds, Unhandled
<1>5. CountsTyped'
    BY CountedType DEF AuthenticateFails, CircuitOpen, UpstreamEnds, Unhandled, AdmissionInv
<1> QED
    BY <1>1, <1>2, <1>3, <1>4, <1>5, AnswerKeeps DEF Working, AdmissionInv, TypeOK

\* The decision is answered, whether or not its event was stored.
LEMMA AuditedAnswers ==
    ASSUME AdmissionInv, NEW q \in Requests, AuditStored(q) \/ AuditLost(q)
    PROVE  AdmissionInv'
<1>1. /\ request[q].pc = "auditing"
      /\ Answered(q, request[q].decision)
      /\ Counted({"http_requests"})
      /\ UNCHANGED <<accounts, grants, active, bucket, refilled>>
    BY DEF AuditStored, AuditLost
<1>2. request[q] \in Request
    BY <1>1, RequestShape DEF AdmissionInv
<1>3. request[q].decision \in Nat
    BY <1>2 DEF Request
<1>4. CountsTyped'
    BY <1>1, CountedType DEF AdmissionInv
<1> QED
    BY <1>1, <1>3, <1>4, AnswerKeeps DEF Working, AdmissionInv, TypeOK

LEMMA TokenTakenType ==
    ASSUME TypeOK, NEW u \in Users, TokenTaken(u)
    PROVE  bucket' \in [Users -> 0..BucketSize]
BY AdmissionAssumption DEF TypeOK, TokenTaken

LEMMA UserKnown ==
    ASSUME TypeOK, NEW q \in Requests, request[q].pc # "idle"
    PROVE  User(q) \in Users
BY RequestShape DEF Request, User

LEMMA LimitAllowsKeeps ==
    ASSUME AdmissionInv, NEW q \in Requests, LimitAllows(q)
    PROVE  AdmissionInv'
<1>0. request[q].pc = "limiting" /\ TypeOK /\ User(q) \in Users
    BY UserKnown DEF LimitAllows, AdmissionInv
<1>1. bucket' \in [Users -> 0..BucketSize]
    BY <1>0, TokenTakenType DEF LimitAllows
<1>2. UNCHANGED <<accounts, grants, active, refilled>>
    BY DEF LimitAllows
<1>3. Sound(request[q], grants, active) /\ request[q] \in Request
    BY <1>0, RequestShape DEF AdmissionInv
<1>4. CASE Registered(q) /\ Go(q, "authorizing") /\ UNCHANGED <<metrics, lost>>
    <2>1. CountsTyped'
        BY <1>0, <1>2, <1>4, UncountedType
    <2>2. PICK x \in Request :
            /\ request' = [request EXCEPT ![q] = x]
            /\ x.pc = "authorizing"
            /\ x.user = request[q].user /\ x.service = request[q].service
            /\ x.decision = request[q].decision
            /\ x.forwarded = request[q].forwarded /\ x.lapsed = request[q].lapsed
        BY <1>0, <1>3, <1>4, GoesTo DEF Working
    <2>3. Sound(x, grants, active)
        BY <1>0, <1>3, <1>4, <2>2 DEF Sound, Working, PastAuthorization, Registered
    <2> QED
        BY <1>1, <1>2, <2>1, <2>2, <2>3, OneRequest
<1>5. CASE Answered(q, 404) /\ Counted({"http_requests"})
    <2>1. CountsTyped'
        BY <1>0, <1>2, <1>5, CountedType
    <2>2. request[q].decision = 0
        BY <1>0, <1>3 DEF Sound, Working
    <2> QED
        BY <1>0, <1>1, <1>2, <1>5, <2>1, <2>2, AnswerKeeps DEF Working
<1> QED
    BY <1>4, <1>5 DEF LimitAllows

\* A request whose refusal is decided.
LEMMA DecidesOn ==
    ASSUME TypeOK, NEW q \in Requests, request[q] \in Request, NEW d \in Nat,
           request' = [request EXCEPT ![q].pc = "auditing", ![q].decision = d]
    PROVE  \E x \in Request :
            /\ request' = [request EXCEPT ![q] = x]
            /\ x.pc = "auditing" /\ x.decision = d
            /\ x.service = request[q].service /\ x.forwarded = request[q].forwarded
<1> DEFINE x == [request[q] EXCEPT !.pc = "auditing", !.decision = d]
<1>1. request' = [request EXCEPT ![q] = x]
    BY DEF TypeOK
<1>2. x \in Request
    BY DEF Request, Working
<1>3. /\ x.pc = "auditing" /\ x.decision = d /\ x.service = request[q].service
      /\ x.forwarded = request[q].forwarded
    BY DEF Request
<1> HIDE DEF x
<1> QED
    BY <1>1, <1>2, <1>3

\* A refusal whose event cannot be built.
Unbuilt(q, d, a) ==
    request' = [request EXCEPT ![q].pc = "answered", ![q].decision = d, ![q].answer = a]

LEMMA UnbuiltWith ==
    ASSUME TypeOK, NEW q \in Requests, request[q] \in Request, NEW d \in Nat,
           NEW a \in Nat, Unbuilt(q, d, a)
    PROVE  \E x \in Request :
            /\ request' = [request EXCEPT ![q] = x]
            /\ x.pc = "answered" /\ x.decision = d /\ x.answer = a
            /\ x.service = request[q].service /\ x.forwarded = request[q].forwarded
<1> DEFINE x == [request[q] EXCEPT !.pc = "answered", !.decision = d, !.answer = a]
<1>1. request' = [request EXCEPT ![q] = x]
    BY DEF Unbuilt, TypeOK
<1>2. x \in Request
    BY DEF Request
<1>3. /\ x.pc = "answered" /\ x.decision = d /\ x.answer = a
      /\ x.service = request[q].service /\ x.forwarded = request[q].forwarded
    BY DEF Request
<1> HIDE DEF x
<1> QED
    BY <1>1, <1>2, <1>3

\* The two outcomes of Refuse.
LEMMA RefuseKeeps ==
    ASSUME AdmissionInv, NEW q \in Requests, request[q].pc = "limiting",
           NEW status \in Nat, Refuse(q, status),
           bucket' \in [Users -> 0..BucketSize],
           UNCHANGED <<accounts, grants, active, refilled>>
    PROVE  AdmissionInv'
<1>0. request[q] \in Request /\ TypeOK
    BY RequestShape DEF AdmissionInv
<1>1. CountsTyped'
    BY <1>0, CountedType DEF Refuse
<1>2. CASE /\ CanAudit(q)
           /\ request' = [request EXCEPT ![q].pc = "auditing", ![q].decision = status]
    <2>1. PICK x \in Request :
            /\ request' = [request EXCEPT ![q] = x] /\ x.pc = "auditing"
            /\ x.service = request[q].service /\ x.forwarded = request[q].forwarded
        BY <1>0, <1>2, DecidesOn
    <2> QED
        BY <1>1, <2>1, RefusedWith
<1>3. CASE /\ ~CanAudit(q)
           /\ request' = [request EXCEPT ![q].pc = "answered", ![q].decision = status,
                                         ![q].answer = 500]
    <2>1. PICK a \in Nat : a = 500
        OBVIOUS
    <2>2. Unbuilt(q, status, a)
        BY <1>3, <2>1 DEF Unbuilt
    <2>3. PICK x \in Request :
            /\ request' = [request EXCEPT ![q] = x]
            /\ x.pc = "answered" /\ x.decision = status /\ x.answer = a
            /\ x.service = request[q].service /\ x.forwarded = request[q].forwarded
        BY <1>0, <2>2, UnbuiltWith
    <2>4. x.answer = 500 /\ ~CanAudit(q) /\ request[q].pc \in {"limiting", "authorizing"}
        BY <1>3, <2>1, <2>3
    <2> QED
        BY <1>1, <2>3, <2>4, RefusedWith
<1> QED
    BY <1>2, <1>3 DEF Refuse

LEMMA LimitRefusesKeeps ==
    ASSUME AdmissionInv, NEW q \in Requests, LimitRejects(q) \/ LimitUnavailable(q)
    PROVE  AdmissionInv'
<1>0. request[q].pc = "limiting" /\ TypeOK /\ User(q) \in Users
    BY UserKnown DEF LimitRejects, LimitUnavailable, AdmissionInv
<1>1. bucket' \in [Users -> 0..BucketSize]
    <2>1. CASE UNCHANGED bucket
        BY <1>0, <2>1 DEF TypeOK
    <2>2. CASE TokenTaken(User(q))
        BY <1>0, <2>2, TokenTakenType
    <2> QED
        BY <2>1, <2>2 DEF LimitRejects, LimitUnavailable
<1>2. UNCHANGED <<accounts, grants, active, refilled>>
    BY DEF LimitRejects, LimitUnavailable
<1>3. \E status \in Nat : Refuse(q, status)
    BY DEF LimitRejects, LimitUnavailable
<1> QED
    BY <1>0, <1>1, <1>2, <1>3, RefuseKeeps

LEMMA AuthorizeAllowsKeeps ==
    ASSUME AdmissionInv, NEW q \in Requests, AuthorizeAllows(q)
    PROVE  AdmissionInv'
<1>0. request[q].pc = "authorizing" /\ TypeOK
    BY DEF AuthorizeAllows, AdmissionInv
<1>1. Sound(request[q], grants, active) /\ request[q] \in Request
    BY <1>0, RequestShape DEF AdmissionInv
<1>2. PermittedBy(grants, request[q].user, Code(request[q]))
    BY DEF AuthorizeAllows, has_permission, resolve_proxy_permission, Code, User
<1>3. PICK x \in Request :
        /\ request' = [request EXCEPT ![q] = x]
        /\ x.pc = "reading"
        /\ x.user = request[q].user /\ x.method = request[q].method
        /\ x.service = request[q].service /\ x.decision = request[q].decision
        /\ x.forwarded = request[q].forwarded /\ x.lapsed = request[q].lapsed
    BY <1>0, <1>1, GoesTo DEF AuthorizeAllows, Working
<1>4. Code(x) = Code(request[q])
    BY <1>3 DEF Code
<1>5. Sound(x, grants, active)
    BY <1>0, <1>1, <1>2, <1>3, <1>4 DEF Sound, Working, PastAuthorization
<1> QED
    BY <1>3, <1>5, UncountedType, OneRequest DEF AuthorizeAllows, AdmissionInv, TypeOK

LEMMA AuthorizeFailsKeeps ==
    ASSUME AdmissionInv, NEW q \in Requests, AuthorizeFails(q)
    PROVE  AdmissionInv'
<1>0. request[q].pc = "authorizing" /\ TypeOK
    BY DEF AuthorizeFails, AdmissionInv
<1>1. request[q] \in Request
    BY <1>0, RequestShape
<1>2. PICK status \in Nat :
        request' = [request EXCEPT ![q].pc = "auditing", ![q].decision = status]
    <2>1. PICK s \in {403, 503} :
            request' = [request EXCEPT ![q].pc = "auditing", ![q].decision = s]
        BY DEF AuthorizeFails
    <2>2. s \in Nat
        BY <2>1
    <2> QED
        BY <2>1, <2>2
<1>3. CountsTyped'
    BY <1>0, CountedType DEF AuthorizeFails
<1>4. /\ UNCHANGED <<accounts, grants, active>>
      /\ bucket' \in [Users -> 0..BucketSize]
    BY <1>0 DEF AuthorizeFails, TypeOK
<1>5. PICK x \in Request :
        /\ request' = [request EXCEPT ![q] = x]
        /\ x.pc = "auditing"
        /\ x.service = request[q].service /\ x.forwarded = request[q].forwarded
    BY <1>0, <1>1, <1>2, DecidesOn
<1>6. request[q].pc \in {"limiting", "authorizing"}
    BY <1>0
<1> QED
    BY <1>3, <1>4, <1>5, <1>6, RefusedWith

LEMMA ForwardKeeps ==
    ASSUME AdmissionInv, NEW q \in Requests, Forward(q)
    PROVE  AdmissionInv'
<1>0. request[q].pc = "reading" /\ TypeOK
    BY DEF Forward, AdmissionInv
<1>1. Sound(request[q], grants, active) /\ request[q] \in Request
    BY <1>0, RequestShape DEF AdmissionInv
<1> DEFINE x == [request[q] EXCEPT !.pc = "forwarding", !.forwarded = TRUE]
<1>2. request' = [request EXCEPT ![q] = x]
    BY <1>0, <1>1 DEF Forward, TypeOK
<1>3. x \in Request
    BY <1>1 DEF Request, Working
<1>4. /\ x.pc = "forwarding" /\ x.user = request[q].user
      /\ x.method = request[q].method /\ x.service = request[q].service
      /\ x.decision = request[q].decision /\ x.lapsed = request[q].lapsed
      /\ x.forwarded
    BY <1>1 DEF Request
<1> HIDE DEF x
<1>5. Code(x) = Code(request[q])
    BY <1>4 DEF Code
<1>6. Sound(x, grants, active)
    BY <1>0, <1>1, <1>4, <1>5 DEF Sound, Working, PastAuthorization
<1> QED
    BY <1>2, <1>3, <1>6, UncountedType, OneRequest DEF Forward, AdmissionInv, TypeOK

LEMMA CancelKeeps ==
    ASSUME AdmissionInv, NEW q \in Requests, Cancel(q)
    PROVE  AdmissionInv'
<1>0. request[q].pc \in Working /\ TypeOK
    BY DEF Cancel, AdmissionInv
<1>1. request[q] \in Request
    BY <1>0, RequestShape DEF Working
<1>2. PICK x \in Request :
        request' = [request EXCEPT ![q] = x] /\ x.pc = "cancelled"
    BY <1>0, <1>1, GoesTo DEF Cancel
<1>3. Sound(x, grants, active)
    BY <1>2 DEF Sound, Working, PastAuthorization
<1>4. UNCHANGED <<accounts, grants, active>> /\ CountsTyped'
    BY <1>0, UncountedType DEF Cancel
<1>5. bucket' \in [Users -> 0..BucketSize]
    <2>1. User(q) \in Users
        BY <1>0, UserKnown DEF Working
    <2> QED
        BY <1>0, <2>1, TokenTakenType DEF Cancel, TypeOK
<1> QED
    BY <1>2, <1>3, <1>4, <1>5, OneRequest

-----------------------------------------------------------------------------
(* Meanwhile.                                                              *)

\* Roles or accounts change from g, a to g', a' and requests are marked whose
\* right lapsed.
LEMMA LapseKeeps ==
    ASSUME NEW x \in Request \cup {Idle}, NEW g, NEW a, NEW h, NEW b,
           Sound(x, g, a), NEW y,
           \/ y = [x EXCEPT !.lapsed = TRUE] /\ x \in Request
           \/ y = x /\ Sound(x, h, b)
    PROVE  y \in Request \cup {Idle} /\ Sound(y, h, b)
<1>1. CASE y = x /\ Sound(x, h, b)
    BY <1>1
<1>2. CASE y = [x EXCEPT !.lapsed = TRUE] /\ x \in Request
    <2>1. /\ y \in Request /\ y.lapsed = TRUE /\ y.pc = x.pc
          /\ y.service = x.service /\ y.decision = x.decision
          /\ y.answer = x.answer /\ y.forwarded = x.forwarded
        BY <1>2 DEF Request
    <2> QED
        BY <2>1 DEF Sound
<1> QED
    BY <1>1, <1>2

LEMMA ChangeRoleKeeps ==
    ASSUME AdmissionInv, NEW u \in Users, NEW r \in Roles, ChangeRole(u, r)
    PROVE  AdmissionInv'
<1>0. TypeOK
    BY DEF AdmissionInv
<1>1. /\ UNCHANGED <<accounts, active, bucket, metrics, lost, refilled>>
      /\ grants' \subseteq accounts \X Roles
    BY <1>0 DEF ChangeRole, AssignRole, RemoveRole, TypeOK
<1>2. \A q \in Requests :
        request'[q] \in Request \cup {Idle} /\ Sound(request'[q], grants', active)
    <2> SUFFICES ASSUME NEW q \in Requests
                 PROVE  /\ request'[q] \in Request \cup {Idle}
                        /\ Sound(request'[q], grants', active)
        OBVIOUS
    <2>1. request[q] \in Request \cup {Idle} /\ Sound(request[q], grants, active)
        BY <1>0 DEF AdmissionInv, TypeOK
    <2>2. resolve_proxy_permission(q) = Code(request[q]) /\ User(q) = request[q].user
        BY DEF resolve_proxy_permission, Code, User
    <2>3. CASE /\ request[q].pc \in PastAuthorization
               /\ ~PermittedBy(grants', request[q].user, Code(request[q]))
        <3>1. request'[q] = [request[q] EXCEPT !.lapsed = TRUE]
            BY <2>2, <2>3 DEF ChangeRole
        <3>2. request[q] \in Request
            BY <1>0, <2>3, RequestShape DEF PastAuthorization
        <3> QED
            BY <2>1, <3>1, <3>2, LapseKeeps
    <2>4. CASE ~(/\ request[q].pc \in PastAuthorization
                 /\ ~PermittedBy(grants', request[q].user, Code(request[q])))
        <3>1. request'[q] = request[q]
            BY <2>2, <2>4 DEF ChangeRole
        <3>2. Sound(request[q], grants', active)
            BY <2>1, <2>4 DEF Sound
        <3> QED
            BY <2>1, <3>1, <3>2
    <2> QED
        BY <2>3, <2>4
<1>3. TypeOK'
    BY <1>0, <1>1, <1>2 DEF TypeOK, ChangeRole
<1> QED
    BY <1>1, <1>2, <1>3 DEF AdmissionInv

LEMMA DeactivateKeeps ==
    ASSUME AdmissionInv, NEW u \in Users, Deactivate(u)
    PROVE  AdmissionInv'
<1>0. TypeOK
    BY DEF AdmissionInv
<1>1. /\ UNCHANGED <<accounts, grants, bucket, metrics, lost, refilled>>
      /\ active' = active \ {u}
    BY DEF Deactivate
<1>2. \A q \in Requests :
        request'[q] \in Request \cup {Idle} /\ Sound(request'[q], grants, active')
    <2> SUFFICES ASSUME NEW q \in Requests
                 PROVE  /\ request'[q] \in Request \cup {Idle}
                        /\ Sound(request'[q], grants, active')
        OBVIOUS
    <2>1. request[q] \in Request \cup {Idle} /\ Sound(request[q], grants, active)
        BY <1>0 DEF AdmissionInv, TypeOK
    <2>2. User(q) = request[q].user
        BY DEF User
    <2>3. CASE request[q].pc \in PastAuthentication /\ request[q].user = u
        <3>1. request'[q] = [request[q] EXCEPT !.lapsed = TRUE]
            BY <2>2, <2>3 DEF Deactivate
        <3>2. request[q] \in Request
            BY <1>0, <2>3, RequestShape DEF PastAuthentication, Working
        <3> QED
            BY <2>1, <3>1, <3>2, LapseKeeps
    <2>4. CASE ~(request[q].pc \in PastAuthentication /\ request[q].user = u)
        <3>1. request'[q] = request[q]
            BY <2>2, <2>4 DEF Deactivate
        <3>2. Sound(request[q], grants, active')
            BY <1>1, <2>1, <2>4 DEF Sound, PastAuthentication, Working
        <3> QED
            BY <2>1, <3>1, <3>2
    <2> QED
        BY <2>3, <2>4
<1>3. TypeOK'
    BY <1>0, <1>1, <1>2 DEF TypeOK, Deactivate
<1> QED
    BY <1>1, <1>2, <1>3 DEF AdmissionInv

LEMMA RegisterKeeps ==
    ASSUME AdmissionInv, NEW u \in Users, Register(u)
    PROVE  AdmissionInv'
<1>0. TypeOK
    BY DEF AdmissionInv
<1>1. /\ accounts' = accounts \cup {u} /\ active' = active \cup {u}
      /\ grants' = grants \cup {<<u, DEFAULT_ROLE>>}
      /\ UNCHANGED <<bucket, request, metrics, lost, refilled>>
    BY DEF Register, CreateUser
<1>2. TypeOK'
    BY <1>0, <1>1 DEF TypeOK, DEFAULT_ROLE, Roles
<1>3. \A q \in Requests : Sound(request[q], grants', active')
    <2> SUFFICES ASSUME NEW q \in Requests
                 PROVE  Sound(request[q], grants', active')
        OBVIOUS
    <2>1. Sound(request[q], grants, active)
        BY DEF AdmissionInv
    <2>2. PermittedBy(grants, request[q].user, Code(request[q]))
            => PermittedBy(grants', request[q].user, Code(request[q]))
        BY <1>1 DEF PermittedBy
    <2> QED
        BY <1>1, <2>1, <2>2 DEF Sound
<1> QED
    BY <1>1, <1>2, <1>3 DEF AdmissionInv

LEMMA RefillKeeps ==
    ASSUME AdmissionInv, NEW u \in Users, Refill(u)
    PROVE  AdmissionInv'
<1>1. bucket' \in [Users -> 0..BucketSize]
    BY AdmissionAssumption DEF AdmissionInv, TypeOK, Refill
<1> QED
    BY <1>1 DEF Refill, AdmissionInv, TypeOK

-----------------------------------------------------------------------------
(* The invariant and what follows from it.                                 *)

\* The inductive invariant holds for any number of requests and users, and
\* every bucket.
THEOREM AdmissionInvariant == Spec => []AdmissionInv
<1>1. Init => AdmissionInv
    <2> SUFFICES ASSUME Init PROVE AdmissionInv
        OBVIOUS
    <2>1. TypeOK
        BY StoreAssumption, AdmissionAssumption
        DEF Init, StoreInit, TypeOK, DEFAULT_ROLE, Roles
    <2>2. \A q \in Requests : Sound(request[q], grants, active)
        BY IdleSound DEF Init
    <2> QED
        BY <2>1, <2>2 DEF AdmissionInv
<1>2. AdmissionInv /\ [Next]_vars => AdmissionInv'
    <2> SUFFICES ASSUME AdmissionInv, [Next]_vars PROVE AdmissionInv'
        OBVIOUS
    <2>1. ASSUME NEW q \in Requests, NEW u \in Users, NEW m \in Methods,
                 NEW s \in ServiceNames,
                 Begin(q, u, m, s) \/ BeginUnauthenticated(q, u, m, s)
          PROVE  AdmissionInv'
        BY <2>1, BeginKeeps
    <2>2. ASSUME NEW q \in Requests, Step(q)
          PROVE  AdmissionInv'
        BY <2>2, AuthenticateKeeps, UndecidedAnswers, LimitAllowsKeeps,
           LimitRefusesKeeps, AuthorizeAllowsKeeps, AuthorizeFailsKeeps,
           ForwardKeeps, AuditedAnswers DEF Step
    <2>3. ASSUME NEW q \in Requests, Cancel(q) PROVE AdmissionInv'
        BY <2>3, CancelKeeps
    <2>4. ASSUME NEW u \in Users, Register(u) PROVE AdmissionInv'
        BY <2>4, RegisterKeeps
    <2>5. ASSUME NEW u \in Users, NEW r \in Roles, ChangeRole(u, r)
          PROVE  AdmissionInv'
        BY <2>5, ChangeRoleKeeps
    <2>6. ASSUME NEW u \in Users, Deactivate(u) PROVE AdmissionInv'
        BY <2>6, DeactivateKeeps
    <2>7. ASSUME NEW u \in Users, Refill(u) PROVE AdmissionInv'
        BY <2>7, RefillKeeps
    <2>8. CASE UNCHANGED vars
        BY <2>8 DEF vars, AdmissionInv, TypeOK
    <2> QED
        BY <2>1, <2>2, <2>3, <2>4, <2>5, <2>6, <2>7, <2>8 DEF Next
<1> QED
    BY <1>1, <1>2, PTL DEF Spec

\* Type correctness of the admission pipeline; in particular no bucket is
\* overdrawn.
THEOREM TypeCorrect == Spec => []TypeOK
<1>1. AdmissionInv => TypeOK
    BY DEF AdmissionInv
<1> QED
    BY <1>1, AdmissionInvariant, PTL

\* A permission to write is not among those of the role user.
LEMMA WritersAreOperators ==
    ASSUME NEW x, NEW g, PermittedBy(g, x.user, Code(x))
    PROVE  \E r \in Roles :
            /\ <<x.user, r>> \in g
            /\ r = "user" => x.method \in {"GET", "HEAD", "OPTIONS"}
<1>1. PICK r \in Roles : <<x.user, r>> \in g /\ Code(x) \in role_permissions(r)
    BY DEF PermittedBy
<1>2. CASE r = "user"
    <2>1. PICK s \in ProxyServices : Code(x) = <<"proxy", s, "read">>
        BY <1>1, <1>2 DEF role_permissions, ReadCodes, ProxyCode
    <2>2. x.method \in PROXY_READ_METHODS
        BY <2>1 DEF Code, ProxyCode
    <2> QED
        BY <1>1, <2>2 DEF PROXY_READ_METHODS
<1>3. CASE r # "user"
    BY <1>1, <1>3
<1> QED
    BY <1>2, <1>3

\* For any number of users, roles changes and requests: a request beyond the
\* gate has every right it needs unless one was withdrawn since.
THEOREM RightsAreHeld == Spec => []RightsHeld
<1>1. AdmissionInv => RightsHeld
    <2> SUFFICES ASSUME AdmissionInv, NEW q \in Requests,
                        request[q].pc \in PastAuthorization
                 PROVE  /\ request[q].service \in ProxyServices
                        /\ ~request[q].lapsed =>
                            /\ User(q) \in active
                            /\ \E r \in Roles :
                                /\ <<User(q), r>> \in grants
                                /\ r = "user" =>
                                    request[q].method \in {"GET", "HEAD", "OPTIONS"}
        BY DEF RightsHeld
    <2>1. Sound(request[q], grants, active)
        BY DEF AdmissionInv
    <2>2. /\ request[q].service \in ProxyServices
          /\ ~request[q].lapsed =>
                /\ request[q].user \in active
                /\ PermittedBy(grants, request[q].user, Code(request[q]))
        BY <2>1 DEF Sound, PastAuthorization
    <2> QED
        BY <2>2, WritersAreOperators DEF User
<1> QED
    BY <1>1, AdmissionInvariant, PTL

\* Whatever becomes of its audit event, a refusal reaches the client and
\* nothing is forwarded; only an event that cannot be built turns it into 500.
THEOREM DecisionsStand == Spec => []DecisionStands
<1>1. AdmissionInv => DecisionStands
    BY DEF AdmissionInv, Sound, DecisionStands
<1> QED
    BY <1>1, AdmissionInvariant, PTL

-----------------------------------------------------------------------------
(* What is counted and what is paid for.                                   *)

Started == {p \in Requests : request[p].pc # "idle"}

IsAnswered(x) == x.pc = "answered"

IsRefused(x) ==
    /\ x.pc \in {"auditing", "answered", "cancelled"}
    /\ x.decision # 0
    /\ x.service \in Auditable

\* Stronger than SignalsAddUp: an upstream call is counted with its answer.
IsCalled(x) == x.pc = "answered" /\ x.forwarded

\* Request x of user u is beyond the limiter, or was when it was forwarded.
IsPaid(x, u) ==
    /\ x.pc # "idle"
    /\ x.user = u
    /\ x.forwarded \/ x.pc \in {"authorizing", "reading"}

AnsweredNow == {p \in Requests : IsAnswered(request[p])}
RefusedNow == {p \in Requests : IsRefused(request[p])}
CalledNow == {p \in Requests : IsCalled(request[p])}
PaidNow(u) == {p \in Requests : IsPaid(request[p], u)}

\* How often the recorder of counter c was called.
Tally(c) == metrics[c] + lost[c]

\* Finitely many requests have started, however many there may be; the
\* recorders were called as often as these say; and those beyond the limiter
\* have taken their tokens from the buckets.
CountInv ==
    /\ IsFiniteSet(Started)
    /\ Tally("http_requests") = Cardinality(AnsweredNow)
    /\ Tally("security_events") = Cardinality(RefusedNow)
    /\ Tally("upstream_requests") <= Cardinality(CalledNow)
    /\ \A u \in Users :
        Cardinality(PaidNow(u)) + bucket[u] <= BucketSize + refilled[u]

LEMMA CountedFinite ==
    ASSUME IsFiniteSet(Started)
    PROVE  /\ IsFiniteSet(AnsweredNow) /\ IsFiniteSet(RefusedNow)
           /\ IsFiniteSet(CalledNow)
           /\ \A u : IsFiniteSet(PaidNow(u))
<1>1. AnsweredNow \in SUBSET Started
    BY DEF AnsweredNow, Started, IsAnswered
<1>2. RefusedNow \in SUBSET Started
    BY DEF RefusedNow, Started, IsRefused
<1>3. CalledNow \in SUBSET Started
    BY DEF CalledNow, Started, IsCalled
<1>4. \A u : PaidNow(u) \in SUBSET Started
    BY DEF PaidNow, Started, IsPaid
<1> QED
    BY <1>1, <1>2, <1>3, <1>4, FS_Subset

\* What the types say of the numbers compared here.
LEMMA Numbers ==
    ASSUME TypeOK
    PROVE  /\ \A c \in Counters : Tally(c) \in Nat
           /\ \A u \in Users : bucket[u] \in Nat /\ refilled[u] \in Nat
           /\ BucketSize \in Nat
BY AdmissionAssumption DEF TypeOK, Tally

\* Counted calls the recorders it names, once each, and no other.
LEMMA CountedTallies ==
    ASSUME TypeOK, NEW S \in SUBSET Counters, Counted(S)
    PROVE  \A c \in Counters : Tally(c)' = Tally(c) + Bit(c \in S)
<1>1. PICK R \in SUBSET S : metrics' = Plus(metrics, R) /\ lost' = Plus(lost, S \ R)
    BY DEF Counted
<1>2. \A c \in Counters :
        /\ metrics[c] \in Nat /\ lost[c] \in Nat
        /\ metrics'[c] = metrics[c] + Bit(c \in R)
        /\ lost'[c] = lost[c] + Bit(c \in S \ R)
    BY <1>1 DEF TypeOK, Plus, Bit
<1>3. \A c : Bit(c \in R) + Bit(c \in S \ R) = Bit(c \in S)
    BY <1>1 DEF Bit
<1> QED
    BY <1>2, <1>3, BitType DEF Tally

\* The counters and the buckets move as record x differs from record y.
CountersMove(y, x) ==
    /\ Tally("http_requests")' + Bit(IsAnswered(y))
        = Tally("http_requests") + Bit(IsAnswered(x))
    /\ Tally("security_events")' + Bit(IsRefused(y))
        = Tally("security_events") + Bit(IsRefused(x))
    /\ Tally("upstream_requests")' + Bit(IsCalled(y))
        <= Tally("upstream_requests") + Bit(IsCalled(x))

BucketsMove(y, x) ==
    /\ refilled' = refilled
    /\ \A u \in Users : bucket'[u] + Bit(IsPaid(x, u)) <= bucket[u] + Bit(IsPaid(y, u))

\* One request moves to x, and the counters and buckets with it.
LEMMA CountsMove ==
    ASSUME TypeOK, TypeOK', CountInv, NEW q \in Requests, NEW x, x.pc # "idle",
           request' = [request EXCEPT ![q] = x],
           CountersMove(request[q], x), BucketsMove(request[q], x)
    PROVE  CountInv'
<1>0. /\ request \in [Requests -> Request \cup {Idle}]
      /\ \A c \in Counters : Tally(c) \in Nat /\ Tally(c)' \in Nat
    BY Numbers, AdmissionAssumption DEF TypeOK, Tally
<1>1. \A p \in Requests : request'[p] = IF p = q THEN x ELSE request[p]
    BY <1>0
<1>2. IsFiniteSet(Started')
    <2>1. Started' = Started \cup {q}
        BY <1>1 DEF Started
    <2> QED
        BY <2>1, FS_AddElement DEF CountInv
<1>3. /\ IsFiniteSet(AnsweredNow) /\ IsFiniteSet(RefusedNow)
      /\ IsFiniteSet(CalledNow)
      /\ \A u : IsFiniteSet(PaidNow(u))
    BY CountedFinite DEF CountInv
<1>4. Tally("http_requests")' = Cardinality(AnsweredNow')
    <2>1. AnsweredNow' \ {q} = AnsweredNow \ {q}
        BY <1>1 DEF AnsweredNow
    <2>2. (q \in AnsweredNow) <=> IsAnswered(request[q])
        BY DEF AnsweredNow
    <2>3. (q \in AnsweredNow') <=> IsAnswered(x)
        BY <1>1 DEF AnsweredNow
    <2>4. /\ Cardinality(AnsweredNow) \in Nat /\ Cardinality(AnsweredNow') \in Nat
          /\ Cardinality(AnsweredNow') + Bit(q \in AnsweredNow)
                = Cardinality(AnsweredNow) + Bit(q \in AnsweredNow')
        BY <1>3, <2>1, OneDiffers
    <2>5. /\ Bit(q \in AnsweredNow) = Bit(IsAnswered(request[q]))
          /\ Bit(q \in AnsweredNow') = Bit(IsAnswered(x))
        BY <2>2, <2>3 DEF Bit
    <2> QED
        BY <1>0, <2>4, <2>5, BitType DEF CountInv, CountersMove, Counters
<1>5. Tally("security_events")' = Cardinality(RefusedNow')
    <2>1. RefusedNow' \ {q} = RefusedNow \ {q}
        BY <1>1 DEF RefusedNow
    <2>2. (q \in RefusedNow) <=> IsRefused(request[q])
        BY DEF RefusedNow
    <2>3. (q \in RefusedNow') <=> IsRefused(x)
        BY <1>1 DEF RefusedNow
    <2>4. /\ Cardinality(RefusedNow) \in Nat /\ Cardinality(RefusedNow') \in Nat
          /\ Cardinality(RefusedNow') + Bit(q \in RefusedNow)
                = Cardinality(RefusedNow) + Bit(q \in RefusedNow')
        BY <1>3, <2>1, OneDiffers
    <2>5. /\ Bit(q \in RefusedNow) = Bit(IsRefused(request[q]))
          /\ Bit(q \in RefusedNow') = Bit(IsRefused(x))
        BY <2>2, <2>3 DEF Bit
    <2> QED
        BY <1>0, <2>4, <2>5, BitType DEF CountInv, CountersMove, Counters
<1>6. Tally("upstream_requests")' <= Cardinality(CalledNow')
    <2>1. CalledNow' \ {q} = CalledNow \ {q}
        BY <1>1 DEF CalledNow
    <2>2. (q \in CalledNow) <=> IsCalled(request[q])
        BY DEF CalledNow
    <2>3. (q \in CalledNow') <=> IsCalled(x)
        BY <1>1 DEF CalledNow
    <2>4. /\ Cardinality(CalledNow) \in Nat /\ Cardinality(CalledNow') \in Nat
          /\ Cardinality(CalledNow') + Bit(q \in CalledNow)
                = Cardinality(CalledNow) + Bit(q \in CalledNow')
        BY <1>3, <2>1, OneDiffers
    <2>5. /\ Bit(q \in CalledNow) = Bit(IsCalled(request[q]))
          /\ Bit(q \in CalledNow') = Bit(IsCalled(x))
        BY <2>2, <2>3 DEF Bit
    <2> QED
        BY <1>0, <2>4, <2>5, BitType DEF CountInv, CountersMove, Counters
<1>7. ASSUME NEW u \in Users
      PROVE  Cardinality(PaidNow(u)') + bucket'[u] <= BucketSize + refilled'[u]
    <2>1. PaidNow(u)' \ {q} = PaidNow(u) \ {q}
        BY <1>1 DEF PaidNow
    <2>2. (q \in PaidNow(u)) <=> IsPaid(request[q], u)
        BY DEF PaidNow
    <2>3. (q \in PaidNow(u)') <=> IsPaid(x, u)
        BY <1>1 DEF PaidNow
    <2>4. /\ Cardinality(PaidNow(u)) \in Nat /\ Cardinality(PaidNow(u)') \in Nat
          /\ Cardinality(PaidNow(u)') + Bit(q \in PaidNow(u))
                = Cardinality(PaidNow(u)) + Bit(q \in PaidNow(u)')
        BY <1>3, <2>1, OneDiffers
    <2>5. /\ Bit(q \in PaidNow(u)) = Bit(IsPaid(request[q], u))
          /\ Bit(q \in PaidNow(u)') = Bit(IsPaid(x, u))
        BY <2>2, <2>3 DEF Bit
    <2>6. /\ bucket[u] \in Nat /\ bucket'[u] \in Nat /\ refilled[u] \in Nat
          /\ BucketSize \in Nat
        BY AdmissionAssumption DEF TypeOK
    <2>7. /\ bucket'[u] + Bit(IsPaid(x, u)) <= bucket[u] + Bit(IsPaid(request[q], u))
          /\ refilled'[u] = refilled[u]
        BY DEF BucketsMove
    <2>8. Cardinality(PaidNow(u)) + bucket[u] <= BucketSize + refilled[u]
        BY DEF CountInv
    <2> QED
        BY <2>4, <2>5, <2>6, <2>7, <2>8, BitType
<1> QED
    BY <1>2, <1>4, <1>5, <1>6, <1>7 DEF CountInv

\* What the steps need to know of a request before it is answered.
LEMMA NotYet ==
    ASSUME AdmissionInv, NEW q \in Requests, request[q].pc \in Working
    PROVE  /\ request[q] \in Request /\ request[q].pc # "idle"
           /\ ~IsAnswered(request[q]) /\ ~IsCalled(request[q])
           /\ request[q].pc # "auditing" => request[q].decision = 0
           /\ request[q].pc # "forwarding" => ~request[q].forwarded
<1>1. request[q].pc # "idle"
    BY DEF Working
<1>2. request[q] \in Request
    BY <1>1, RequestShape DEF AdmissionInv
<1>3. Sound(request[q], grants, active)
    BY DEF AdmissionInv
<1> QED
    BY <1>1, <1>2, <1>3 DEF Sound, Working, IsAnswered, IsCalled

\* A step that takes a token at most and lets nothing pass the limiter.
LEMMA NothingPaid ==
    ASSUME TypeOK, TypeOK', NEW y, NEW x, UNCHANGED refilled,
           \A u \in Users : IsPaid(x, u) => IsPaid(y, u),
           \A u \in Users : bucket'[u] <= bucket[u]
    PROVE  BucketsMove(y, x)
<1>1. \A u \in Users : bucket[u] \in Nat /\ bucket'[u] \in Nat
    BY AdmissionAssumption DEF TypeOK
<1>2. \A u \in Users : Bit(IsPaid(x, u)) <= Bit(IsPaid(y, u))
    BY DEF Bit
<1> QED
    BY <1>1, <1>2, BitType DEF BucketsMove

LEMMA TokenSpent ==
    ASSUME TypeOK, NEW u \in Users, UNCHANGED bucket \/ TokenTaken(u)
    PROVE  \A v \in Users : bucket'[v] <= bucket[v]
BY AdmissionAssumption DEF TypeOK, TokenTaken

LEMMA BeginCounts ==
    ASSUME AdmissionInv, AdmissionInv', CountInv, NEW q \in Requests, NEW u, NEW m, NEW s,
           Begin(q, u, m, s) \/ BeginUnauthenticated(q, u, m, s)
    PROVE  CountInv'
<1>0. /\ TypeOK /\ TypeOK' /\ request[q].pc = "idle"
      /\ UNCHANGED <<bucket, refilled>>
      /\ \A c \in Counters : Tally(c) \in Nat
      /\ \A v \in Users : bucket'[v] <= bucket[v]
    BY Numbers DEF AdmissionInv, Begin, BeginUnauthenticated, Idle
<1>1. ~IsAnswered(request[q]) /\ ~IsRefused(request[q]) /\ ~IsCalled(request[q])
    BY <1>0 DEF IsAnswered, IsRefused, IsCalled
<1>2. CASE Begin(q, u, m, s)
    <2> DEFINE x == [pc |-> "authenticating", user |-> u, method |-> m, service |-> s,
                     decision |-> 0, answer |-> 0, forwarded |-> FALSE, lapsed |-> FALSE]
    <2>1. /\ request' = [request EXCEPT ![q] = x] /\ x.pc = "authenticating"
          /\ x.decision = 0 /\ x.forwarded = FALSE
        BY <1>2 DEF Begin
    <2> HIDE DEF x
    <2>2. /\ ~IsAnswered(x) /\ ~IsRefused(x) /\ ~IsCalled(x) /\ x.pc # "idle"
          /\ \A v : ~IsPaid(x, v)
        BY <2>1 DEF IsAnswered, IsRefused, IsCalled, IsPaid
    <2>3. \A c : Tally(c)' = Tally(c)
        BY <1>2 DEF Begin, Tally
    <2>4. CountersMove(request[q], x)
        BY <1>0, <1>1, <2>2, <2>3 DEF CountersMove, Bit, Counters
    <2>5. BucketsMove(request[q], x)
        BY <1>0, <2>2, NothingPaid
    <2> QED
        BY <1>0, <2>1, <2>2, <2>4, <2>5, CountsMove
<1>3. CASE BeginUnauthenticated(q, u, m, s)
    <2> DEFINE x == [pc |-> "answered", user |-> u, method |-> m, service |-> s,
                     decision |-> 0, answer |-> 401, forwarded |-> FALSE, lapsed |-> FALSE]
    <2>1. /\ request' = [request EXCEPT ![q] = x] /\ x.pc = "answered"
          /\ x.decision = 0 /\ x.forwarded = FALSE
        BY <1>3 DEF BeginUnauthenticated
    <2> HIDE DEF x
    <2>2. /\ IsAnswered(x) /\ ~IsRefused(x) /\ ~IsCalled(x) /\ x.pc # "idle"
          /\ \A v : ~IsPaid(x, v)
        BY <2>1 DEF IsAnswered, IsRefused, IsCalled, IsPaid
    <2>3. \A c \in Counters : Tally(c)' = Tally(c) + Bit(c \in {"http_requests"})
        BY <1>0, <1>3, CountedTallies DEF BeginUnauthenticated, Counters
    <2>4. CountersMove(request[q], x)
        BY <1>0, <1>1, <2>2, <2>3 DEF CountersMove, Bit, Counters
    <2>5. BucketsMove(request[q], x)
        BY <1>0, <2>2, NothingPaid
    <2> QED
        BY <1>0, <2>1, <2>2, <2>4, <2>5, CountsMove
<1> QED
    BY <1>2, <1>3

\* A step that leaves the counters alone, as far as x agrees with before.
LEMMA NothingCounted ==
    ASSUME TypeOK, TypeOK', CountInv, NEW q \in Requests, NEW x, x.pc # "idle",
           request' = [request EXCEPT ![q] = x], UNCHANGED <<metrics, lost>>,
           ~IsAnswered(x), ~IsAnswered(request[q]), ~IsCalled(request[q]),
           IsRefused(x) <=> IsRefused(request[q]),
           BucketsMove(request[q], x)
    PROVE  CountInv'
<1>1. /\ \A c \in Counters : Tally(c) \in Nat
      /\ \A c : Tally(c)' = Tally(c)
    BY Numbers DEF Tally
<1>2. CountersMove(request[q], x)
    BY <1>1 DEF CountersMove, Bit, Counters
<1> QED
    BY <1>2, CountsMove

LEMMA AuthenticateCounts ==
    ASSUME AdmissionInv, AdmissionInv', CountInv, NEW q \in Requests, Authenticate(q)
    PROVE  CountInv'
<1>1. /\ request[q].pc = "authenticating" /\ TypeOK /\ TypeOK'
      /\ UNCHANGED <<metrics, lost, bucket, refilled>>
    BY DEF Authenticate, AdmissionInv
<1>2. /\ request[q] \in Request /\ ~IsAnswered(request[q]) /\ ~IsCalled(request[q])
      /\ request[q].decision = 0 /\ ~request[q].forwarded
    BY <1>1, NotYet DEF Working
<1>3. PICK x \in Request :
        /\ request' = [request EXCEPT ![q] = x]
        /\ x.pc = "limiting"
        /\ x.decision = request[q].decision
        /\ x.forwarded = request[q].forwarded
    BY <1>1, <1>2, GoesTo DEF Authenticate, Working
<1>4. /\ ~IsAnswered(x) /\ ~IsRefused(x) /\ ~IsRefused(request[q])
      /\ x.pc # "idle"
      /\ \A u : ~IsPaid(x, u)
    BY <1>1, <1>2, <1>3 DEF IsAnswered, IsRefused, IsPaid
<1>5. BucketsMove(request[q], x)
    <2>1. \A u \in Users : bucket'[u] <= bucket[u]
        BY <1>1, Numbers
    <2> QED
        BY <1>1, <1>4, <2>1, NothingPaid
<1> QED
    BY <1>1, <1>2, <1>3, <1>4, <1>5, NothingCounted

LEMMA AuthorizeAllowsCounts ==
    ASSUME AdmissionInv, AdmissionInv', CountInv, NEW q \in Requests, AuthorizeAllows(q)
    PROVE  CountInv'
<1>1. /\ request[q].pc = "authorizing" /\ TypeOK /\ TypeOK'
      /\ UNCHANGED <<metrics, lost, bucket, refilled>>
    BY DEF AuthorizeAllows, AdmissionInv
<1>2. /\ request[q] \in Request /\ ~IsAnswered(request[q]) /\ ~IsCalled(request[q])
      /\ request[q].decision = 0
    BY <1>1, NotYet DEF Working
<1>3. PICK x \in Request :
        /\ request' = [request EXCEPT ![q] = x]
        /\ x.pc = "reading" /\ x.user = request[q].user
        /\ x.decision = request[q].decision
        /\ x.forwarded = request[q].forwarded
    BY <1>1, <1>2, GoesTo DEF AuthorizeAllows, Working
<1>4. /\ ~IsAnswered(x) /\ ~IsRefused(x) /\ ~IsRefused(request[q])
      /\ x.pc # "idle"
      /\ \A u : IsPaid(x, u) => IsPaid(request[q], u)
    BY <1>1, <1>2, <1>3 DEF IsAnswered, IsRefused, IsPaid
<1>5. BucketsMove(request[q], x)
    <2>1. \A u \in Users : bucket'[u] <= bucket[u]
        BY <1>1, Numbers
    <2> QED
        BY <1>1, <1>4, <2>1, NothingPaid
<1> QED
    BY <1>1, <1>2, <1>3, <1>4, <1>5, NothingCounted

LEMMA ForwardCounts ==
    ASSUME AdmissionInv, AdmissionInv', CountInv, NEW q \in Requests, Forward(q)
    PROVE  CountInv'
<1>1. /\ request[q].pc = "reading" /\ TypeOK /\ TypeOK'
      /\ UNCHANGED <<metrics, lost, bucket, refilled>>
    BY DEF Forward, AdmissionInv
<1>2. /\ request[q] \in Request /\ ~IsAnswered(request[q]) /\ ~IsCalled(request[q])
    BY <1>1, NotYet DEF Working
<1> DEFINE x == [request[q] EXCEPT !.pc = "forwarding", !.forwarded = TRUE]
<1>3. request' = [request EXCEPT ![q] = x]
    BY <1>1, <1>2 DEF Forward, TypeOK
<1>4. x.pc = "forwarding" /\ x.user = request[q].user
    BY <1>2 DEF Request
<1> HIDE DEF x
<1>5. /\ ~IsAnswered(x) /\ ~IsRefused(x) /\ ~IsRefused(request[q])
      /\ x.pc # "idle"
      /\ \A u : IsPaid(x, u) => IsPaid(request[q], u)
    BY <1>1, <1>4 DEF IsAnswered, IsRefused, IsPaid
<1>6. BucketsMove(request[q], x)
    <2>1. \A u \in Users : bucket'[u] <= bucket[u]
        BY <1>1, Numbers
    <2> QED
        BY <1>1, <1>5, <2>1, NothingPaid
<1> QED
    BY <1>1, <1>2, <1>3, <1>5, <1>6, NothingCounted

LEMMA CancelCounts ==
    ASSUME AdmissionInv, AdmissionInv', CountInv, NEW q \in Requests, Cancel(q)
    PROVE  CountInv'
<1>1. /\ request[q].pc \in Working /\ TypeOK /\ TypeOK'
      /\ UNCHANGED <<metrics, lost, refilled>>
      /\ UNCHANGED bucket \/ TokenTaken(User(q))
    BY DEF Cancel, AdmissionInv
<1>2. /\ request[q] \in Request /\ ~IsAnswered(request[q]) /\ ~IsCalled(request[q])
      /\ request[q].pc # "auditing" => request[q].decision = 0
      /\ request[q].pc # "idle"
    BY <1>1, NotYet
<1>3. PICK x \in Request :
        /\ request' = [request EXCEPT ![q] = x]
        /\ x.pc = "cancelled" /\ x.user = request[q].user
        /\ x.service = request[q].service
        /\ x.decision = request[q].decision
        /\ x.forwarded = request[q].forwarded
    BY <1>1, <1>2, GoesTo DEF Cancel
<1>4. /\ ~IsAnswered(x) /\ (IsRefused(x) <=> IsRefused(request[q]))
      /\ x.pc # "idle"
      /\ \A u : IsPaid(x, u) => IsPaid(request[q], u)
    BY <1>1, <1>2, <1>3 DEF IsAnswered, IsRefused, IsPaid, Working
<1>5. BucketsMove(request[q], x)
    <2>1. User(q) \in Users
        BY <1>1, <1>2, UserKnown
    <2>2. \A u \in Users : bucket'[u] <= bucket[u]
        BY <1>1, <2>1, TokenSpent
    <2> QED
        BY <1>1, <1>4, <2>2, NothingPaid
<1> QED
    BY <1>1, <1>2, <1>3, <1>4, <1>5, NothingCounted

\* An answer: counted once, together with an upstream call that was made and
\* whether or not a token was taken.
LEMMA AnswerCounts ==
    ASSUME AdmissionInv, AdmissionInv', CountInv, NEW q \in Requests,
           request[q].pc \in Working,
           NEW status \in Nat, Answered(q, status), NEW C \in SUBSET Counters, Counted(C),
           "http_requests" \in C, "security_events" \notin C,
           "upstream_requests" \in C => request[q].pc = "forwarding" /\ request[q].forwarded,
           UNCHANGED bucket \/ TokenTaken(User(q)), UNCHANGED refilled
    PROVE  CountInv'
<1>1. /\ request[q] \in Request /\ ~IsAnswered(request[q]) /\ ~IsCalled(request[q])
      /\ request[q].pc # "auditing" => request[q].decision = 0
      /\ request[q].pc # "idle"
    BY NotYet
<1>2. /\ TypeOK /\ TypeOK'
      /\ \A c \in Counters : Tally(c) \in Nat
    BY Numbers DEF AdmissionInv
<1>3. PICK x \in Request :
        /\ request' = [request EXCEPT ![q] = x]
        /\ x.pc = "answered"
        /\ x.decision = request[q].decision /\ x.service = request[q].service
        /\ x.forwarded = request[q].forwarded /\ x.user = request[q].user
    BY <1>1, <1>2, AnsweredWith
<1>4. /\ IsAnswered(x) /\ (IsRefused(x) <=> IsRefused(request[q]))
      /\ "upstream_requests" \in C => IsCalled(x)
      /\ x.pc # "idle"
      /\ \A u : IsPaid(x, u) => IsPaid(request[q], u)
    BY <1>1, <1>3 DEF IsAnswered, IsRefused, IsPaid, IsCalled, Working
<1>5. /\ Tally("http_requests")' = Tally("http_requests") + 1
      /\ Tally("security_events")' = Tally("security_events")
      /\ Tally("upstream_requests")'
            = Tally("upstream_requests") + Bit("upstream_requests" \in C)
    <2>1. \A c \in Counters : Tally(c)' = Tally(c) + Bit(c \in C)
        BY <1>2, CountedTallies
    <2> QED
        BY <1>2, <2>1 DEF Counters, Bit
<1>6. CountersMove(request[q], x)
    BY <1>1, <1>2, <1>4, <1>5 DEF CountersMove, Bit, Counters
<1>7. BucketsMove(request[q], x)
    <2>1. User(q) \in Users
        BY <1>1, <1>2, UserKnown
    <2>2. \A u \in Users : bucket'[u] <= bucket[u]
        BY <1>2, <2>1, TokenSpent
    <2> QED
        BY <1>2, <1>4, <2>2, NothingPaid
<1> QED
    BY <1>2, <1>3, <1>4, <1>6, <1>7, CountsMove

LEMMA AnswersCount ==
    ASSUME AdmissionInv, AdmissionInv', CountInv, NEW q \in Requests,
           \/ AuthenticateFails(q) \/ CircuitOpen(q) \/ Unhandled(q)
           \/ AuditStored(q) \/ AuditLost(q)
    PROVE  CountInv'
<1>1. /\ request[q].pc \in Working
      /\ Counted({"http_requests"}) /\ UNCHANGED <<bucket, refilled>>
    BY DEF AuthenticateFails, CircuitOpen, Unhandled, AuditStored, AuditLost, Working
<1>2. request[q].decision \in Nat
    BY <1>1, NotYet DEF Request
<1>3. \E status \in Nat : Answered(q, status)
    BY <1>2 DEF AuthenticateFails, CircuitOpen, Unhandled, AuditStored, AuditLost
<1> DEFINE C == {"http_requests"}
<1>4. /\ C \in SUBSET Counters /\ Counted(C)
      /\ "http_requests" \in C /\ "security_events" \notin C /\ "upstream_requests" \notin C
    BY <1>1 DEF Counters
<1> HIDE DEF C
<1> QED
    BY <1>1, <1>3, <1>4, AnswerCounts

LEMMA UpstreamEndsCounts ==
    ASSUME AdmissionInv, AdmissionInv', CountInv, NEW q \in Requests, UpstreamEnds(q)
    PROVE  CountInv'
<1>1. /\ request[q].pc = "forwarding" /\ request[q].pc \in Working
      /\ Counted({"upstream_requests", "http_requests"})
      /\ UNCHANGED <<bucket, refilled>>
    BY DEF UpstreamEnds, Working
<1>2. request[q].forwarded
    BY <1>1 DEF AdmissionInv, Sound, Working
<1>3. \E status \in Nat : Answered(q, status)
    BY DEF UpstreamEnds
<1> DEFINE C == {"upstream_requests", "http_requests"}
<1>4. /\ C \in SUBSET Counters /\ Counted(C)
      /\ "http_requests" \in C /\ "security_events" \notin C
    BY <1>1 DEF Counters
<1> HIDE DEF C
<1> QED
    BY <1>1, <1>2, <1>3, <1>4, AnswerCounts

\* The token of a request that goes on is gone from its user's bucket.
LEMMA LimitAllowsCounts ==
    ASSUME AdmissionInv, AdmissionInv', CountInv, NEW q \in Requests, LimitAllows(q)
    PROVE  CountInv'
<1>1. /\ request[q].pc = "limiting" /\ request[q].pc \in Working /\ TypeOK /\ TypeOK'
      /\ TokenTaken(User(q)) /\ UNCHANGED refilled
    BY DEF LimitAllows, AdmissionInv, Working
<1>2. /\ request[q] \in Request /\ ~IsAnswered(request[q]) /\ ~IsCalled(request[q])
      /\ request[q].decision = 0 /\ ~request[q].forwarded
    BY <1>1, NotYet
<1>3. CASE Go(q, "authorizing") /\ UNCHANGED <<metrics, lost>>
    <2>1. PICK x \in Request :
            /\ request' = [request EXCEPT ![q] = x]
            /\ x.pc = "authorizing" /\ x.user = request[q].user
            /\ x.decision = request[q].decision
            /\ x.forwarded = request[q].forwarded
        BY <1>1, <1>2, <1>3, GoesTo DEF Working
    <2>2. /\ ~IsAnswered(x) /\ ~IsRefused(x) /\ ~IsRefused(request[q])
          /\ x.pc # "idle"
          /\ \A u : IsPaid(x, u) => u = User(q)
        BY <1>1, <1>2, <2>1 DEF IsAnswered, IsRefused, IsPaid, User
    <2>3. BucketsMove(request[q], x)
        <3>1. User(q) \in Users
            BY <1>1, UserKnown
        <3>2. ASSUME NEW u \in Users
              PROVE  bucket'[u] + Bit(IsPaid(x, u)) <= bucket[u] + Bit(IsPaid(request[q], u))
            <4>1. bucket[u] \in Nat
                BY <1>1, Numbers
            <4>2. CASE u = User(q)
                <5>1. bucket'[u] = bucket[u] - 1
                    BY <1>1, <3>1, <4>2 DEF TokenTaken, TypeOK
                <5> QED
                    BY <4>1, <5>1, BitType
            <4>3. CASE u # User(q)
                <5>1. bucket'[u] = bucket[u] /\ Bit(IsPaid(x, u)) = 0
                    BY <1>1, <2>2, <3>1, <4>3 DEF TokenTaken, TypeOK, Bit
                <5> QED
                    BY <4>1, <5>1, BitType
            <4> QED
                BY <4>2, <4>3
        <3> QED
            BY <1>1, <3>2 DEF BucketsMove
    <2> QED
        BY <1>1, <1>2, <1>3, <2>1, <2>2, <2>3, NothingCounted
<1>4. CASE Answered(q, 404) /\ Counted({"http_requests"})
    <2> DEFINE C == {"http_requests"}
    <2>1. /\ C \in SUBSET Counters /\ Counted(C)
          /\ "http_requests" \in C /\ "security_events" \notin C
          /\ "upstream_requests" \notin C
        BY <1>4 DEF Counters
    <2>2. \E status \in Nat : Answered(q, status)
        BY <1>4
    <2> HIDE DEF C
    <2> QED
        BY <1>1, <2>1, <2>2, AnswerCounts
<1> QED
    BY <1>3, <1>4 DEF LimitAllows

\* A refusal: one security event, unless it cannot be built.
LEMMA RefusalCounts ==
    ASSUME AdmissionInv, AdmissionInv', CountInv, NEW q \in Requests,
           request[q].pc \in {"limiting", "authorizing"},
           NEW x \in Request, request' = [request EXCEPT ![q] = x], x.decision # 0,
           x.service = request[q].service, x.forwarded = request[q].forwarded,
           NEW C \in SUBSET Counters, Counted(C), "upstream_requests" \notin C,
           UNCHANGED bucket \/ TokenTaken(User(q)), UNCHANGED refilled,
           \/ /\ x.pc = "auditing" /\ x.service \in Auditable
              /\ "security_events" \in C /\ "http_requests" \notin C
           \/ /\ x.pc = "answered" /\ x.service \notin Auditable
              /\ "security_events" \notin C /\ "http_requests" \in C
    PROVE  CountInv'
<1>1. /\ TypeOK /\ TypeOK' /\ request[q].pc \in Working
      /\ \A c \in Counters : Tally(c) \in Nat
    BY Numbers DEF AdmissionInv, Working
<1>2. /\ ~IsAnswered(request[q]) /\ ~IsCalled(request[q])
      /\ request[q].decision = 0 /\ ~request[q].forwarded /\ request[q].pc # "idle"
    BY <1>1, NotYet
<1>3. /\ ~IsRefused(request[q]) /\ ~IsCalled(x) /\ x.pc # "idle"
      /\ IsRefused(x) <=> "security_events" \in C
      /\ IsAnswered(x) <=> "http_requests" \in C
      /\ \A u : ~IsPaid(x, u)
    BY <1>2 DEF IsRefused, IsPaid, IsCalled, IsAnswered
<1>4. /\ Tally("http_requests")' = Tally("http_requests") + Bit(IsAnswered(x))
      /\ Tally("security_events")' = Tally("security_events") + Bit(IsRefused(x))
      /\ Tally("upstream_requests")' = Tally("upstream_requests")
    <2>1. \A c \in Counters : Tally(c)' = Tally(c) + Bit(c \in C)
        BY <1>1, CountedTallies
    <2> QED
        BY <1>1, <1>3, <2>1 DEF Counters, Bit
<1>5. CountersMove(request[q], x)
    BY <1>1, <1>2, <1>3, <1>4 DEF CountersMove, Bit, Counters
<1>6. BucketsMove(request[q], x)
    <2>1. User(q) \in Users
        BY <1>1, <1>2, UserKnown
    <2>2. \A u \in Users : bucket'[u] <= bucket[u]
        BY <1>1, <2>1, TokenSpent
    <2> QED
        BY <1>1, <1>3, <2>2, NothingPaid
<1> QED
    BY <1>1, <1>3, <1>5, <1>6, CountsMove

LEMMA LimitRefusesCounts ==
    ASSUME AdmissionInv, AdmissionInv', CountInv, NEW q \in Requests,
           LimitRejects(q) \/ LimitUnavailable(q)
    PROVE  CountInv'
<1>1. /\ request[q].pc = "limiting" /\ TypeOK
      /\ request[q].pc \in {"limiting", "authorizing"}
      /\ UNCHANGED bucket \/ TokenTaken(User(q))
      /\ UNCHANGED refilled
    BY DEF LimitRejects, LimitUnavailable, AdmissionInv
<1>2. request[q] \in Request
    BY <1>1, RequestShape
<1>3. PICK status \in Nat : status # 0 /\ Refuse(q, status)
    BY DEF LimitRejects, LimitUnavailable
<1>4. CASE /\ CanAudit(q)
           /\ request' = [request EXCEPT ![q].pc = "auditing", ![q].decision = status]
           /\ Counted({"security_events"})
    <2> DEFINE C == {"security_events"}
    <2>1. PICK x \in Request :
            /\ request' = [request EXCEPT ![q] = x]
            /\ x.pc = "auditing" /\ x.decision = status
            /\ x.service = request[q].service /\ x.forwarded = request[q].forwarded
        BY <1>1, <1>2, <1>4, DecidesOn
    <2>2. /\ C \in SUBSET Counters /\ Counted(C)
          /\ "security_events" \in C /\ "http_requests" \notin C
          /\ "upstream_requests" \notin C
        BY <1>4 DEF Counters
    <2>3. x.service \in Auditable /\ x.decision # 0
        BY <1>3, <1>4, <2>1 DEF CanAudit
    <2> HIDE DEF C
    <2> QED
        BY <1>1, <2>1, <2>2, <2>3, RefusalCounts
<1>5. CASE /\ ~CanAudit(q)
           /\ request' = [request EXCEPT ![q].pc = "answered", ![q].decision = status,
                                         ![q].answer = 500]
           /\ Counted({"http_requests"})
    <2> DEFINE C == {"http_requests"}
    <2>0. PICK a \in Nat : a = 500
        OBVIOUS
    <2>1. PICK x \in Request :
            /\ request' = [request EXCEPT ![q] = x]
            /\ x.pc = "answered" /\ x.decision = status /\ x.answer = a
            /\ x.service = request[q].service /\ x.forwarded = request[q].forwarded
        <3>1. Unbuilt(q, status, a)
            BY <1>5, <2>0 DEF Unbuilt
        <3> QED
            BY <1>1, <1>2, <3>1, UnbuiltWith
    <2>2. /\ C \in SUBSET Counters /\ Counted(C)
          /\ "security_events" \notin C /\ "http_requests" \in C
          /\ "upstream_requests" \notin C
        BY <1>5 DEF Counters
    <2>3. x.service \notin Auditable /\ x.decision # 0
        BY <1>3, <1>5, <2>1 DEF CanAudit
    <2> HIDE DEF C
    <2> QED
        BY <1>1, <2>1, <2>2, <2>3, RefusalCounts
<1> QED
    BY <1>3, <1>4, <1>5 DEF Refuse

\* The event of a denied permission can always be built: the service is
\* registered by then.
LEMMA AuthorizeFailsCounts ==
    ASSUME AdmissionInv, AdmissionInv', CountInv, NEW q \in Requests, AuthorizeFails(q)
    PROVE  CountInv'
<1>1. /\ request[q].pc = "authorizing" /\ TypeOK /\ Counted({"security_events"})
      /\ request[q].pc \in {"limiting", "authorizing"}
      /\ UNCHANGED <<bucket, refilled>>
    BY DEF AuthorizeFails, AdmissionInv
<1>2. request[q] \in Request
    BY <1>1, RequestShape
<1>3. request[q].service \in Auditable
    <2>1. request[q].service \in ProxyServices
        BY <1>1 DEF AdmissionInv, Sound
    <2>2. request[q].service \in ServiceNames
        BY <1>2 DEF Request
    <2> QED
        BY <2>1, <2>2, AdmissionAssumption
<1>4. PICK status \in Nat :
        /\ status # 0
        /\ request' = [request EXCEPT ![q].pc = "auditing", ![q].decision = status]
    <2>1. PICK s \in {403, 503} :
            request' = [request EXCEPT ![q].pc = "auditing", ![q].decision = s]
        BY DEF AuthorizeFails
    <2>2. s \in Nat /\ s # 0
        BY <2>1
    <2> QED
        BY <2>1, <2>2
<1>5. PICK x \in Request :
        /\ request' = [request EXCEPT ![q] = x]
        /\ x.pc = "auditing" /\ x.decision = status
        /\ x.service = request[q].service /\ x.forwarded = request[q].forwarded
    BY <1>1, <1>2, <1>4, DecidesOn
<1> DEFINE C == {"security_events"}
<1>6. /\ C \in SUBSET Counters /\ Counted(C)
      /\ "security_events" \in C /\ "http_requests" \notin C
      /\ "upstream_requests" \notin C
    BY <1>1 DEF Counters
<1>7. x.service \in Auditable /\ x.decision # 0
    BY <1>3, <1>4, <1>5
<1> HIDE DEF C
<1> QED
    BY <1>1, <1>5, <1>6, <1>7, RefusalCounts

\* A right that lapses changes no count, and a refill is on record.
LEMMA LapseCounts ==
    ASSUME AdmissionInv, CountInv, UNCHANGED <<metrics, lost>>,
           \A u \in Users : bucket'[u] - refilled'[u] = bucket[u] - refilled[u],
           TypeOK',
           \A q \in Requests :
            \/ request'[q] = request[q]
            \/ request[q] \in Request /\ request'[q] = [request[q] EXCEPT !.lapsed = TRUE]
    PROVE  CountInv'
<1>1. ASSUME NEW q \in Requests
      PROVE  /\ request'[q].pc = request[q].pc
             /\ IsRefused(request'[q]) <=> IsRefused(request[q])
             /\ IsCalled(request'[q]) <=> IsCalled(request[q])
             /\ \A u : IsPaid(request'[q], u) <=> IsPaid(request[q], u)
    <2>1. CASE request'[q] = request[q]
        BY <2>1
    <2>2. CASE request[q] \in Request /\ request'[q] = [request[q] EXCEPT !.lapsed = TRUE]
        <3>1. /\ request'[q].pc = request[q].pc
              /\ request'[q].user = request[q].user
              /\ request'[q].decision = request[q].decision
              /\ request'[q].service = request[q].service
              /\ request'[q].forwarded = request[q].forwarded
            BY <2>2 DEF Request
        <3> QED
            BY <3>1 DEF IsRefused, IsCalled, IsPaid
    <2> QED
        BY <1>1, <2>1, <2>2
<1>2. /\ Started' = Started /\ AnsweredNow' = AnsweredNow /\ RefusedNow' = RefusedNow
      /\ CalledNow' = CalledNow
      /\ \A u : PaidNow(u)' = PaidNow(u)
    BY <1>1 DEF Started, AnsweredNow, RefusedNow, CalledNow, PaidNow, IsAnswered
<1>3. \A c : Tally(c)' = Tally(c)
    BY DEF Tally
<1>4. ASSUME NEW u \in Users
      PROVE  Cardinality(PaidNow(u)') + bucket'[u] <= BucketSize + refilled'[u]
    <2>1. Cardinality(PaidNow(u)) \in Nat
        BY CountedFinite, FS_CardinalityType DEF CountInv
    <2>2. /\ bucket[u] \in Nat /\ refilled[u] \in Nat
          /\ bucket'[u] \in Nat /\ refilled'[u] \in Nat /\ BucketSize \in Nat
        BY AdmissionAssumption DEF AdmissionInv, TypeOK
    <2>3. /\ Cardinality(PaidNow(u)) + bucket[u] <= BucketSize + refilled[u]
          /\ PaidNow(u)' = PaidNow(u)
        BY <1>2 DEF CountInv
    <2> QED
        BY <2>1, <2>2, <2>3
<1> QED
    BY <1>2, <1>3, <1>4 DEF CountInv

LEMMA MeanwhileCounts ==
    ASSUME AdmissionInv, AdmissionInv', CountInv, NEW u \in Users,
           \/ Register(u) \/ Deactivate(u) \/ Refill(u)
           \/ \E r \in Roles : ChangeRole(u, r)
    PROVE  CountInv'
<1>0. TypeOK /\ TypeOK'
    BY DEF AdmissionInv
<1>1. UNCHANGED <<metrics, lost>>
    BY DEF Register, Deactivate, Refill, ChangeRole
<1>2. \A v \in Users : bucket'[v] - refilled'[v] = bucket[v] - refilled[v]
    <2>1. CASE UNCHANGED <<bucket, refilled>>
        BY <2>1
    <2>2. CASE Refill(u)
        BY <1>0, <2>2, AdmissionAssumption DEF TypeOK, Refill
    <2> QED
        BY <2>1, <2>2 DEF Register, Deactivate, ChangeRole
<1>3. \A q \in Requests :
        \/ request'[q] = request[q]
        \/ request[q] \in Request /\ request'[q] = [request[q] EXCEPT !.lapsed = TRUE]
    <2> SUFFICES ASSUME NEW q \in Requests
                 PROVE  \/ request'[q] = request[q]
                        \/ /\ request[q] \in Request
                           /\ request'[q] = [request[q] EXCEPT !.lapsed = TRUE]
        OBVIOUS
    <2>1. request[q].pc \in Working => request[q] \in Request
        BY RequestShape DEF AdmissionInv, Working
    <2>2. CASE Register(u) \/ Refill(u)
        BY <2>2 DEF Register, Refill
    <2>3. CASE Deactivate(u)
        BY <2>1, <2>3 DEF Deactivate, PastAuthentication
    <2>4. CASE \E r \in Roles : ChangeRole(u, r)
        BY <2>1, <2>4 DEF ChangeRole, PastAuthorization, Working
    <2> QED
        BY <2>2, <2>3, <2>4
<1> QED
    BY <1>0, <1>1, <1>2, <1>3, LapseCounts

\* Every step moves counters and buckets as it moves the requests.
LEMMA StepCounts ==
    ASSUME AdmissionInv, AdmissionInv', CountInv, [Next]_vars
    PROVE  CountInv'
<1>1. ASSUME NEW q \in Requests, NEW u \in Users, NEW m \in Methods,
             NEW s \in ServiceNames,
             Begin(q, u, m, s) \/ BeginUnauthenticated(q, u, m, s)
      PROVE  CountInv'
    BY <1>1, BeginCounts
<1>2. ASSUME NEW q \in Requests, Step(q)
      PROVE  CountInv'
    BY <1>2, AuthenticateCounts, AnswersCount, LimitAllowsCounts, LimitRefusesCounts,
       AuthorizeAllowsCounts, AuthorizeFailsCounts, ForwardCounts, UpstreamEndsCounts
    DEF Step
<1>3. ASSUME NEW q \in Requests, Cancel(q) PROVE CountInv'
    BY <1>3, CancelCounts
<1>4. ASSUME NEW u \in Users,
             \/ Register(u) \/ Deactivate(u) \/ Refill(u)
             \/ \E r \in Roles : ChangeRole(u, r)
      PROVE  CountInv'
    BY <1>4, MeanwhileCounts
<1>5. CASE UNCHANGED vars
    BY <1>5 DEF vars, CountInv, Started, AnsweredNow, RefusedNow, CalledNow, PaidNow, Tally
<1> QED
    BY <1>1, <1>2, <1>3, <1>4, <1>5 DEF Next

\* The accounts of the pipeline, for any set of requests, infinite ones too,
\* and whichever counts the recorders lose: each recorder is called as often
\* as the requests say, and every request beyond the limiter is paid for out
\* of its user's bucket.
THEOREM CountersAgree == Spec => []CountInv
<1>1. Init => CountInv
    <2> SUFFICES ASSUME Init PROVE CountInv
        OBVIOUS
    <2>1. \A q \in Requests : request[q].pc = "idle"
        BY DEF Init, Idle
    <2>2. /\ Started = {} /\ AnsweredNow = {} /\ RefusedNow = {} /\ CalledNow = {}
          /\ \A u : PaidNow(u) = {}
        BY <2>1 DEF Started, AnsweredNow, RefusedNow, CalledNow, PaidNow,
                    IsAnswered, IsRefused, IsCalled, IsPaid
    <2>3. \A c \in Counters : Tally(c) = 0
        BY DEF Init, Tally
    <2>4. \A u \in Users : bucket[u] = BucketSize /\ refilled[u] = 0
        BY DEF Init
    <2> QED
        BY <2>2, <2>3, <2>4, FS_EmptySet, AdmissionAssumption DEF CountInv, Counters
<1>2. AdmissionInv /\ AdmissionInv' /\ CountInv /\ [Next]_vars => CountInv'
    BY StepCounts
<1> QED
    BY <1>1, <1>2, AdmissionInvariant, PTL DEF Spec

\* Nothing goes beyond the limiter without a token, however Redis fails and
\* whatever the number of users and requests: the requests of a user beyond
\* it and the tokens left never exceed what the bucket ever held.
THEOREM ForwardsPaid == Spec => []ForwardsArePaid
<1>1. CountInv => ForwardsArePaid
    BY DEF CountInv, ForwardsArePaid, PaidNow, IsPaid, User
<1> QED
    BY <1>1, CountersAgree, PTL

\* Answers and security events are each recorded or lost exactly once, and no
\* upstream call is recorded that was not made, in every interleaving with
\* cancellations and failures of the stores and of the recorders.
THEOREM SignalsAdd == Spec => []SignalsAddUp
<1>1. TypeOK /\ CountInv => SignalsAddUp
    <2> SUFFICES ASSUME TypeOK, CountInv PROVE SignalsAddUp
        OBVIOUS
    <2> DEFINE F == {q \in Requests : request[q].pc # "idle" /\ request[q].forwarded}
    <2>1. F \in SUBSET Started /\ CalledNow \in SUBSET F
        BY DEF Started, CalledNow, IsCalled
    <2> HIDE DEF F
    <2>2. IsFiniteSet(F) /\ IsFiniteSet(CalledNow)
        BY <2>1, FS_Subset DEF CountInv
    <2>3. /\ Cardinality(CalledNow) \in Nat /\ Cardinality(F) \in Nat
          /\ Cardinality(CalledNow) <= Cardinality(F)
        BY <2>1, <2>2, FS_Subset, FS_CardinalityType
    <2>4. Tally("upstream_requests") \in Nat
        BY Numbers DEF Counters
    <2>5. Tally("upstream_requests") <= Cardinality(F)
        BY <2>3, <2>4 DEF CountInv
    <2> QED
        BY <2>5 DEF F, CountInv, SignalsAddUp, AnsweredNow, RefusedNow, IsAnswered,
            IsRefused, Tally
<1> QED
    BY <1>1, CountersAgree, TypeCorrect, PTL

=============================================================================
