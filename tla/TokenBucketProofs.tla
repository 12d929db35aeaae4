------------------------- MODULE TokenBucketProofs -------------------------
(***************************************************************************)
(* Proofs about TokenBucket for every capacity, cost, delay and number of  *)
(* concurrent requests.                                                    *)
(***************************************************************************)
EXTENDS TokenBucket, TLAPS

\* Rounding up to whole seconds never shortens a delay, nor lengthens it by a
\* second (math.ceil in models.py and service.py).
LEMMA CeilingSuffices ==
    ASSUME NEW n \in Nat, NEW d \in Nat \ {0}
    PROVE  /\ CeilingDiv(n, d) \in Nat
           /\ n <= d * CeilingDiv(n, d)
           /\ d * CeilingDiv(n, d) < n + d
<1> DEFINE m == n + d - 1
           q == m \div d
<1>1. m \in Nat /\ q \in Int
    OBVIOUS
<1>2. m = d * q + (m % d) /\ m % d \in 0..(d - 1)
    BY <1>1
<1>3. q \in Nat
    BY <1>1
<1>4. n <= d * q /\ d * q < n + d
    BY <1>1, <1>2, <1>3
<1> QED
    BY <1>3, <1>4 DEF CeilingDiv

\* The hash outlives the time in which it fills up, twice over.
LEMMA TtlCoversTwoRefills == state_ttl \in Nat /\ 2 * Capacity <= state_ttl
<1>1. 2 * Capacity \in Nat
    BY BucketAssumption
<1>2. CeilingDiv(2 * Capacity, TicksPerSecond) \in Nat
    BY <1>1, CeilingSuffices, BucketAssumption
<1>3. 2 * Capacity <= TicksPerSecond * CeilingDiv(2 * Capacity, TicksPerSecond)
    BY <1>1, CeilingSuffices, BucketAssumption
<1> QED
    BY <1>2, <1>3, BucketAssumption DEF state_ttl

\* What the refill of a script run yields, and what it may add.
LEMMA RefilledBounds ==
    ASSUME TypeOK, NEW t \in Nat
    PROVE  /\ Refilled(t) \in 0..Capacity
           /\ Exists => Refilled(t) <= bucket.tokens + AtLeast(0, t - bucket.last)
           /\ ~Exists => Refilled(t) = Capacity
<1>1. /\ bucket.tokens \in 0..Capacity
      /\ bucket.last \in Nat
      /\ Capacity \in Nat
    BY BucketAssumption DEF TypeOK, Bucket
<1> QED
    BY <1>1 DEF Refilled, AtMost, AtLeast

\* One run of the script preserves the types of the shared state.
LEMMA ScriptTypes ==
    ASSUME TypeOK, NEW t \in Nat, Script(t)
    PROVE  bucket' \in Bucket /\ granted' \in Nat /\ rewound' \in Nat
<1>1. Refilled(t) \in 0..Capacity
    BY RefilledBounds
<1>2. (IF Allowed(t) THEN Refilled(t) - Cost ELSE Refilled(t)) \in 0..Capacity
    BY <1>1, BucketAssumption DEF Allowed
<1>3. now + state_ttl \in Nat
    BY TtlCoversTwoRefills DEF TypeOK
<1>4. bucket' \in Bucket
    BY <1>2, <1>3 DEF Script, Bucket
<1>5. granted' \in Nat
    BY BucketAssumption DEF Script, TypeOK
<1>6. rewound' \in Nat
    BY DEF Script, TypeOK, AtLeast, Bucket
<1> QED
    BY <1>4, <1>5, <1>6

\* The commands under way carry a reading of the clock.
LEMMA CommandShape ==
    ASSUME TypeOK, NEW r \in Requests, Pending(r)
    PROVE  req[r] \in Command /\ req[r].at \in Nat
<1>1. req[r] \in {Idle} \cup Command \cup Refusal
    BY DEF TypeOK
<1>2. req[r] # Idle
    BY DEF Pending, InFlight, Idle
<1>3. req[r] \notin Refusal
    BY DEF Pending, InFlight, Refusal
<1>4. req[r] \in Command
    BY <1>1, <1>2, <1>3
<1> QED
    BY <1>4 DEF Command

-----------------------------------------------------------------------------
(* Type correctness.                                                       *)

LEMMA TypeInit == Init => TypeOK
BY BucketAssumption DEF Init, TypeOK, Bucket, NoBucket

LEMMA TypeStep == TypeOK /\ [Next]_vars => TypeOK'
<1> SUFFICES ASSUME TypeOK, [Next]_vars PROVE TypeOK'
    OBVIOUS
<1> DEFINE Slot == {Idle} \cup Command \cup Refusal
<1>1. ASSUME NEW r \in Requests, Send(r) PROVE TypeOK'
    <2>1. [pc |-> "sent", at |-> now] \in Slot
        BY DEF TypeOK, Command, InFlight
    <2>2. req' \in [Requests -> Slot]
        BY <1>1, <2>1 DEF Send, TypeOK
    <2> QED
        BY <1>1, <2>2 DEF Send, TypeOK
<1>2. ASSUME NEW r \in Requests, Answer(r) PROVE TypeOK'
    <2>1. Pending(r)
        BY <1>2 DEF Answer, Pending, InFlight
    <2>2. req[r].at \in Nat
        BY <2>1, CommandShape
    <2>3. bucket' \in Bucket /\ granted' \in Nat /\ rewound' \in Nat
        BY <1>2, <2>2, ScriptTypes DEF Answer
    <2>4. RetryAfter(req[r].at) \in Nat \/ Allowed(req[r].at)
        <3>1. Refilled(req[r].at) \in 0..Capacity
            BY <2>2, RefilledBounds
        <3>2. CASE ~Allowed(req[r].at)
            <4>1. Cost - Refilled(req[r].at) \in Nat
                BY <3>1, <3>2, BucketAssumption DEF Allowed
            <4>2. CeilingDiv(Cost - Refilled(req[r].at), TicksPerSecond) \in Nat
                BY <4>1, CeilingSuffices, BucketAssumption
            <4> QED
                BY <4>2 DEF RetryAfter, AtLeast
        <3> QED
            BY <3>2
    <2>5. ~Allowed(req[r].at) =>
            [pc |-> "refused", seen |-> granted,
             retry_at |-> now + TicksPerSecond * RetryAfter(req[r].at)] \in Slot
        BY <2>4, BucketAssumption DEF TypeOK, Refusal
    <2>6. req' \in [Requests -> Slot]
        BY <1>2, <2>5 DEF Answer, TypeOK
    <2> QED
        BY <1>2, <2>3, <2>6 DEF Answer, TypeOK
<1>3. ASSUME NEW r \in Requests, Unheard(r) PROVE TypeOK'
    <2>1. req[r].at \in Nat
        BY <1>3, CommandShape DEF Unheard
    <2>2. bucket' \in Bucket /\ granted' \in Nat /\ rewound' \in Nat
        BY <1>3, <2>1, ScriptTypes DEF Unheard
    <2> QED
        BY <1>3, <2>2 DEF Unheard, TypeOK
<1>4. ASSUME NEW r \in Requests, Lose(r) \/ Return(r) PROVE TypeOK'
    BY <1>4 DEF Lose, Return, TypeOK
<1>5. ASSUME NEW r \in Requests, TimeOut(r) PROVE TypeOK'
    <2>1. Pending(r)
        BY <1>5 DEF TimeOut, Pending, InFlight
    <2>2. req[r] \in Command
        BY <2>1, CommandShape
    <2>3. [req[r] EXCEPT !.pc = "abandoned"] \in Command
        BY <2>2 DEF Command, InFlight
    <2> QED
        BY <1>5, <2>3 DEF TimeOut, TypeOK
<1>6. CASE Restart
    BY <1>6, BucketAssumption DEF Restart, TypeOK, Bucket, NoBucket
<1>7. CASE Tick
    BY <1>7 DEF Tick, TypeOK
<1>8. CASE UNCHANGED vars
    BY <1>8 DEF vars, TypeOK
<1> QED
    BY <1>1, <1>2, <1>3, <1>4, <1>5, <1>6, <1>7, <1>8 DEF Next

\* The state of the limiter always has the shape the code gives it: the
\* script keeps the tokens between 0 and the capacity whatever readings of
\* the clock it is run with.
THEOREM TypeCorrect == Spec => []TypeOK
BY TypeInit, TypeStep, PTL DEF Spec

-----------------------------------------------------------------------------
(* The budget.                                                             *)

\* A script run, late or not, leaves an existing hash whose account balances.
LEMMA ScriptAccounts ==
    ASSUME BudgetInv, NEW r \in Requests, Pending(r), Script(req[r].at),
           now' = now, allowance' = allowance
    PROVE  /\ Exists'
           /\ bucket'.last <= now'
           /\ granted' + bucket'.tokens <= allowance' + bucket'.last + rewound'
           /\ bucket'.last + state_ttl <= bucket'.expires
           /\ bucket'.expires <= now' + state_ttl
<1> DEFINE t == req[r].at
<1>1. t \in Nat
    BY CommandShape DEF BudgetInv
<1>2. t <= now /\ now <= t + MaxDelay
    BY DEF BudgetInv, Readings
<1>3. /\ Refilled(t) \in 0..Capacity
      /\ Exists => Refilled(t) <= bucket.tokens + AtLeast(0, t - bucket.last)
      /\ ~Exists => Refilled(t) = Capacity
    BY <1>1, RefilledBounds DEF BudgetInv
<1>4. /\ now \in Nat /\ granted \in Nat /\ allowance \in Nat /\ rewound \in Nat
      /\ bucket.tokens \in Nat /\ bucket.last \in Nat
      /\ Capacity \in Nat \ {0} /\ Cost \in Nat /\ MaxDelay \in Nat
    BY BucketAssumption DEF BudgetInv, TypeOK, Bucket
<1>5. state_ttl \in Nat /\ state_ttl > 0
    BY <1>4, TtlCoversTwoRefills
<1>6. /\ bucket'.last = t
      /\ bucket'.expires = now + state_ttl
      /\ granted' + bucket'.tokens = granted + Refilled(t)
    BY <1>3, <1>4 DEF Script
<1>7. granted + Refilled(t) <= allowance + t + rewound'
    <2>1. CASE Exists
        <3>1. granted + bucket.tokens <= allowance + bucket.last + rewound
            BY <2>1 DEF BudgetInv, Accounts
        <3>2. rewound' = rewound + AtLeast(0, bucket.last - t)
            BY <2>1 DEF Script
        <3> QED
            BY <1>1, <1>3, <1>4, <2>1, <3>1, <3>2 DEF AtLeast
    <2>2. CASE ~Exists
        <3>1. granted + Capacity <= allowance + t + rewound
            BY <2>2 DEF BudgetInv, Accounts
        <3>2. rewound' = rewound
            BY <2>2 DEF Script
        <3> QED
            BY <1>3, <2>2, <3>1, <3>2
    <2> QED
        BY <2>1, <2>2
<1> QED
    BY <1>1, <1>2, <1>4, <1>5, <1>6, <1>7 DEF Exists

LEMMA BudgetInit == Init => Readings /\ Accounts
BY BucketAssumption DEF Init, Readings, Accounts, NoBucket, Exists, Pending,
    InFlight, Idle

LEMMA BudgetStep == BudgetInv /\ [Next]_vars => Readings' /\ Accounts'
<1> SUFFICES ASSUME BudgetInv, [Next]_vars PROVE Readings' /\ Accounts'
    OBVIOUS
<1> USE DEF Pending
<1>t. /\ TypeOK /\ Readings /\ Accounts
      /\ now \in Nat /\ granted \in Nat /\ allowance \in Nat /\ rewound \in Nat
      /\ bucket.tokens \in Nat /\ bucket.last \in Nat /\ bucket.expires \in Nat
      /\ Capacity \in Nat \ {0} /\ MaxDelay \in Nat /\ MaxDelay <= Capacity
      /\ state_ttl \in Nat /\ 2 * Capacity <= state_ttl
    BY BucketAssumption, TtlCoversTwoRefills DEF BudgetInv, TypeOK, Bucket
<1>r. \A r \in Requests : Pending(r) => req[r].at \in Nat
    BY <1>t, CommandShape
<1>1. ASSUME NEW r \in Requests, Send(r) PROVE Readings' /\ Accounts'
    <2>1. \A s \in Requests : req'[s].pc \in InFlight =>
            (s = r /\ req'[s].at = now) \/ (req[s].pc \in InFlight /\ req'[s] = req[s])
        BY <1>1 DEF Send, TypeOK, BudgetInv
    <2>2. UNCHANGED <<now, bucket, granted, allowance, rewound>> /\ Exists' = Exists
        BY <1>1 DEF Send, Exists
    <2>3. Readings'
        BY <1>t, <1>r, <2>1, <2>2 DEF Readings
    <2>4. Accounts'
        BY <1>t, <2>1, <2>2 DEF Accounts
    <2> QED
        BY <2>3, <2>4
<1>2. ASSUME NEW r \in Requests, Answer(r) \/ Unheard(r)
      PROVE  Readings' /\ Accounts'
    <2>1. /\ Pending(r)
          /\ Script(req[r].at)
          /\ now' = now
          /\ allowance' = allowance
        BY <1>2 DEF Answer, Unheard, InFlight
    <2>2. \A s \in Requests : req'[s].pc \in InFlight =>
            req[s].pc \in InFlight /\ req'[s] = req[s]
        BY <1>2 DEF Answer, Unheard, TypeOK, BudgetInv, Idle, InFlight
    <2>3. /\ Exists'
          /\ bucket'.last <= now'
          /\ granted' + bucket'.tokens <= allowance' + bucket'.last + rewound'
          /\ bucket'.last + state_ttl <= bucket'.expires
          /\ bucket'.expires <= now' + state_ttl
        BY <2>1, ScriptAccounts
    <2>4. Readings'
        BY <1>t, <2>1, <2>2, <2>3 DEF Readings
    <2>5. Accounts'
        BY <2>3 DEF Accounts
    <2> QED
        BY <2>4, <2>5
<1>3. ASSUME NEW r \in Requests, Lose(r) \/ Return(r) \/ TimeOut(r)
      PROVE  Readings' /\ Accounts'
    <2>1. \A s \in Requests : req'[s].pc \in InFlight =>
            req[s].pc \in InFlight /\ req'[s].at = req[s].at
        <3>1. CASE Lose(r) \/ Return(r)
            BY <3>1 DEF Lose, Return, TypeOK, BudgetInv, Idle, InFlight
        <3>2. CASE TimeOut(r)
            <4>1. req' = [req EXCEPT ![r] = [req[r] EXCEPT !.pc = "abandoned"]]
                BY <3>2 DEF TimeOut
            <4>2. Pending(r)
                BY <3>2 DEF TimeOut, InFlight
            <4>3. req[r] \in [pc : InFlight, at : Nat]
                BY <1>t, <4>2, CommandShape DEF Command
            <4>4. [req[r] EXCEPT !.pc = "abandoned"].at = req[r].at
                BY <4>3
            <4> QED
                BY <1>t, <4>1, <4>2, <4>4 DEF TypeOK
        <3> QED
            BY <1>3, <3>1, <3>2
    <2>2. UNCHANGED <<now, bucket, granted, allowance, rewound>> /\ Exists' = Exists
        BY <1>3 DEF Lose, Return, TimeOut, Exists
    <2>3. Readings'
        BY <1>t, <2>1, <2>2 DEF Readings
    <2>4. Accounts'
        BY <1>t, <2>1, <2>2 DEF Accounts
    <2> QED
        BY <2>3, <2>4
<1>4. CASE Restart
    <2>1. \A s \in Requests : ~(req'[s].pc \in InFlight)
        BY <1>4 DEF Restart, Idle, InFlight
    <2>2. /\ bucket' = NoBucket /\ now' = now /\ granted' = granted
          /\ allowance' = allowance + Capacity /\ rewound' = rewound
        BY <1>4 DEF Restart
    <2>3. ~Exists' /\ bucket'.last = 0
        BY <1>t, <2>2 DEF Exists, NoBucket
    <2>4. granted <= allowance + now + rewound
        BY <1>t DEF Accounts, Readings
    <2> QED
        BY <1>t, <2>1, <2>2, <2>3, <2>4 DEF Readings, Accounts
<1>5. CASE Tick
    <2>1. /\ now' = now + 1
          /\ UNCHANGED <<bucket, req, granted, allowance, rewound>>
          /\ \A r \in Requests :
                req[r].pc \in InFlight => now < req[r].at + MaxDelay
        BY <1>5 DEF Tick
    <2>2. Readings'
        BY <1>t, <1>r, <2>1 DEF Readings
    <2>3. CASE Exists'
        <3>1. Exists
            BY <1>t, <2>1, <2>3 DEF Exists
        <3> QED
            BY <1>t, <2>1, <2>2, <2>3, <3>1 DEF Accounts
    <2>4. CASE ~Exists' /\ ~Exists
        BY <1>t, <2>1, <2>2, <2>4 DEF Accounts
    <2>5. CASE ~Exists' /\ Exists
        <3>1. bucket.expires <= now + 1
            BY <1>t, <2>1, <2>5 DEF Exists
        <3>2. granted <= allowance + bucket.last + rewound
            BY <1>t, <2>5 DEF Accounts
        <3>3. bucket.last + 2 * Capacity <= now + 1
            BY <1>t, <2>5, <3>1 DEF Accounts
        <3>4. granted + Capacity <= allowance + (now + 1) + rewound
            BY <1>t, <3>2, <3>3
        <3>5. \A r \in Requests : req[r].pc \in InFlight =>
                granted + Capacity <= allowance + req[r].at + rewound
            BY <1>t, <1>r, <2>1, <3>2, <3>3 DEF Readings
        <3> QED
            BY <2>1, <2>2, <2>5, <3>4, <3>5 DEF Accounts
    <2> QED
        BY <2>2, <2>3, <2>4, <2>5
<1>6. CASE UNCHANGED vars
    BY <1>t, <1>6 DEF vars, Readings, Accounts, Exists
<1> QED
    BY <1>1, <1>2, <1>3, <1>4, <1>5, <1>6 DEF Next

\* The inductive invariant behind Budget: readings are recent, and the account
\* of tokens is balanced whether or not the hash exists.
THEOREM BudgetInvariant == Spec => []BudgetInv
<1>1. Init => BudgetInv
    BY TypeInit, BudgetInit DEF BudgetInv
<1>2. BudgetInv /\ [Next]_vars => BudgetInv'
    BY TypeStep, BudgetStep DEF BudgetInv
<1> QED
    BY <1>1, <1>2, PTL DEF Spec

\* For every capacity, cost and number of concurrent requests, and for any
\* pattern of delays up to one refill time, losses, timeouts and restarts,
\* the tokens handed out stay within the bursts, the refill of the elapsed
\* time and the time refilled twice by readings executed out of order.
THEOREM BudgetHolds == Spec => []Budget
<1>1. BudgetInv => Budget
    BY BucketAssumption DEF BudgetInv, TypeOK, Bucket, Readings, Accounts, Budget
<1> QED
    BY <1>1, BudgetInvariant, PTL

-----------------------------------------------------------------------------
(* Retry-After.                                                            *)

\* A refusal remembers what had been handed out, which only grows.
SeenIsPast ==
    \A r \in Requests : req[r].pc = "refused" => req[r].seen <= granted

LEMMA RefusalShape ==
    ASSUME TypeOK, NEW r \in Requests, req[r].pc = "refused"
    PROVE  req[r].seen \in Nat /\ req[r].retry_at \in Nat
<1>1. req[r] \in {Idle} \cup Command \cup Refusal
    BY DEF TypeOK
<1>2. req[r] # Idle
    BY DEF Idle
<1>3. req[r] \notin Command
    BY DEF Command, InFlight
<1> QED
    BY <1>1, <1>2, <1>3 DEF Refusal

\* A script run that refuses keeps every promise made before it.
LEMMA ScriptKeepsPromises ==
    ASSUME BudgetInv, RetryAfterSuffices, SeenIsPast,
           NEW t \in Nat, Script(t), NEW s \in Requests,
           req[s].pc = "refused", req[s].seen = granted'
    PROVE  /\ ~Allowed(t) /\ Exists
           /\ bucket'.tokens + (req[s].retry_at - bucket'.last) >= Cost
<1>1. /\ granted \in Nat /\ bucket.tokens \in Nat /\ bucket.last \in Nat
      /\ Cost \in Nat \ {0} /\ Capacity \in Nat /\ Cost <= Capacity
    BY BucketAssumption DEF BudgetInv, TypeOK, Bucket
<1>2. req[s].seen \in Nat /\ req[s].retry_at \in Nat /\ req[s].seen <= granted
    BY RefusalShape DEF BudgetInv, SeenIsPast
<1>3. ~Allowed(t)
    BY <1>1, <1>2 DEF Script
<1>4. Exists
    BY <1>1, <1>3 DEF Allowed, Refilled
<1>5. granted' = granted /\ bucket'.tokens = Refilled(t) /\ bucket'.last = t
    BY <1>3 DEF Script
<1>6. bucket.tokens + (req[s].retry_at - bucket.last) >= Cost
    BY <1>4, <1>5 DEF RetryAfterSuffices
<1>7. Refilled(t) = bucket.tokens + AtLeast(0, t - bucket.last)
    BY <1>1, <1>3, <1>4 DEF Refilled, Allowed, AtMost
<1> QED
    BY <1>1, <1>2, <1>3, <1>4, <1>5, <1>6, <1>7 DEF AtLeast

LEMMA PromiseStep ==
    BudgetInv /\ RetryAfterSuffices /\ SeenIsPast /\ [Next]_vars
        => RetryAfterSuffices' /\ SeenIsPast'
<1> SUFFICES ASSUME BudgetInv, RetryAfterSuffices, SeenIsPast, [Next]_vars
             PROVE  RetryAfterSuffices' /\ SeenIsPast'
    OBVIOUS
<1>t. /\ TypeOK /\ now \in Nat /\ granted \in Nat
      /\ Cost \in Nat \ {0} /\ TicksPerSecond \in Nat \ {0} /\ Capacity \in Nat
    BY BucketAssumption DEF BudgetInv, TypeOK
<1>r. \A s \in Requests : req[s].pc = "refused" => req[s].seen \in Nat
    BY <1>t, RefusalShape
<1>1. ASSUME NEW r \in Requests, Send(r) \/ Lose(r) \/ Return(r) \/ TimeOut(r)
      PROVE  RetryAfterSuffices' /\ SeenIsPast'
    <2>1. \A s \in Requests : req'[s].pc = "refused" =>
            req[s].pc = "refused" /\ req'[s] = req[s]
        <3>1. CASE Send(r) \/ Lose(r) \/ Return(r)
            BY <1>t, <3>1 DEF Send, Lose, Return, TypeOK, Idle
        <3>2. CASE TimeOut(r)
            <4>1. req' = [req EXCEPT ![r] = [req[r] EXCEPT !.pc = "abandoned"]]
                BY <3>2 DEF TimeOut
            <4>2. req[r] \in [pc : InFlight, at : Nat]
                BY <1>t, <3>2, CommandShape DEF TimeOut, Pending, InFlight, Command
            <4>3. [req[r] EXCEPT !.pc = "abandoned"].pc = "abandoned"
                BY <4>2
            <4> QED
                BY <1>t, <4>1, <4>3 DEF TypeOK
        <3> QED
            BY <1>1, <3>1, <3>2
    <2>2. UNCHANGED <<now, bucket, granted>> /\ Exists' = Exists
        BY <1>1 DEF Send, Lose, Return, TimeOut, Exists
    <2> QED
        BY <2>1, <2>2 DEF RetryAfterSuffices, SeenIsPast
<1>2. ASSUME NEW r \in Requests, Answer(r) \/ Unheard(r)
      PROVE  RetryAfterSuffices' /\ SeenIsPast'
    <2> DEFINE t == req[r].at
    <2>1. Pending(r) /\ Script(t) /\ now' = now
        BY <1>2 DEF Answer, Unheard, Pending, InFlight
    <2>2. t \in Nat /\ t <= now
        BY <1>t, <2>1, CommandShape DEF BudgetInv, Readings
    <2>3. granted' \in Nat /\ granted <= granted'
        BY <1>t, <2>1 DEF Script
    <2>4. Refilled(t) \in 0..Capacity
        BY <1>t, <2>2, RefilledBounds
    <2>5. ASSUME NEW s \in Requests, req'[s].pc = "refused",
                 ~(req[s].pc = "refused" /\ req'[s] = req[s])
          PROVE  /\ ~Allowed(t)
                 /\ req'[s].seen = granted
                 /\ req'[s].retry_at = now + TicksPerSecond * RetryAfter(t)
        BY <1>t, <1>2, <2>5 DEF Answer, Unheard, TypeOK, Idle
    <2>6. SeenIsPast'
        BY <1>t, <1>r, <2>3, <2>5 DEF SeenIsPast
    <2>7. ASSUME NEW s \in Requests, req'[s].pc = "refused", req'[s].seen = granted'
          PROVE  bucket'.tokens + (req'[s].retry_at - bucket'.last) >= Cost
        <3>1. CASE req[s].pc = "refused" /\ req'[s] = req[s]
            BY <2>1, <2>2, <2>7, <3>1, ScriptKeepsPromises
        <3>2. CASE ~(req[s].pc = "refused" /\ req'[s] = req[s])
            <4>1. /\ ~Allowed(t)
                  /\ req'[s].retry_at = now + TicksPerSecond * RetryAfter(t)
                BY <2>5, <2>7, <3>2
            <4>2. bucket'.tokens = Refilled(t) /\ bucket'.last = t
                BY <2>1, <4>1 DEF Script
            <4> DEFINE n == Cost - Refilled(t)
                       q == CeilingDiv(n, TicksPerSecond)
            <4>3. n \in Nat
                BY <1>t, <2>4, <4>1 DEF Allowed
            <4>4. q \in Nat /\ n <= TicksPerSecond * q
                BY <1>t, <4>3, CeilingSuffices
            <4>5. RetryAfter(t) = AtLeast(1, q)
                BY DEF RetryAfter
            <4> HIDE DEF q
            <4>6. RetryAfter(t) \in Nat /\ n <= TicksPerSecond * RetryAfter(t)
                <5>1. CASE q >= 1
                    BY <4>4, <4>5, <5>1 DEF AtLeast
                <5>2. CASE q = 0
                    BY <1>t, <4>3, <4>4, <4>5, <5>2 DEF AtLeast
                <5> QED
                    BY <4>4, <5>1, <5>2
            <4> DEFINE delay == TicksPerSecond * RetryAfter(t)
            <4>7. delay \in Nat /\ n <= delay
                BY <1>t, <4>6
            <4> HIDE DEF delay
            <4> QED
                BY <1>t, <2>2, <2>4, <4>1, <4>2, <4>7 DEF delay
        <3> QED
            BY <3>1, <3>2
    <2> QED
        BY <2>6, <2>7 DEF RetryAfterSuffices
<1>3. CASE Restart
    <2>1. \A s \in Requests : req'[s].pc = "refused" =>
            req[s].pc = "refused" /\ req'[s] = req[s]
        BY <1>3 DEF Restart, Idle
    <2>2. ~Exists' /\ granted' = granted
        BY <1>t, <1>3 DEF Restart, Exists, NoBucket
    <2> QED
        BY <2>1, <2>2 DEF RetryAfterSuffices, SeenIsPast
<1>4. CASE Tick
    <2>1. Exists' => Exists
        BY <1>t, <1>4 DEF Tick, Exists, TypeOK, Bucket
    <2> QED
        BY <1>4, <2>1 DEF Tick, RetryAfterSuffices, SeenIsPast
<1>5. CASE UNCHANGED vars
    BY <1>5 DEF vars, RetryAfterSuffices, SeenIsPast, Exists
<1> QED
    BY <1>1, <1>2, <1>3, <1>4, <1>5 DEF Next

\* For every policy, a client that obeys the Retry-After of its 429 finds its
\* tokens refilled unless somebody else was served in between, whatever
\* commands were executed late, out of order or unheard meanwhile.
THEOREM RetryAfterHolds == Spec => []RetryAfterSuffices
<1>1. Init => BudgetInv /\ RetryAfterSuffices /\ SeenIsPast
    BY TypeInit, BudgetInit
    DEF BudgetInv, Init, RetryAfterSuffices, SeenIsPast, Idle
<1>2. BudgetInv /\ RetryAfterSuffices /\ SeenIsPast /\ [Next]_vars
        => (BudgetInv /\ RetryAfterSuffices /\ SeenIsPast)'
    BY TypeStep, BudgetStep, PromiseStep DEF BudgetInv
<1> QED
    BY <1>1, <1>2, PTL DEF Spec

=============================================================================
