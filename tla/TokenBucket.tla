---------------------------- MODULE TokenBucket ----------------------------
(***************************************************************************)
(* The Redis-backed token bucket of one identity and one policy: the Lua   *)
(* script of gateway/app/rate_limit/scripts.py, run by Redis one command   *)
(* at a time, and RedisRateLimiter.check (service.py), which reads the     *)
(* Gateway's clock BEFORE it awaits the script.  Commands travel on        *)
(* different connections of the pool, so they are executed in any order,   *)
(* may be lost, may lose their reply, and may be executed after the client *)
(* gave up on them.  Redis keeps nothing on disk: a restart empties it.    *)
(*                                                                         *)
(* The unit of time is a tick of the clock of clock_ms, and tokens are     *)
(* counted in units of what one tick refills (refill_rate / 1000 of a      *)
(* token): the refill of a delay is the delay.                             *)
(***************************************************************************)
EXTENDS Integers

CONSTANTS
    Capacity,         \* policy.capacity, in units
    Cost,             \* policy.cost, in units
    TicksPerSecond,   \* 1000 in the code
    Requests,         \* calls of check() that may be under way at once
    MaxDelay,         \* a command is executed or lost this soon after check()
                      \* read the clock
    MaxRestarts,      \* bound on the restarts of Redis
    MaxTime           \* bound on the clock

ASSUME BucketAssumption ==
    /\ Capacity \in Nat \ {0}
    /\ Cost \in 1..Capacity
    /\ TicksPerSecond \in Nat \ {0}
    /\ MaxDelay \in 0..Capacity
    /\ MaxRestarts \in Nat
    /\ MaxTime \in Nat

VARIABLES
    now,         \* the clock
    bucket,      \* the Redis hash of the identity
    req,         \* req[r]: the call of check() in slot r
    granted,     \* history: units the script handed out
    allowance,   \* history: one Capacity, and one more per restart
    rewound      \* history: how far last_refill_ms was set back, in total

vars == <<now, bucket, req, granted, allowance, rewound>>

AtLeast(a, b) == IF a >= b THEN a ELSE b
AtMost(a, b) == IF a <= b THEN a ELSE b
CeilingDiv(n, d) == (n + d - 1) \div d

\* Mutant: a bucket is forgotten as soon as it could be full again.
state_ttl_Once == TicksPerSecond * CeilingDiv(Capacity, TicksPerSecond)

\* state_ttl_seconds: twice the time an empty bucket needs, in whole seconds.
state_ttl == TicksPerSecond * CeilingDiv(2 * Capacity, TicksPerSecond)

\* The hash exists until it expires; "no hash" is one that expired long ago.
Bucket == [tokens : 0..Capacity, last : Nat, expires : Nat]
NoBucket == [tokens |-> 0, last |-> 0, expires |-> 0]
Exists == now < bucket.expires

Idle == [pc |-> "idle"]
InFlight == {"sent", "abandoned"}

\* A call whose command is under way, with its reading of the clock; in
\* "abandoned" the client has given up on it and answered 503.
Command == [pc : InFlight, at : Nat]

\* A call that was refused: the earliest time its client comes back when it
\* obeys Retry-After, and what had been handed out until then.
Refusal == [pc : {"refused"}, retry_at : Nat, seen : Nat]

Pending(r) == req[r].pc \in InFlight

Init ==
    /\ now = 0
    /\ bucket = NoBucket
    /\ req = [r \in Requests |-> Idle]
    /\ granted = 0
    /\ allowance = Capacity
    /\ rewound = 0

-----------------------------------------------------------------------------
(* TOKEN_BUCKET_SCRIPT, run with the clock reading t.                      *)

\* Mutant: a reading older than the last one counts as elapsed time.
Refilled_Absolute(t) ==
    IF Exists
    THEN AtMost(Capacity,
            bucket.tokens + AtLeast(t - bucket.last, bucket.last - t))
    ELSE Capacity

\* Mutant: a refill may exceed the capacity.
Refilled_Uncapped(t) ==
    IF Exists THEN bucket.tokens + AtLeast(0, t - bucket.last) ELSE Capacity

\* The tokens after the refill of the elapsed time.
Refilled(t) ==
    IF Exists
    THEN AtMost(Capacity, bucket.tokens + AtLeast(0, t - bucket.last))
    ELSE Capacity

Allowed(t) == Refilled(t) >= Cost

\* Mutant: the milliseconds are truncated to seconds.
RetryAfter_Truncated(t) == AtLeast(1, (Cost - Refilled(t)) \div TicksPerSecond)

\* Seconds until the missing tokens are refilled, as a client is told:
\* milliseconds rounded up to seconds, at least 1.
RetryAfter(t) == AtLeast(1, CeilingDiv(Cost - Refilled(t), TicksPerSecond))

\* HSET and PEXPIRE: the reading replaces last_refill_ms even if it is older.
Script(t) ==
    /\ bucket' = [tokens |-> IF Allowed(t) THEN Refilled(t) - Cost
                                           ELSE Refilled(t),
                  last |-> t,
                  expires |-> now + state_ttl]
    /\ granted' = IF Allowed(t) THEN granted + Cost ELSE granted
    /\ rewound' = IF Exists THEN rewound + AtLeast(0, bucket.last - t)
                            ELSE rewound

-----------------------------------------------------------------------------
(* RedisRateLimiter.check and its environment.                             *)

\* check() reads the clock and sends the script.
Send(r) ==
    /\ req[r].pc = "idle"
    /\ req' = [req EXCEPT ![r] = [pc |-> "sent", at |-> now]]
    /\ UNCHANGED <<now, bucket, granted, allowance, rewound>>

\* Redis runs the script and the answer arrives: the call goes through, or a
\* 429 tells it when to come back.
Answer(r) ==
    /\ req[r].pc = "sent"
    /\ Script(req[r].at)
    /\ req' = [req EXCEPT ![r] =
            IF Allowed(req[r].at)
            THEN Idle
            ELSE [pc |-> "refused", seen |-> granted,
                  retry_at |-> now + TicksPerSecond * RetryAfter(req[r].at)]]
    /\ UNCHANGED <<now, allowance>>

\* Redis runs the script for a client that will not hear of it (the reply is
\* lost, or the client has given up): RateLimitBackendError, 503.
Unheard(r) ==
    /\ Pending(r)
    /\ Script(req[r].at)
    /\ req' = [req EXCEPT ![r] = Idle]
    /\ UNCHANGED <<now, allowance>>

\* The command never reaches Redis: RateLimitBackendError, 503.
Lose(r) ==
    /\ Pending(r)
    /\ req' = [req EXCEPT ![r] = Idle]
    /\ UNCHANGED <<now, bucket, granted, allowance, rewound>>

\* The socket timeout expires (no retry on timeout): 503, and the command
\* stays where it is.
TimeOut(r) ==
    /\ req[r].pc = "sent"
    /\ req' = [req EXCEPT ![r].pc = "abandoned"]
    /\ UNCHANGED <<now, bucket, granted, allowance, rewound>>

\* The refused client starts over, sooner or later than it was told.
Return(r) ==
    /\ req[r].pc = "refused"
    /\ req' = [req EXCEPT ![r] = Idle]
    /\ UNCHANGED <<now, bucket, granted, allowance, rewound>>

\* Redis restarts empty and its connections break.
Restart ==
    /\ allowance < Capacity * (1 + MaxRestarts)
    /\ bucket' = NoBucket
    /\ req' = [r \in Requests |-> IF Pending(r) THEN Idle ELSE req[r]]
    /\ allowance' = allowance + Capacity
    /\ UNCHANGED <<now, granted, rewound>>

\* Time passes; no command grows older than MaxDelay.
Tick ==
    /\ now < MaxTime
    /\ \A r \in Requests : Pending(r) => now < req[r].at + MaxDelay
    /\ now' = now + 1
    /\ UNCHANGED <<bucket, req, granted, allowance, rewound>>

Next ==
    \/ \E r \in Requests :
        \/ Send(r)
        \/ Answer(r)
        \/ Unheard(r)
        \/ Lose(r)
        \/ TimeOut(r)
        \/ Return(r)
    \/ Restart
    \/ Tick

Spec == Init /\ [][Next]_vars

-----------------------------------------------------------------------------
(* Properties.                                                             *)

\* Every variable has the shape the code gives it.
TypeOK ==
    /\ now \in Nat
    /\ bucket \in Bucket
    /\ req \in [Requests -> {Idle} \cup Command \cup Refusal]
    /\ granted \in Nat
    /\ allowance \in Nat
    /\ rewound \in Nat

\* No reading is ahead of the clock, and none under way is too old.
Readings ==
    /\ bucket.last <= now
    /\ \A r \in Requests :
        Pending(r) => req[r].at <= now /\ now <= req[r].at + MaxDelay

\* The budget, told from the last refill while the hash exists, and from
\* every clock reading that may create the hash while it does not.
Accounts ==
    /\ Exists =>
        /\ granted + bucket.tokens <= allowance + bucket.last + rewound
        /\ bucket.last + state_ttl <= bucket.expires
        /\ bucket.expires <= now + state_ttl
    /\ ~Exists =>
        /\ granted + Capacity <= allowance + now + rewound
        /\ \A r \in Requests :
            Pending(r) => granted + Capacity <= allowance + req[r].at + rewound

\* Whatever is reordered, lost, timed out, expired or restarted, the script
\* hands out no more than one burst (per life of Redis) and the refill of the
\* time elapsed, except for what readings executed out of order refilled twice.
Budget == granted <= allowance + now + rewound

\* The strengthening that makes Budget inductive.
BudgetInv == TypeOK /\ Readings /\ Accounts

\* The Retry-After of a 429 is long enough: unless tokens were handed out in
\* between, a client that obeys it finds the tokens it needs, whatever clock
\* readings were executed meanwhile (scripts.py:81-87, dependencies.py:113-119).
RetryAfterSuffices ==
    \A r \in Requests :
        /\ req[r].pc = "refused"
        /\ req[r].seen = granted
        /\ Exists
        => bucket.tokens + (req[r].retry_at - bucket.last) >= Cost

\* "The bucket permits a burst of 60 requests and refills at one token per
\* second" (dependencies.py:82-83): nothing is handed out beyond the bursts
\* and the refill of the time elapsed.
BurstPlusRefill == granted <= allowance + now

=============================================================================
