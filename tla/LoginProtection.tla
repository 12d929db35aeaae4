-------------------------- MODULE LoginProtection --------------------------
(***************************************************************************)
(* The temporary lock of one account: issue_access_token                   *)
(* (gateway/app/auth/router.py) run by concurrent login attempts over the  *)
(* three Lua scripts of gateway/app/rate_limit/login_scripts.py, called    *)
(* through RedisLoginProtection (login.py).                                *)
(*                                                                         *)
(* An attempt is suspended in each Redis call and while the password is    *)
(* verified.  A script is executed with the clock reading its caller took  *)
(* before the call.  A caller that gets a RedisError answers 503, but the  *)
(* script it sent may have been executed, may still be, or never is.       *)
(***************************************************************************)
EXTENDS Integers

CONSTANTS
    Threshold,        \* policy.failure_threshold
    FailureWindow,    \* policy.failure_window_seconds, in ticks
    Lockout,          \* policy.lockout_seconds, in ticks
    TicksPerSecond,   \* 1000 in the code, whose tick is the millisecond
    Attempts,         \* login attempts that may be under way at once
    MaxDelay,         \* a script is executed or lost this soon after its
                      \* caller read the clock
    MaxLosses,        \* bound on how often Redis loses the hash
    MaxTime           \* bound on the clock

ASSUME LoginAssumption ==
    /\ Threshold \in Nat \ {0}
    /\ FailureWindow \in Nat \ {0}
    /\ Lockout \in Nat \ {0}
    /\ TicksPerSecond \in Nat \ {0}
    /\ Lockout % TicksPerSecond = 0         \* whole seconds
    /\ FailureWindow % TicksPerSecond = 0
    /\ MaxDelay \in Nat
    /\ MaxLosses \in Nat
    /\ MaxTime \in Nat

VARIABLES
    now,        \* the clock
    key,        \* the Redis hash of the account
    attempt,    \* attempt[a]: the login attempt in slot a
    losses      \* history: how often Redis lost the hash

vars == <<now, key, attempt, losses>>

\* The hash exists until it expires; an absent field is 0, as for the scripts.
Key == [failures : 0..Threshold, locked_until : Nat, expires : Nat]
NoKey == [failures |-> 0, locked_until |-> 0, expires |-> 0]

\* What HMGET finds.
Found == IF now < key.expires THEN key ELSE NoKey

\* A script under way.
Calling == {"checking", "failing", "resetting"}

\* time is the clock reading of the script under way or, for a refused
\* attempt, when its Retry-After ends; heard says that the caller still waits
\* for the script; fresh is history: no lock was set since the attempt was
\* admitted to verification or refused.
Attempt ==
    [pc : Calling \cup {"idle", "verifying", "refused"}, time : Nat,
     heard : BOOLEAN, fresh : BOOLEAN]

At(pc, time) == [pc |-> pc, time |-> time, heard |-> TRUE, fresh |-> TRUE]

Idle == At("idle", 0)

Init ==
    /\ now = 0
    /\ key = NoKey
    /\ attempt = [a \in Attempts |-> Idle]
    /\ losses = 0

Become(a, state) == attempt' = [attempt EXCEPT ![a] = state]

-----------------------------------------------------------------------------
(* The scripts, run with the clock reading t.                              *)

\* The lock is in force for a caller that read t.
LockedAt(t) == Found.locked_until > t

\* Mutant: whole seconds are truncated.
LockDelay_Truncated(t) ==
    TicksPerSecond * ((Found.locked_until - t) \div TicksPerSecond)

\* The Retry-After of a lock found by a caller that read t.
LockDelay(t) ==
    TicksPerSecond
        * ((Found.locked_until - t + TicksPerSecond - 1) \div TicksPerSecond)

\* Mutant: the failures of a lock that is over still count.
PriorFailures_Kept == Found.failures

\* Failures counted before this one: a lock that is over counts for nothing.
PriorFailures == IF Found.locked_until > 0 THEN 0 ELSE Found.failures

\* Mutant: the hash of a lock expires with the failure window.
LockedKey_WrongTtl(t) ==
    [failures |-> PriorFailures + 1, locked_until |-> t + Lockout,
     expires |-> now + FailureWindow]

LockedKey(t) ==
    [failures |-> PriorFailures + 1, locked_until |-> t + Lockout,
     expires |-> now + Lockout]

CountingKey ==
    [failures |-> PriorFailures + 1, locked_until |-> 0,
     expires |-> now + FailureWindow]

-----------------------------------------------------------------------------
(* The steps of issue_access_token.                                        *)

\* The attempt passed the address limit and sends LOGIN_LOCK_STATUS_SCRIPT.
Begin(a) ==
    /\ attempt[a].pc = "idle"
    /\ Become(a, At("checking", now))
    /\ UNCHANGED <<now, key, losses>>

\* The status script finds the lock in force: 429.
CheckLocked(a) ==
    /\ attempt[a].pc = "checking"
    /\ LockedAt(attempt[a].time)
    /\ Become(a, IF attempt[a].heard
                 THEN At("refused", now + LockDelay(attempt[a].time))
                 ELSE Idle)
    /\ UNCHANGED <<now, key, losses>>

\* Mutant: the lock that the status script reports is not acted upon.
CheckUnlocked_Unguarded(a) ==
    /\ attempt[a].pc = "checking"
    /\ key' = IF LockedAt(attempt[a].time) \/ Found.locked_until = 0
              THEN Found ELSE NoKey
    /\ Become(a, IF attempt[a].heard THEN At("verifying", 0) ELSE Idle)
    /\ UNCHANGED <<now, losses>>

\* The status script finds no lock, and deletes one that is over: the
\* password is verified.
CheckUnlocked(a) ==
    /\ attempt[a].pc = "checking"
    /\ ~LockedAt(attempt[a].time)
    /\ key' = IF Found.locked_until > 0 THEN NoKey ELSE Found
    /\ Become(a, IF attempt[a].heard THEN At("verifying", 0) ELSE Idle)
    /\ UNCHANGED <<now, losses>>

\* The password was wrong: LOGIN_FAILURE_SCRIPT is sent.
VerifyWrong(a) ==
    /\ attempt[a].pc = "verifying"
    /\ Become(a, At("failing", now))
    /\ UNCHANGED <<now, key, losses>>

\* The password was right: LOGIN_RESET_SCRIPT is sent.
VerifyRight(a) ==
    /\ attempt[a].pc = "verifying"
    /\ Become(a, At("resetting", now))
    /\ UNCHANGED <<now, key, losses>>

\* The user repository failed: 503, and nothing is recorded.
VerifyUnavailable(a) ==
    /\ attempt[a].pc = "verifying"
    /\ Become(a, Idle)
    /\ UNCHANGED <<now, key, losses>>

\* The failure script finds the lock in force: 429, and nothing is counted.
FailLocked(a) ==
    /\ attempt[a].pc = "failing"
    /\ LockedAt(attempt[a].time)
    /\ Become(a, IF attempt[a].heard
                 THEN At("refused", now + LockDelay(attempt[a].time))
                 ELSE Idle)
    /\ UNCHANGED <<now, key, losses>>

\* Mutant: a failure is counted although the lock is in force.
FailCounted_InLock(a) ==
    /\ attempt[a].pc = "failing"
    /\ PriorFailures + 1 < Threshold
    /\ key' = CountingKey
    /\ Become(a, Idle)
    /\ UNCHANGED <<now, losses>>

\* The failure script counts a failure below the threshold: 401.
FailCounted(a) ==
    /\ attempt[a].pc = "failing"
    /\ ~LockedAt(attempt[a].time)
    /\ PriorFailures + 1 < Threshold
    /\ key' = CountingKey
    /\ Become(a, Idle)
    /\ UNCHANGED <<now, losses>>

\* The failure script counts the failure that sets the lock: 429.
FailLocks(a) ==
    /\ attempt[a].pc = "failing"
    /\ ~LockedAt(attempt[a].time)
    /\ PriorFailures + 1 >= Threshold
    /\ key' = LockedKey(attempt[a].time)
    /\ attempt' = [b \in Attempts |->
            IF b # a THEN [attempt[b] EXCEPT !.fresh = FALSE]
            ELSE IF attempt[a].heard THEN At("refused", now + Lockout)
            ELSE Idle]
    /\ UNCHANGED <<now, losses>>

\* The reset script deletes the hash: 200.
Reset(a) ==
    /\ attempt[a].pc = "resetting"
    /\ key' = NoKey
    /\ Become(a, Idle)
    /\ UNCHANGED <<now, losses>>

\* The caller gets a RedisError (timeout, broken connection): 503.
GiveUp(a) ==
    /\ attempt[a].pc \in Calling
    /\ attempt[a].heard
    /\ attempt' = [attempt EXCEPT ![a].heard = FALSE]
    /\ UNCHANGED <<now, key, losses>>

\* A script nobody waits for is lost.
Lose(a) ==
    /\ attempt[a].pc \in Calling
    /\ ~attempt[a].heard
    /\ Become(a, Idle)
    /\ UNCHANGED <<now, key, losses>>

\* The refused client is gone.
Leave(a) ==
    /\ attempt[a].pc = "refused"
    /\ Become(a, Idle)
    /\ UNCHANGED <<now, key, losses>>

\* Redis restarts empty and its connections break.
Restart ==
    /\ losses < MaxLosses
    /\ key' = NoKey
    /\ attempt' = [a \in Attempts |->
            IF attempt[a].pc \in Calling THEN Idle ELSE attempt[a]]
    /\ losses' = losses + 1
    /\ UNCHANGED now

\* Redis is short of memory and evicts the hash (allkeys-lru in compose.yaml).
Evict ==
    /\ losses < MaxLosses
    /\ key' = NoKey
    /\ losses' = losses + 1
    /\ UNCHANGED <<now, attempt>>

\* Time passes; no script is older than MaxDelay when it is executed.
Tick ==
    /\ now < MaxTime
    /\ \A a \in Attempts :
        attempt[a].pc \in Calling => now < attempt[a].time + MaxDelay
    /\ now' = now + 1
    /\ UNCHANGED <<key, attempt, losses>>

Next ==
    \/ \E a \in Attempts :
        \/ Begin(a)
        \/ CheckLocked(a)
        \/ CheckUnlocked(a)
        \/ VerifyWrong(a)
        \/ VerifyRight(a)
        \/ VerifyUnavailable(a)
        \/ FailLocked(a)
        \/ FailCounted(a)
        \/ FailLocks(a)
        \/ Reset(a)
        \/ GiveUp(a)
        \/ Lose(a)
        \/ Leave(a)
    \/ Restart
    \/ Evict
    \/ Tick

Spec == Init /\ [][Next]_vars

-----------------------------------------------------------------------------
(* Properties.                                                             *)

\* The lock is in force.
InForce == now < Found.locked_until

\* Every variable has the shape the code gives it.
TypeOK ==
    /\ now \in Nat
    /\ key \in Key
    /\ attempt \in [Attempts -> Attempt]
    /\ losses \in Nat

\* No reading is ahead of the clock, and none under way is too old.
Readings ==
    \A a \in Attempts : attempt[a].pc \in Calling =>
        attempt[a].time <= now /\ now <= attempt[a].time + MaxDelay

\* A hash holds a lock exactly when it holds Threshold failures; the hash of a
\* lock lives as long as the lock (Redis counts from the execution of the
\* script, the lock from the caller's earlier reading), not much longer, and
\* no lock lasts longer than lockout_seconds (login_scripts.py:106-127).
LockConsistent ==
    /\ key.locked_until > 0 <=> key.failures = Threshold
    /\ key.locked_until > 0 =>
        /\ key.locked_until <= key.expires
        /\ key.expires <= key.locked_until + MaxDelay
        /\ key.locked_until <= now + Lockout

\* While a lock is in force, passwords are verified only for attempts whose
\* check was executed before that lock was set, whatever clock readings
\* checks and failures carried (auth/router.py:176 against 266).
LockKeepsOut ==
    \A a \in Attempts :
        attempt[a].pc = "verifying" /\ InForce => ~attempt[a].fresh

\* A lock in force is neither extended nor shortened nor recounted by checks
\* and failures, however late; it is only lifted as a whole, by a successful
\* login or because Redis lost the hash.
LockImmutable ==
    [][InForce /\ key' # key =>
        /\ key' = NoKey
        /\ \/ losses' # losses
           \/ \E a \in Attempts :
                attempt[a].pc = "resetting" /\ attempt'[a].pc = "idle"]_vars

\* A client told by a 429 to stay away finds the lock over when it obeys,
\* unless a new lock was set (login.py:435-443, login_scripts.py:24-29, 122-126).
LockDelaySuffices ==
    \A a \in Attempts :
        attempt[a].pc = "refused" /\ attempt[a].fresh =>
            key.locked_until <= attempt[a].time

\* The inductive invariant behind the safety properties.
LoginInv ==
    /\ TypeOK
    /\ Readings
    /\ LockConsistent
    /\ LockKeepsOut
    /\ LockDelaySuffices

\* "lockout_seconds: Duration of the temporary lock." (login.py:51-52): once
\* set, a lock stays until its time is over.
LockLasts == [][InForce => key' = key]_vars

=============================================================================
