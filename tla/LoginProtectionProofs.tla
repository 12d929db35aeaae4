----------------------- MODULE LoginProtectionProofs -----------------------
(***************************************************************************)
(* Proofs about LoginProtection for any number of concurrent attempts and  *)
(* every threshold, window, lock duration and delay.                       *)
(***************************************************************************)
EXTENDS LoginProtection, TLAPS

\* What the scripts may find in the hash.
LEMMA FoundType ==
    ASSUME TypeOK
    PROVE  /\ Found \in Key
           /\ Found.locked_until > 0 => Found = key
<1>1. key \in Key /\ NoKey \in Key /\ NoKey.locked_until = 0
    BY LoginAssumption DEF TypeOK, Key, NoKey
<1> QED
    BY <1>1 DEF Found

\* Rounding up to whole seconds (math.ceil in _parse_decision, login.py).
LEMMA CeilingSuffices ==
    ASSUME NEW n \in Nat, NEW d \in Nat \ {0}
    PROVE  /\ d * ((n + d - 1) \div d) \in Nat
           /\ n <= d * ((n + d - 1) \div d)
<1> DEFINE m == n + d - 1
           q == m \div d
<1>1. m \in Nat /\ q \in Nat
    OBVIOUS
<1>2. m = d * q + (m % d) /\ m % d \in 0..(d - 1)
    BY <1>1
<1>3. d * q \in Nat /\ n <= d * q
    BY <1>1, <1>2
<1> QED
    BY <1>3

\* The Retry-After of a lock lasts until the lock is over.
LEMMA LockDelayBound ==
    ASSUME TypeOK, NEW t \in Nat, LockedAt(t)
    PROVE  LockDelay(t) \in Nat /\ Found.locked_until <= t + LockDelay(t)
<1> DEFINE n == Found.locked_until - t
<1>1. n \in Nat /\ Found.locked_until \in Nat
    BY FoundType DEF Key, LockedAt
<1>2. LockDelay(t) \in Nat /\ n <= LockDelay(t)
    BY <1>1, CeilingSuffices, LoginAssumption DEF LockDelay
<1> QED
    BY <1>1, <1>2

\* A caller that read the clock before now and finds a lock over finds it over
\* for good.
LEMMA NotInForce ==
    ASSUME TypeOK, NEW t \in Nat, t <= now, ~LockedAt(t)
    PROVE  ~InForce
BY FoundType DEF LockedAt, InForce, TypeOK, Key

LEMMA AttemptAt ==
    ASSUME NEW pc \in Calling \cup {"idle", "verifying", "refused"},
           NEW t \in Nat
    PROVE  At(pc, t) \in Attempt
BY DEF At, Attempt

\* A lock that is set holds Threshold failures, one less is counted before it.
LEMMA PriorBound ==
    ASSUME TypeOK, LockConsistent
    PROVE  PriorFailures \in 0..(Threshold - 1)
<1>1. /\ Found.failures \in 0..Threshold
      /\ Found.locked_until \in Nat
    BY FoundType DEF Key
<1>2. Found.failures = Threshold => Found.locked_until > 0
    <2>1. CASE now < key.expires
        BY <2>1, LoginAssumption DEF LockConsistent, Found
    <2>2. CASE ~(now < key.expires)
        BY <2>2, LoginAssumption DEF Found, NoKey
    <2> QED
        BY <2>1, <2>2
<1> QED
    BY <1>1, <1>2, LoginAssumption DEF PriorFailures

-----------------------------------------------------------------------------
(* The inductive invariant.                                                *)

LEMMA InitInv == Init => LoginInv
<1> SUFFICES ASSUME Init PROVE LoginInv
    OBVIOUS
<1>1. NoKey \in Key /\ Idle \in Attempt
    BY LoginAssumption, AttemptAt DEF Key, NoKey, Idle
<1>2. \A a \in Attempts : attempt[a].pc = "idle"
    BY DEF Init, Idle, At
<1>3. TypeOK
    BY <1>1 DEF Init, TypeOK
<1>4. LockConsistent
    BY LoginAssumption DEF Init, LockConsistent, NoKey
<1> QED
    BY <1>2, <1>3, <1>4
    DEF LoginInv, Readings, Calling, LockKeepsOut, LockDelaySuffices

LEMMA TypeStep == TypeOK /\ LockConsistent /\ [Next]_vars => TypeOK'
<1> SUFFICES ASSUME TypeOK, LockConsistent, [Next]_vars PROVE TypeOK'
    OBVIOUS
<1>0. /\ NoKey \in Key /\ Found \in Key /\ Idle \in Attempt
      /\ \A a \in Attempts : attempt[a] \in Attempt /\ attempt[a].time \in Nat
    <2>1. NoKey \in Key
        BY LoginAssumption DEF Key, NoKey
    <2> QED
        BY <2>1, FoundType, AttemptAt DEF Idle, TypeOK, Attempt
<1>1. ASSUME NEW a \in Attempts, NEW s \in Attempt, Become(a, s)
      PROVE  attempt' \in [Attempts -> Attempt]
    BY <1>1 DEF Become, TypeOK
<1>2. ASSUME NEW a \in Attempts,
             Begin(a) \/ VerifyWrong(a) \/ VerifyRight(a)
                \/ VerifyUnavailable(a) \/ Lose(a) \/ Leave(a)
      PROVE  TypeOK'
    <2>1. /\ At("checking", now) \in Attempt
          /\ At("failing", now) \in Attempt
          /\ At("resetting", now) \in Attempt
        BY AttemptAt DEF TypeOK, Calling
    <2>2. attempt' \in [Attempts -> Attempt]
        BY <1>0, <1>1, <1>2, <2>1
        DEF Begin, VerifyWrong, VerifyRight, VerifyUnavailable, Lose, Leave
    <2> QED
        BY <1>2, <2>2 DEF TypeOK, Begin, VerifyWrong, VerifyRight,
            VerifyUnavailable, Lose, Leave
<1>3. ASSUME NEW a \in Attempts, CheckLocked(a) \/ FailLocked(a)
      PROVE  TypeOK'
    <2>1. LockDelay(attempt[a].time) \in Nat
        BY <1>0, <1>3, LockDelayBound DEF CheckLocked, FailLocked
    <2>2. At("refused", now + LockDelay(attempt[a].time)) \in Attempt
        BY <2>1 DEF TypeOK, At, Attempt
    <2>3. attempt' \in [Attempts -> Attempt]
        BY <1>0, <1>1, <1>3, <2>2 DEF CheckLocked, FailLocked
    <2> QED
        BY <1>3, <2>3 DEF TypeOK, CheckLocked, FailLocked
<1>4. ASSUME NEW a \in Attempts, CheckUnlocked(a) PROVE TypeOK'
    <2>1. At("verifying", 0) \in Attempt
        BY AttemptAt
    <2>2. attempt' \in [Attempts -> Attempt]
        BY <1>0, <1>1, <1>4, <2>1 DEF CheckUnlocked
    <2> QED
        BY <1>0, <1>4, <2>2 DEF TypeOK, CheckUnlocked
<1>5. ASSUME NEW a \in Attempts, FailCounted(a) PROVE TypeOK'
    <2>1. CountingKey \in Key
        BY PriorBound, LoginAssumption DEF CountingKey, Key, TypeOK
    <2>2. attempt' \in [Attempts -> Attempt]
        BY <1>0, <1>1, <1>5 DEF FailCounted
    <2> QED
        BY <1>5, <2>1, <2>2 DEF TypeOK, FailCounted
<1>6. ASSUME NEW a \in Attempts, FailLocks(a) PROVE TypeOK'
    <2>1. LockedKey(attempt[a].time) \in Key
        BY <1>0, PriorBound, LoginAssumption DEF LockedKey, Key, TypeOK
    <2>2. At("refused", now + Lockout) \in Attempt
        BY LoginAssumption DEF TypeOK, At, Attempt
    <2>3. \A b \in Attempts : [attempt[b] EXCEPT !.fresh = FALSE] \in Attempt
        BY <1>0 DEF Attempt
    <2>4. attempt' \in [Attempts -> Attempt]
        BY <1>0, <1>6, <2>2, <2>3 DEF FailLocks
    <2> QED
        BY <1>6, <2>1, <2>4 DEF TypeOK, FailLocks
<1>7. ASSUME NEW a \in Attempts, Reset(a) PROVE TypeOK'
    BY <1>0, <1>1, <1>7 DEF Reset, TypeOK
<1>8. ASSUME NEW a \in Attempts, GiveUp(a) PROVE TypeOK'
    <2>1. [attempt[a] EXCEPT !.heard = FALSE] \in Attempt
        BY <1>0 DEF Attempt
    <2> QED
        BY <1>8, <2>1 DEF GiveUp, TypeOK
<1>9. CASE Restart \/ Evict
    BY <1>0, <1>9 DEF Restart, Evict, TypeOK
<1>10. CASE Tick
    BY <1>10 DEF Tick, TypeOK
<1>11. CASE UNCHANGED vars
    BY <1>11 DEF vars, TypeOK
<1> QED
    BY <1>2, <1>3, <1>4, <1>5, <1>6, <1>7, <1>8, <1>9, <1>10, <1>11 DEF Next

LEMMA IdleFields == Idle.pc = "idle"
BY DEF Idle, At

\* No step sends an old reading, and the clock waits for the scripts under way.
LEMMA ReadingsStep ==
    TypeOK /\ Readings /\ [Next]_vars => Readings'
<1> SUFFICES ASSUME TypeOK, Readings, [Next]_vars,
                    NEW b \in Attempts, attempt'[b].pc \in Calling
             PROVE  attempt'[b].time <= now' /\ now' <= attempt'[b].time + MaxDelay
    BY DEF Readings
<1>0. /\ now \in Nat /\ MaxDelay \in Nat
      /\ \A a \in Attempts : attempt[a].time \in Nat
      /\ "idle" \notin Calling /\ "verifying" \notin Calling
      /\ "refused" \notin Calling
    BY LoginAssumption DEF TypeOK, Attempt, Calling
<1>1. ASSUME now' = now, attempt'[b].pc = attempt[b].pc,
             attempt'[b].time = attempt[b].time
      PROVE  attempt'[b].time <= now' /\ now' <= attempt'[b].time + MaxDelay
    BY <1>1 DEF Readings
<1>2. ASSUME NEW a \in Attempts, Begin(a) \/ VerifyWrong(a) \/ VerifyRight(a)
      PROVE  attempt'[b].time <= now' /\ now' <= attempt'[b].time + MaxDelay
    <2>1. now' = now
        BY <1>2 DEF Begin, VerifyWrong, VerifyRight
    <2>2. \/ attempt'[b] = attempt[b]
          \/ attempt'[b].time = now
        BY <1>2 DEF Begin, VerifyWrong, VerifyRight, Become, At, TypeOK
    <2> QED
        BY <1>0, <1>1, <2>1, <2>2
<1>3. ASSUME NEW a \in Attempts,
             \/ CheckLocked(a) \/ CheckUnlocked(a) \/ VerifyUnavailable(a)
             \/ FailLocked(a) \/ FailCounted(a) \/ Reset(a) \/ Lose(a)
             \/ Leave(a)
      PROVE  attempt'[b].time <= now' /\ now' <= attempt'[b].time + MaxDelay
    <2>1. now' = now
        BY <1>3 DEF CheckLocked, CheckUnlocked, VerifyUnavailable, FailLocked,
            FailCounted, Reset, Lose, Leave
    <2>2. attempt'[a].pc \in {"idle", "verifying", "refused"}
        BY <1>3 DEF CheckLocked, CheckUnlocked, VerifyUnavailable, FailLocked,
            FailCounted, Reset, Lose, Leave, Become, At, Idle, TypeOK
    <2>3. b # a
        BY <1>0, <2>2
    <2>4. attempt'[b] = attempt[b]
        BY <1>3, <2>3 DEF CheckLocked, CheckUnlocked, VerifyUnavailable,
            FailLocked, FailCounted, Reset, Lose, Leave, Become, TypeOK
    <2> QED
        BY <1>1, <2>1, <2>4
<1>4. ASSUME NEW a \in Attempts, FailLocks(a)
      PROVE  attempt'[b].time <= now' /\ now' <= attempt'[b].time + MaxDelay
    <2>1. CASE b = a
        <3>1. attempt'[a] = At("refused", now + Lockout) \/ attempt'[a] = Idle
            BY <1>4 DEF FailLocks
        <3> QED
            BY <1>0, <2>1, <3>1 DEF At, Idle
    <2>2. CASE b # a
        <3>1. attempt'[b] = [attempt[b] EXCEPT !.fresh = FALSE]
            BY <1>4, <2>2 DEF FailLocks
        <3>2. attempt[b] \in Attempt
            BY DEF TypeOK
        <3>3. attempt'[b].pc = attempt[b].pc /\ attempt'[b].time = attempt[b].time
            BY <3>1, <3>2 DEF Attempt
        <3> QED
            BY <1>1, <1>4, <3>3 DEF FailLocks
    <2> QED
        BY <2>1, <2>2
<1>5. ASSUME NEW a \in Attempts, GiveUp(a)
      PROVE  attempt'[b].time <= now' /\ now' <= attempt'[b].time + MaxDelay
    <2>1. attempt[b] \in Attempt
        BY DEF TypeOK
    <2>2. attempt'[b].pc = attempt[b].pc /\ attempt'[b].time = attempt[b].time
        BY <1>5, <2>1 DEF GiveUp, TypeOK, Attempt
    <2> QED
        BY <1>1, <1>5, <2>2 DEF GiveUp
<1>6. CASE Restart \/ Evict
    BY <1>0, <1>1, <1>6, IdleFields DEF Restart, Evict
<1>7. CASE Tick
    BY <1>0, <1>7 DEF Tick, Readings
<1>8. CASE UNCHANGED vars
    BY <1>1, <1>8 DEF vars
<1> QED
    BY <1>2, <1>3, <1>4, <1>5, <1>6, <1>7, <1>8 DEF Next

\* How a step may change the hash: it is left alone, removed, kept as a count
\* of failures without a lock, or holds a lock that FailLocks has just set.
LEMMA KeySteps ==
    ASSUME TypeOK, Readings, LockConsistent, [Next]_vars
    PROVE  \/ key' = key
           \/ now' = now /\ key' = NoKey
           \/ now' = now /\ key' = Found /\ Found.locked_until = 0
           \/ now' = now /\ key' = CountingKey /\ PriorFailures + 1 < Threshold
           \/ \E a \in Attempts : FailLocks(a)
<1>1. ASSUME NEW a \in Attempts, CheckUnlocked(a)
      PROVE  now' = now /\ (key' = NoKey \/ (key' = Found /\ Found.locked_until = 0))
    <2>1. Found.locked_until \in Nat
        BY FoundType DEF Key
    <2> QED
        BY <1>1, <2>1 DEF CheckUnlocked
<1>2. ASSUME NEW a \in Attempts, FailCounted(a)
      PROVE  now' = now /\ key' = CountingKey /\ PriorFailures + 1 < Threshold
    BY <1>2 DEF FailCounted
<1>3. ASSUME NEW a \in Attempts, Reset(a) PROVE now' = now /\ key' = NoKey
    BY <1>3 DEF Reset
<1>4. CASE Restart \/ Evict
    BY <1>4 DEF Restart, Evict
<1>5. ASSUME NEW a \in Attempts,
             \/ Begin(a) \/ CheckLocked(a) \/ VerifyWrong(a) \/ VerifyRight(a)
             \/ VerifyUnavailable(a) \/ FailLocked(a) \/ GiveUp(a) \/ Lose(a)
             \/ Leave(a)
      PROVE  key' = key
    BY <1>5 DEF Begin, CheckLocked, VerifyWrong, VerifyRight,
        VerifyUnavailable, FailLocked, GiveUp, Lose, Leave
<1>6. CASE Tick \/ UNCHANGED vars
    BY <1>6 DEF Tick, vars
<1> QED
    BY <1>1, <1>2, <1>3, <1>4, <1>5, <1>6 DEF Next

LEMMA LockConsistentStep ==
    TypeOK /\ Readings /\ LockConsistent /\ [Next]_vars => LockConsistent'
<1> SUFFICES ASSUME TypeOK, Readings, LockConsistent, [Next]_vars
             PROVE  LockConsistent'
    OBVIOUS
<1>0. /\ now \in Nat /\ MaxDelay \in Nat /\ Lockout \in Nat \ {0}
      /\ Threshold \in Nat \ {0} /\ FailureWindow \in Nat
      /\ key.locked_until \in Nat /\ key.failures \in Nat /\ key.expires \in Nat
    BY LoginAssumption DEF TypeOK, Key
<1>1. now' \in Nat /\ now <= now'
    <2>1. now' = now \/ now' = now + 1
        BY DEF Next, vars, Begin, CheckLocked, CheckUnlocked, VerifyWrong,
            VerifyRight, VerifyUnavailable, FailLocked, FailCounted, FailLocks,
            Reset, GiveUp, Lose, Leave, Restart, Evict, Tick
    <2> QED
        BY <1>0, <2>1
<1>2. CASE key' = key
    BY <1>0, <1>1, <1>2 DEF LockConsistent
<1>3. CASE key' = NoKey
    BY <1>0, <1>3 DEF LockConsistent, NoKey
<1>4. CASE key' = Found /\ Found.locked_until = 0
    <2>1. Found.failures # Threshold
        BY <1>0, <1>4 DEF Found, LockConsistent, NoKey
    <2> QED
        BY <1>4, <2>1 DEF LockConsistent
<1>5. CASE key' = CountingKey /\ PriorFailures + 1 < Threshold
    BY <1>0, <1>5, PriorBound DEF CountingKey, LockConsistent
<1>6. ASSUME NEW a \in Attempts, FailLocks(a) PROVE LockConsistent'
    <2>1. /\ attempt[a].time \in Nat
          /\ attempt[a].time <= now /\ now <= attempt[a].time + MaxDelay
        BY <1>6 DEF FailLocks, Readings, Calling, TypeOK, Attempt
    <2>2. PriorFailures + 1 = Threshold
        BY <1>0, <1>6, PriorBound DEF FailLocks
    <2>3. /\ key'.failures = Threshold
          /\ key'.locked_until = attempt[a].time + Lockout
          /\ key'.expires = now + Lockout
          /\ now' = now
        BY <1>6, <2>2 DEF FailLocks, LockedKey
    <2> QED
        BY <1>0, <2>1, <2>3 DEF LockConsistent
<1> QED
    BY <1>2, <1>3, <1>4, <1>5, <1>6, KeySteps

\* No lock is in force after a step that does not set one, unless it was
\* before.
LEMMA InForceSteps ==
    ASSUME TypeOK, Readings, LockConsistent, [Next]_vars,
           ~InForce, \A a \in Attempts : ~FailLocks(a)
    PROVE  ~InForce'
<1>0. /\ now \in Nat /\ Found \in Key
      /\ key.locked_until \in Nat /\ key.expires \in Nat
    BY FoundType DEF TypeOK, Key
<1>1. CASE key' = key
    <2>1. now' = now \/ now' = now + 1
        BY DEF Next, vars, Begin, CheckLocked, CheckUnlocked, VerifyWrong,
            VerifyRight, VerifyUnavailable, FailLocked, FailCounted, FailLocks,
            Reset, GiveUp, Lose, Leave, Restart, Evict, Tick
    <2> QED
        BY <1>0, <1>1, <2>1 DEF InForce, LockedAt, Found, NoKey
<1>2. CASE now' = now /\ key' = NoKey
    BY <1>0, <1>2 DEF InForce, LockedAt, Found, NoKey
<1>3. CASE now' = now /\ key' = Found /\ Found.locked_until = 0
    BY <1>0, <1>3 DEF InForce, LockedAt, Found, NoKey
<1>4. CASE now' = now /\ key' = CountingKey
    BY <1>0, <1>4 DEF InForce, LockedAt, Found, NoKey, CountingKey
<1> QED
    BY <1>1, <1>2, <1>3, <1>4, KeySteps

\* How an attempt comes to be verified or refused while no lock is set.
LEMMA SlotSteps ==
    ASSUME TypeOK, [Next]_vars, NEW b \in Attempts,
           \A a \in Attempts : ~FailLocks(a),
           attempt'[b].pc \in {"verifying", "refused"}
    PROVE  \/ /\ attempt'[b].pc = attempt[b].pc
              /\ attempt'[b].time = attempt[b].time
              /\ attempt'[b].fresh = attempt[b].fresh
           \/ attempt'[b].pc = "verifying" /\ CheckUnlocked(b)
           \/ attempt'[b].pc = "refused" /\ (CheckLocked(b) \/ FailLocked(b))
<1>1. ASSUME NEW a \in Attempts,
             \/ Begin(a) \/ VerifyWrong(a) \/ VerifyRight(a)
             \/ VerifyUnavailable(a) \/ FailCounted(a) \/ Reset(a) \/ Lose(a)
             \/ Leave(a)
      PROVE  attempt'[b] = attempt[b]
    <2>1. attempt'[a].pc \in Calling \cup {"idle"}
        BY <1>1 DEF Begin, VerifyWrong, VerifyRight, VerifyUnavailable,
            FailCounted, Reset, Lose, Leave, Become, At, Idle, TypeOK, Calling
    <2>2. b # a
        BY <2>1 DEF Calling
    <2> QED
        BY <1>1, <2>2 DEF Begin, VerifyWrong, VerifyRight, VerifyUnavailable,
            FailCounted, Reset, Lose, Leave, Become, TypeOK
<1>2. ASSUME NEW a \in Attempts, CheckUnlocked(a)
      PROVE  \/ attempt'[b] = attempt[b]
             \/ attempt'[b].pc = "verifying" /\ CheckUnlocked(b)
    BY <1>2 DEF CheckUnlocked, Become, At, Idle, TypeOK
<1>3. ASSUME NEW a \in Attempts, CheckLocked(a) \/ FailLocked(a)
      PROVE  \/ attempt'[b] = attempt[b]
             \/ attempt'[b].pc = "refused" /\ (CheckLocked(b) \/ FailLocked(b))
    BY <1>3 DEF CheckLocked, FailLocked, Become, At, Idle, TypeOK
<1>4. ASSUME NEW a \in Attempts, GiveUp(a)
      PROVE  /\ attempt'[b].pc = attempt[b].pc
             /\ attempt'[b].time = attempt[b].time
             /\ attempt'[b].fresh = attempt[b].fresh
    BY <1>4 DEF GiveUp, TypeOK, Attempt
<1>5. CASE Restart \/ Evict
    BY <1>5 DEF Restart, Evict, Idle, At
<1>6. CASE Tick \/ UNCHANGED vars
    BY <1>6 DEF Tick, vars
<1> QED
    BY <1>1, <1>2, <1>3, <1>4, <1>5, <1>6 DEF Next

\* What setting a lock makes of the attempts.
LEMMA LockSlots ==
    ASSUME TypeOK, NEW a \in Attempts, FailLocks(a), NEW b \in Attempts
    PROVE  /\ b # a => attempt'[b].fresh = FALSE
           /\ b = a => attempt'[b] \in {At("refused", now + Lockout), Idle}
<1>1. CASE b # a
    <2>1. attempt'[b] = [attempt[b] EXCEPT !.fresh = FALSE]
        BY <1>1 DEF FailLocks
    <2>2. attempt[b] \in Attempt
        BY DEF TypeOK
    <2> QED
        BY <1>1, <2>1, <2>2 DEF Attempt
<1>2. CASE b = a
    BY <1>2 DEF FailLocks
<1> QED
    BY <1>1, <1>2

LEMMA LockKeepsOutStep == LoginInv /\ [Next]_vars => LockKeepsOut'
<1> SUFFICES ASSUME LoginInv, [Next]_vars, NEW b \in Attempts,
                    attempt'[b].pc = "verifying", InForce'
             PROVE  ~attempt'[b].fresh
    BY DEF LockKeepsOut
<1>0. TypeOK /\ Readings /\ LockConsistent /\ LockKeepsOut
    BY DEF LoginInv
<1>1. ASSUME NEW a \in Attempts, FailLocks(a) PROVE ~attempt'[b].fresh
    <2>1. b # a
        <3>1. b = a => attempt'[b] \in {At("refused", now + Lockout), Idle}
            BY <1>0, <1>1, LockSlots
        <3> QED
            BY <3>1 DEF At, Idle
    <2> QED
        BY <1>0, <1>1, <2>1, LockSlots
<1>2. CASE \A a \in Attempts : ~FailLocks(a)
    <2>1. InForce
        BY <1>0, <1>2, InForceSteps
    <2>2. ~CheckUnlocked(b)
        <3> SUFFICES ASSUME CheckUnlocked(b) PROVE FALSE
            OBVIOUS
        <3>1. /\ attempt[b].time \in Nat /\ attempt[b].time <= now
              /\ ~LockedAt(attempt[b].time)
            BY <1>0 DEF CheckUnlocked, Readings, Calling, TypeOK, Attempt
        <3> QED
            BY <1>0, <2>1, <3>1, NotInForce
    <2>3. /\ attempt'[b].pc = attempt[b].pc
          /\ attempt'[b].fresh = attempt[b].fresh
        BY <1>0, <1>2, <2>2, SlotSteps
    <2> QED
        BY <1>0, <2>1, <2>3 DEF LockKeepsOut
<1> QED
    BY <1>1, <1>2

LEMMA LockDelayStep == LoginInv /\ [Next]_vars => LockDelaySuffices'
<1> SUFFICES ASSUME LoginInv, [Next]_vars, NEW b \in Attempts,
                    attempt'[b].pc = "refused", attempt'[b].fresh
             PROVE  key'.locked_until <= attempt'[b].time
    BY DEF LockDelaySuffices
<1>0. TypeOK /\ Readings /\ LockConsistent /\ LockDelaySuffices
    BY DEF LoginInv
<1>1. /\ now \in Nat /\ attempt[b].time \in Nat /\ key.locked_until \in Nat
      /\ Lockout \in Nat
    BY <1>0, LoginAssumption DEF TypeOK, Attempt, Key
<1>2. ASSUME NEW a \in Attempts, FailLocks(a)
      PROVE  key'.locked_until <= attempt'[b].time
    <2>1. b = a
        BY <1>0, <1>2, LockSlots
    <2>2. attempt'[b].time = now + Lockout
        <3>1. attempt'[b] \in {At("refused", now + Lockout), Idle}
            BY <1>0, <1>2, <2>1, LockSlots
        <3> QED
            BY <3>1 DEF At, Idle
    <2>3. attempt[b].time <= now
        BY <1>0, <1>2, <2>1 DEF FailLocks, Readings, Calling
    <2>4. key'.locked_until = attempt[b].time + Lockout
        BY <1>2, <2>1 DEF FailLocks, LockedKey
    <2> QED
        BY <1>1, <2>2, <2>3, <2>4
<1>3. CASE \A a \in Attempts : ~FailLocks(a)
    <2>1. CASE CheckLocked(b) \/ FailLocked(b)
        <3>1. LockedAt(attempt[b].time) /\ key' = key /\ attempt[b].time <= now
            BY <1>0, <2>1 DEF CheckLocked, FailLocked, Readings, Calling
        <3>2. attempt'[b].time = now + LockDelay(attempt[b].time)
            BY <1>0, <2>1 DEF CheckLocked, FailLocked, Become, At, Idle, TypeOK
        <3>3. /\ LockDelay(attempt[b].time) \in Nat
              /\ Found.locked_until <= attempt[b].time + LockDelay(attempt[b].time)
            BY <1>0, <1>1, <3>1, LockDelayBound
        <3>4. Found.locked_until = key.locked_until
            BY <1>0, <1>1, <3>1, FoundType DEF LockedAt, Key
        <3> QED
            BY <1>1, <3>1, <3>2, <3>3, <3>4
    <2>2. CASE ~(CheckLocked(b) \/ FailLocked(b))
        <3>1. /\ attempt'[b].pc = attempt[b].pc
              /\ attempt'[b].time = attempt[b].time
              /\ attempt'[b].fresh = attempt[b].fresh
            BY <1>0, <1>3, <2>2, SlotSteps
        <3>2. key' = key \/ key'.locked_until = 0
            BY <1>0, <1>3, KeySteps DEF NoKey, CountingKey
        <3> QED
            BY <1>0, <1>1, <3>1, <3>2 DEF LockDelaySuffices
    <2> QED
        BY <2>1, <2>2
<1> QED
    BY <1>2, <1>3

LEMMA LoginStep == LoginInv /\ [Next]_vars => LoginInv'
BY TypeStep, ReadingsStep, LockConsistentStep, LockKeepsOutStep, LockDelayStep
DEF LoginInv

-----------------------------------------------------------------------------
(* The theorems.                                                           *)

\* The inductive invariant holds in every reachable state, for every policy,
\* delay and number of concurrent attempts.
THEOREM LoginInvariant == Spec => []LoginInv
<1>1. Init => LoginInv
    BY InitInv
<1>2. LoginInv /\ [Next]_vars => LoginInv'
    BY LoginStep
<1> QED
    BY <1>1, <1>2, PTL DEF Spec

\* Type correctness of the account lock.
THEOREM TypeCorrect == Spec => []TypeOK
<1>1. LoginInv => TypeOK
    BY DEF LoginInv
<1> QED
    BY <1>1, LoginInvariant, PTL

\* A hash is a lock or a count, never both, and lives as long as it should.
THEOREM LocksConsistent == Spec => []LockConsistent
<1>1. LoginInv => LockConsistent
    BY DEF LoginInv
<1> QED
    BY <1>1, LoginInvariant, PTL

\* A lock in force keeps out every attempt that is checked under it.
THEOREM LocksKeepOut == Spec => []LockKeepsOut
<1>1. LoginInv => LockKeepsOut
    BY DEF LoginInv
<1> QED
    BY <1>1, LoginInvariant, PTL

\* A client that obeys the Retry-After of a 429 comes back when the lock is over.
THEOREM LockDelayHolds == Spec => []LockDelaySuffices
<1>1. LoginInv => LockDelaySuffices
    BY DEF LoginInv
<1> QED
    BY <1>1, LoginInvariant, PTL

\* Checks and failures, however late, do not touch a lock in force.
THEOREM LocksImmutable == Spec => LockImmutable
<1> DEFINE Lift == InForce /\ key' # key =>
        /\ key' = NoKey
        /\ \/ losses' # losses
           \/ \E a \in Attempts :
                attempt[a].pc = "resetting" /\ attempt'[a].pc = "idle"
<1>1. LoginInv /\ [Next]_vars => [Lift]_vars
    <2> SUFFICES ASSUME LoginInv, [Next]_vars, InForce, key' # key
                 PROVE  /\ key' = NoKey
                        /\ \/ losses' # losses
                           \/ \E a \in Attempts :
                                attempt[a].pc = "resetting" /\ attempt'[a].pc = "idle"
        OBVIOUS
    <2>0. TypeOK /\ Readings
        BY DEF LoginInv
    <2>1. \A a \in Attempts : attempt[a].pc \in Calling => LockedAt(attempt[a].time)
        <3> SUFFICES ASSUME NEW a \in Attempts, attempt[a].pc \in Calling
                     PROVE  LockedAt(attempt[a].time)
            OBVIOUS
        <3>1. attempt[a].time \in Nat /\ attempt[a].time <= now
            BY <2>0 DEF Readings, TypeOK, Attempt
        <3> QED
            BY <2>0, <3>1, NotInForce
    <2>2. ASSUME NEW a \in Attempts,
                 CheckUnlocked(a) \/ FailCounted(a) \/ FailLocks(a)
          PROVE  FALSE
        BY <2>1, <2>2 DEF CheckUnlocked, FailCounted, FailLocks, Calling
    <2>3. CASE Restart \/ Evict
        BY <2>0, <2>3 DEF Restart, Evict, TypeOK
    <2>4. ASSUME NEW a \in Attempts, Reset(a)
          PROVE  /\ key' = NoKey
                 /\ attempt[a].pc = "resetting" /\ attempt'[a].pc = "idle"
        BY <2>0, <2>4 DEF Reset, Become, Idle, At, TypeOK
    <2>5. \/ Restart \/ Evict
          \/ \E a \in Attempts : Reset(a)
          \/ \E a \in Attempts : CheckUnlocked(a) \/ FailCounted(a) \/ FailLocks(a)
        BY DEF Next, vars, Begin, CheckLocked, VerifyWrong, VerifyRight,
            VerifyUnavailable, FailLocked, GiveUp, Lose, Leave, Tick
    <2> QED
        BY <2>2, <2>3, <2>4, <2>5
<1> QED
    BY <1>1, LoginInvariant, PTL DEF Spec, LockImmutable

=============================================================================
