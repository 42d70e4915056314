--------------------------- MODULE LibraryProofs ---------------------------
(***************************************************************************)
(* Proofs about the shared libraries of pkg/: the login limiter, for every *)
(* number of addresses, users and threads and every setting of the limits, *)
(* the ID generator, for every set of machines and sequence width, and the *)
(* RBAC decision, for all paths, patterns, users and roles.                *)
(***************************************************************************)
EXTENDS LoginLimiter, Snowflake, RbacDecision, FiniteSetTheorems, SequenceTheorems,
        WellFoundedInduction, TLAPS

\* Recording a failure yields an attempt, and never shortens a lock.
LEMMA RecordKeyFacts ==
  ASSUME now \in Nat, NEW a \in Attempt
  PROVE  /\ RecordKey(a) \in Attempt
         /\ a.count + 1 >= MaxFail =>
              RecordKey(a).locked = TRUE /\ RecordKey(a).lockUntil = now + Lockout
         /\ a.count + 1 < MaxFail =>
              RecordKey(a).locked = a.locked /\ RecordKey(a).lockUntil = a.lockUntil
<1> /\ MaxFail \in Nat /\ Lockout \in Nat /\ now + Lockout \in Nat
    /\ a.count \in Nat /\ a.count + 1 \in Nat
  BY LimitsAssumption DEF Attempt
<1>1. CASE a.count + 1 >= MaxFail
  <2>1. RecordKey(a) = [count |-> 0, lastFail |-> now, locked |-> TRUE, lockUntil |-> now + Lockout]
    BY <1>1 DEF RecordKey
  <2>2. RecordKey(a) \in Attempt
    BY <2>1 DEF Attempt
  <2>3. RecordKey(a).locked = TRUE /\ RecordKey(a).lockUntil = now + Lockout
    BY <2>1
  <2>4. QED BY <1>1, <2>2, <2>3
<1>2. CASE a.count + 1 < MaxFail
  <2>1. RecordKey(a) = [a EXCEPT !.count = @ + 1, !.lastFail = now]
    BY <1>2 DEF RecordKey
  <2>2. RecordKey(a) \in Attempt
    BY <2>1 DEF Attempt
  <2>3. RecordKey(a).locked = a.locked /\ RecordKey(a).lockUntil = a.lockUntil
    BY <2>1 DEF Attempt
  <2>4. QED BY <1>2, <2>2, <2>3
<1>3. a.count + 1 >= MaxFail \/ a.count + 1 < MaxFail
  OBVIOUS
<1>4. QED BY <1>1, <1>2, <1>3, Zenon

\* The limiter's variables are well formed in every reachable state.
LEMMA LimiterTypeCorrect == Spec => []LimiterType
<1>1. Init => LimiterType
  BY DEF Init, LimiterType, Attempt, NoAttempt, NoRequest
<1>2. LimiterType /\ [Next]_vars => LimiterType'
  <2> SUFFICES ASSUME LimiterType, [Next]_vars PROVE LimiterType'
    OBVIOUS
  <2>1. NoAttempt \in Attempt /\ NoRequest \in [pc : {"idle", "verify"}, keys : SUBSET Keys]
    BY DEF NoAttempt, NoRequest, Attempt
  <2>2. ASSUME NEW t \in Threads, Begin(t) PROVE LimiterType'
    <3>1. PICK i \in Ips, u \in Usernames :
            req' = [req EXCEPT ![t] = [pc |-> "verify", keys |-> KeysOf(i, u)]]
      BY <2>2 DEF Begin
    <3>2. KeysOf(i, u) \in SUBSET Keys
      BY DEF KeysOf, Keys
    <3>3. QED BY <2>2, <3>1, <3>2 DEF Begin, LimiterType
  <2>3. ASSUME NEW t \in Threads, RecordFailure(t) PROVE LimiterType'
    BY <2>1, <2>3, RecordKeyFacts DEF RecordFailure, LimiterType
  <2>4. ASSUME NEW t \in Threads, RecordSuccess(t) PROVE LimiterType'
    BY <2>1, <2>4 DEF RecordSuccess, LimiterType
  <2>5. ASSUME NEW t \in Threads, AccountDisabled(t) PROVE LimiterType'
    BY <2>1, <2>5 DEF AccountDisabled, LimiterType
  <2>6. CASE Cleanup
    BY <2>1, <2>6 DEF Cleanup, LimiterType
  <2>7. CASE Tick
    BY <2>7 DEF Tick, LimiterType
  <2>8. CASE UNCHANGED vars
    BY <2>8 DEF vars, LimiterType
  <2>9. QED BY <2>2, <2>3, <2>4, <2>5, <2>6, <2>7, <2>8 DEF Next, Finish
<1>3. QED BY <1>1, <1>2, PTL DEF Spec

-----------------------------------------------------------------------------
(* A lock lasts.  What makes it inductive is that no lock lies in the       *)
(* future, so that a lock set now is the last to expire.                    *)

KeyInv(k) ==
  /\ lockedAt[k] # NotLocked => lockedAt[k] <= now
  /\ lockedAt[k] # NotLocked /\ now < lockedAt[k] + Lockout =>
       /\ attempts[k].locked /\ now < attempts[k].lockUntil
       /\ attempts[k].lockUntil >= lockedAt[k] + Lockout

NoFutureLock == \A k \in Keys : lockedAt[k] # NotLocked => lockedAt[k] <= now

\* Neither cleanup nor failures nor other keys' logins end a lock early.
THEOREM LockLastsCorrect == Spec => []LockLasts
<1>1. Init => NoFutureLock /\ LockLasts
  BY DEF Init, NoFutureLock, LockLasts, NotLocked
<1>2. LimiterType /\ NoFutureLock /\ LockLasts /\ [Next]_vars => (NoFutureLock /\ LockLasts)'
  <2> SUFFICES ASSUME LimiterType, NoFutureLock, LockLasts, [Next]_vars,
                      NEW k \in Keys
               PROVE  KeyInv(k)'
    BY DEF NoFutureLock, LockLasts, LockedNow, KeyInv
  <2>1. /\ now \in Nat /\ attempts[k] \in Attempt
        /\ lockedAt[k] \in Nat \cup {NotLocked} /\ Lockout \in Nat
    BY LimitsAssumption DEF LimiterType
  <2>2. KeyInv(k)
    BY DEF NoFutureLock, LockLasts, LockedNow, KeyInv
  <2> USE DEF KeyInv
  <2>3. ASSUME UNCHANGED <<attempts, now, lockedAt>>
        PROVE  KeyInv(k)'
    BY <2>2, <2>3
  <2>4. CASE \E t \in Threads : Begin(t) \/ AccountDisabled(t)
    BY <2>3, <2>4 DEF Begin, AccountDisabled
  <2>5. ASSUME NEW t \in Threads, RecordFailure(t)
        PROVE  KeyInv(k)'
    <3>1. attempts[k].count \in Nat /\ MaxFail \in Nat /\ Lockout > 0 /\ now' = now
      BY <2>1, <2>5, LimitsAssumption DEF Attempt, RecordFailure
    <3>2. CASE k \in req[t].keys /\ attempts[k].count + 1 >= MaxFail
      <4>1. lockedAt'[k] = now /\ attempts'[k] = RecordKey(attempts[k])
        BY <2>5, <3>2 DEF RecordFailure
      <4>2. attempts'[k].locked = TRUE /\ attempts'[k].lockUntil = now + Lockout
        BY <2>1, <3>2, <4>1, RecordKeyFacts
      <4>3. QED BY <2>1, <3>1, <4>1, <4>2
    <3>3. CASE k \in req[t].keys /\ attempts[k].count + 1 < MaxFail
      <4>1. lockedAt'[k] = lockedAt[k] /\ attempts'[k] = RecordKey(attempts[k])
        BY <2>5, <3>1, <3>3 DEF RecordFailure
      <4>2. QED BY <2>1, <2>2, <3>1, <3>3, <4>1, RecordKeyFacts
    <3>4. CASE k \notin req[t].keys
      <4>1. lockedAt'[k] = lockedAt[k] /\ attempts'[k] = attempts[k]
        BY <2>5, <3>4 DEF RecordFailure
      <4>2. QED BY <2>2, <3>1, <4>1
    <3>5. QED BY <3>1, <3>2, <3>3, <3>4
  <2>6. ASSUME NEW t \in Threads, RecordSuccess(t)
        PROVE  KeyInv(k)'
    <3>1. CASE k \in req[t].keys
      BY <2>6, <3>1 DEF RecordSuccess
    <3>2. CASE k \notin req[t].keys
      <4>1. lockedAt'[k] = lockedAt[k] /\ attempts'[k] = attempts[k] /\ now' = now
        BY <2>6, <3>2 DEF RecordSuccess
      <4>2. QED BY <2>2, <4>1
    <3>3. QED BY <3>1, <3>2
  <2>7. CASE Cleanup
    <3>1. lockedAt'[k] = lockedAt[k] /\ now' = now
      BY <2>7 DEF Cleanup
    <3>2. CASE ~Expired(attempts[k])
      <4>1. attempts'[k] = attempts[k]
        BY <2>7, <3>2 DEF Cleanup
      <4>2. QED BY <2>2, <3>1, <4>1
    <3>3. CASE Expired(attempts[k])
      BY <2>1, <2>2, <3>1, <3>3 DEF Expired, Attempt
    <3>4. QED BY <3>2, <3>3
  <2>8. CASE Tick
    <3>1. lockedAt'[k] = lockedAt[k] /\ now' = now + 1 /\ attempts'[k] = attempts[k]
      BY <2>8 DEF Tick
    <3>2. attempts[k].lockUntil \in Nat
      BY <2>1 DEF Attempt
    <3>3. QED BY <2>1, <2>2, <3>1, <3>2
  <2>9. CASE UNCHANGED vars
    BY <2>3, <2>9 DEF vars
  <2>10. QED BY <2>4, <2>5, <2>6, <2>7, <2>8, <2>9 DEF Next, Finish
<1>3. QED BY <1>1, <1>2, LimiterTypeCorrect, PTL DEF Spec

-----------------------------------------------------------------------------
(* How many guesses a key takes.  While a key is locked, the failures and   *)
(* the logins under way that may still add one are bounded together; when   *)
(* the lock expires, every recent failure is younger than the lock, and so  *)
(* was counted; when cleanup forgets the count, it was below the limit.     *)

Pending(k) == {t \in Threads : req[t].pc = "verify" /\ k \in req[t].keys}
SinceLock(k) == {f \in fails[k] : f.at + Lockout > attempts[k].lockUntil}

MostGuesses == (MaxFail - 1) + MaxFail + (Cardinality(Threads) - 1)

Remembered(k) ==
  /\ IsFiniteSet(fails[k])
  /\ \A f \in fails[k] : f.at \in Nat /\ f.at <= now /\ now < f.at + Lockout

Counted(k) ==
  /\ attempts[k].count < MaxFail
  /\ ~attempts[k].locked =>
       /\ Cardinality(fails[k]) <= attempts[k].count + (MaxFail - 1)
       /\ attempts[k].count > 0 => \A f \in fails[k] : f.at <= attempts[k].lastFail
  /\ attempts[k].locked => Cardinality(SinceLock(k)) <= attempts[k].count

LockCounted(k) ==
  LockedNow(k) => Cardinality(fails[k]) + Cardinality(Pending(k)) <= MostGuesses

GuessInv == \A k \in Keys : Remembered(k) /\ Counted(k) /\ LockCounted(k)

\* RecordKey, the counter's part.
LEMMA RecordKeyCounts ==
  ASSUME now \in Nat, NEW a \in Attempt, a.count < MaxFail
  PROVE  /\ a.count + 1 >= MaxFail =>
              /\ a.count + 1 = MaxFail /\ RecordKey(a).count = 0
              /\ RecordKey(a).locked = TRUE /\ RecordKey(a).lockUntil = now + Lockout
         /\ a.count + 1 < MaxFail =>
              /\ RecordKey(a).count = a.count + 1 /\ RecordKey(a).lastFail = now
              /\ RecordKey(a).locked = a.locked /\ RecordKey(a).lockUntil = a.lockUntil
<1>1. CASE a.count + 1 >= MaxFail
  <2>1. RecordKey(a) = [count |-> 0, lastFail |-> now, locked |-> TRUE, lockUntil |-> now + Lockout]
    BY <1>1 DEF RecordKey
  <2>2. a.count + 1 = MaxFail
    <3>1. a.count \in Nat /\ MaxFail \in Nat
      BY LimitsAssumption DEF Attempt
    <3>2. \A m, n \in Nat : m + 1 >= n /\ m < n => m + 1 = n
      OBVIOUS
    <3>3. QED BY <1>1, <3>1, <3>2
  <2>3. ~(a.count + 1 < MaxFail)
    <3>1. MaxFail \in Nat
      BY LimitsAssumption
    <3>2. \A n \in Nat : ~(n < n)
      OBVIOUS
    <3>3. QED BY <2>2, <3>1, <3>2
  <2>4. /\ RecordKey(a).count = 0 /\ RecordKey(a).locked = TRUE
        /\ RecordKey(a).lockUntil = now + Lockout
    BY <2>1
  <2>5. QED BY <2>2, <2>3, <2>4, Zenon
<1>2. CASE a.count + 1 < MaxFail
  <2>1. RecordKey(a) = [a EXCEPT !.count = @ + 1, !.lastFail = now]
    BY <1>2, LimitsAssumption DEF RecordKey, Attempt
  <2>2. ~(a.count + 1 >= MaxFail)
    BY <1>2, LimitsAssumption DEF Attempt
  <2>3. QED BY <2>1, <2>2 DEF Attempt
<1>3. a.count \in Nat /\ MaxFail \in Nat
  BY LimitsAssumption DEF Attempt
<1>4. QED BY <1>1, <1>2, <1>3

\* The logins under way are at most the threads, and one fewer without t.
LEMMA PendingBound ==
  ASSUME NEW k
  PROVE  /\ IsFiniteSet(Pending(k)) /\ Cardinality(Pending(k)) \in Nat
         /\ Cardinality(Threads) \in Nat /\ Cardinality(Threads) > 0
<1>1. Pending(k) \subseteq Threads
  BY DEF Pending
<1>2. QED
  BY <1>1, FS_Subset, FS_CardinalityType, FS_EmptySet, ThreadsAssumption

\* A login that is over is one less of those it kept a key for.
LEMMA FinishPending ==
  ASSUME LimiterType, NEW t \in Threads, req[t].pc = "verify",
         req' = [req EXCEPT ![t] = NoRequest], NEW k
  PROVE  /\ k \in req[t].keys => /\ Cardinality(Pending(k))' = Cardinality(Pending(k)) - 1
                                 /\ Cardinality(Pending(k))' <= Cardinality(Threads) - 1
         /\ k \notin req[t].keys => Cardinality(Pending(k))' = Cardinality(Pending(k))
         /\ Cardinality(Pending(k))' <= Cardinality(Pending(k))
         /\ Cardinality(Pending(k))' \in Nat
<1>1. req'[t].pc = "idle" /\ \A v \in Threads : v # t => req'[v] = req[v]
  BY DEF LimiterType, NoRequest
<1>2. IsFiniteSet(Pending(k)) /\ Cardinality(Pending(k)) \in Nat
  BY PendingBound
<1>3. CASE k \in req[t].keys
  <2>1. Pending(k)' = Pending(k) \ {t} /\ t \in Pending(k) /\ Pending(k)' \subseteq Threads \ {t}
    BY <1>1, <1>3 DEF Pending
  <2>2. Cardinality(Pending(k))' = Cardinality(Pending(k)) - 1
    BY <1>2, <2>1, FS_RemoveElement
  <2>3. IsFiniteSet(Threads \ {t}) /\ Cardinality(Threads \ {t}) = Cardinality(Threads) - 1
    BY ThreadsAssumption, FS_RemoveElement
  <2>4. Cardinality(Pending(k))' <= Cardinality(Threads \ {t})
    BY <2>1, <2>3, FS_Subset
  <2>5. Cardinality(Pending(k)') \in Nat
    BY <2>1, <2>3, FS_Subset, FS_CardinalityType
  <2>6. QED BY <1>2, <1>3, <2>2, <2>3, <2>4, <2>5
<1>4. CASE k \notin req[t].keys
  <2>1. Pending(k)' = Pending(k)
    BY <1>1, <1>4 DEF Pending
  <2>2. QED BY <1>2, <1>4, <2>1
<1>5. QED BY <1>3, <1>4

\* Once a lock has expired, every recent failure is one since the lock.
LEMMA ExpiredLock ==
  ASSUME LimiterType, NEW k \in Keys, Remembered(k), Counted(k), ~LockedNow(k)
  PROVE  Cardinality(fails[k]) <= attempts[k].count + (MaxFail - 1)
<1>1. /\ attempts[k].count \in Nat /\ attempts[k].lockUntil \in Nat /\ now \in Nat
      /\ MaxFail \in Nat /\ MaxFail > 0 /\ Lockout \in Nat
  BY LimitsAssumption DEF LimiterType, Attempt
<1>2. CASE attempts[k].locked
  <2>1. now >= attempts[k].lockUntil
    BY <1>1, <1>2 DEF LockedNow
  <2>2. SinceLock(k) = fails[k]
    BY <1>1, <2>1 DEF SinceLock, Remembered
  <2>3. Cardinality(fails[k]) <= attempts[k].count /\ Cardinality(fails[k]) \in Nat
    BY <1>2, <2>2, FS_CardinalityType DEF Counted, Remembered
  <2>4. QED BY <1>1, <2>3
<1>3. QED BY <1>2 DEF Counted

\* What the variables of a key are.
LEMMA KeyType ==
  ASSUME LimiterType, NEW k \in Keys, Remembered(k)
  PROVE  /\ attempts[k] \in Attempt /\ attempts[k].count \in Nat
         /\ attempts[k].lockUntil \in Nat /\ attempts[k].lastFail \in Nat
         /\ attempts[k].locked \in BOOLEAN
         /\ now \in Nat /\ MaxFail \in Nat /\ MaxFail > 0 /\ Lockout \in Nat /\ Lockout > 0
         /\ Idle \in Nat /\ Lockout <= Idle
         /\ Cardinality(fails[k]) \in Nat
         /\ IsFiniteSet(SinceLock(k)) /\ Cardinality(SinceLock(k)) \in Nat
<1>1. SinceLock(k) \subseteq fails[k] /\ IsFiniteSet(fails[k])
  BY DEF SinceLock, Remembered
<1>2. IsFiniteSet(SinceLock(k))
  BY <1>1, FS_Subset
<1>3. Cardinality(fails[k]) \in Nat /\ Cardinality(SinceLock(k)) \in Nat
  BY <1>1, <1>2, FS_CardinalityType
<1>4. attempts[k] \in Attempt /\ now \in Nat
  BY DEF LimiterType
<1>5. /\ MaxFail \in Nat /\ MaxFail > 0 /\ Lockout \in Nat /\ Lockout > 0
      /\ Idle \in Nat /\ Lockout <= Idle
  BY LimitsAssumption
<1>6. /\ attempts[k].count \in Nat /\ attempts[k].locked \in BOOLEAN
      /\ attempts[k].lockUntil \in Nat /\ attempts[k].lastFail \in Nat
  BY <1>4 DEF Attempt
<1>7. QED BY <1>2, <1>3, <1>4, <1>5, <1>6

LEMMA OneMore ==
  ASSUME NEW x, NEW S, IsFiniteSet(S)
  PROVE  /\ IsFiniteSet(S \cup {x}) /\ Cardinality(S \cup {x}) \in Nat
         /\ Cardinality(S \cup {x}) <= Cardinality(S) + 1
<1>1. Cardinality(S) \in Nat
  BY FS_CardinalityType
<1>2. CASE x \in S
  <2>1. S \cup {x} = S
    BY <1>2
  <2>2. \A n \in Nat : n <= n + 1
    OBVIOUS
  <2>3. QED BY <1>1, <2>1, <2>2
<1>3. CASE x \notin S
  BY <1>1, <1>3, FS_AddElement
<1>4. QED BY <1>2, <1>3

\* A failure is one more for each key of the login.
LEMMA FailureCounted ==
  ASSUME LimiterType, NEW t \in Threads, RecordFailure(t), NEW k \in Keys, k \in req[t].keys,
         Remembered(k), Counted(k), LockCounted(k)
  PROVE  (Remembered(k) /\ Counted(k) /\ LockCounted(k))'
<1> DEFINE F == fails[k]
           a == attempts[k]
           c == attempts[k].count
<1>1. /\ fails'[k] = F \cup {Failure(k)} /\ attempts'[k] = RecordKey(a) /\ now' = now
      /\ req[t].pc = "verify" /\ req' = [req EXCEPT ![t] = NoRequest]
  BY DEF RecordFailure
<1>2. /\ a \in Attempt /\ c \in Nat /\ c < MaxFail /\ a.lockUntil \in Nat /\ a.locked \in BOOLEAN
      /\ now \in Nat /\ MaxFail \in Nat /\ MaxFail > 0 /\ Lockout \in Nat /\ Lockout > 0
      /\ IsFiniteSet(F) /\ Cardinality(F) \in Nat
      /\ IsFiniteSet(SinceLock(k)) /\ Cardinality(SinceLock(k)) \in Nat
  BY KeyType DEF Remembered, Counted
<1>3. Failure(k).at = now
  BY DEF Failure
<1>4. \A S : IsFiniteSet(S) =>
        /\ IsFiniteSet(S \cup {Failure(k)})
        /\ Cardinality(S \cup {Failure(k)}) <= Cardinality(S) + 1
        /\ Cardinality(S \cup {Failure(k)}) \in Nat
  BY OneMore
<1>5. /\ IsFiniteSet(fails'[k]) /\ Cardinality(fails'[k]) <= Cardinality(F) + 1
      /\ Cardinality(fails'[k]) \in Nat
  BY <1>1, <1>2, <1>4
<1>6. Remembered(k)'
  BY <1>1, <1>2, <1>3, <1>5 DEF Remembered
<1>7. /\ Cardinality(Pending(k))' = Cardinality(Pending(k)) - 1
      /\ Cardinality(Pending(k))' <= Cardinality(Threads) - 1
      /\ Cardinality(Pending(k)) \in Nat /\ Cardinality(Threads) \in Nat
  BY <1>1, FinishPending, PendingBound
<1>8. CASE c + 1 >= MaxFail
  <2>1. /\ c + 1 = MaxFail /\ attempts'[k].count = 0
        /\ attempts'[k].locked = TRUE /\ attempts'[k].lockUntil = now + Lockout
    BY <1>1, <1>2, <1>8, RecordKeyCounts
  <2>2. SinceLock(k)' = {}
    <3>1. \A f \in fails'[k] : f.at <= now /\ f.at \in Nat
      BY <1>1, <1>6 DEF Remembered
    <3>2. \A f \in fails'[k] : ~(f.at + Lockout > attempts'[k].lockUntil)
      BY <1>2, <2>1, <3>1
    <3>3. QED BY <3>2 DEF SinceLock
  <2>3. Counted(k)'
    <3>1. Cardinality(SinceLock(k)') = 0
      BY <2>2, FS_EmptySet
    <3>2. 0 <= 0 /\ 0 < MaxFail
      BY <1>2
    <3>3. Cardinality(SinceLock(k))' <= attempts'[k].count /\ attempts'[k].count < MaxFail
      BY <2>1, <3>1, <3>2
    <3>4. QED BY <2>1, <3>3 DEF Counted
  <2>4. Cardinality(fails'[k]) + Cardinality(Pending(k))' <= MostGuesses
    <3>1. CASE LockedNow(k)
      <4>1. Cardinality(F) + Cardinality(Pending(k)) <= MostGuesses
        BY <3>1 DEF LockCounted
      <4>2. \A m, n, p, q \in Nat, b \in Int : m + n <= b /\ p <= m + 1 /\ q = n - 1 => p + q <= b
        OBVIOUS
      <4>3. MostGuesses \in Int
        BY <1>2, <1>7 DEF MostGuesses
      <4>4. Cardinality(Pending(k))' \in Nat
        BY <1>1, FinishPending
      <4>5. QED BY <1>2, <1>5, <1>7, <4>1, <4>2, <4>3, <4>4
    <3>2. CASE ~LockedNow(k)
      <4>1. Cardinality(F) <= c + (MaxFail - 1)
        BY <3>2, ExpiredLock
      <4>2. QED BY <1>2, <1>5, <1>7, <2>1, <4>1 DEF MostGuesses
    <3>3. QED BY <3>1, <3>2
  <2>5. QED BY <1>6, <2>3, <2>4 DEF LockCounted
<1>9. CASE c + 1 < MaxFail
  <2>1. /\ attempts'[k].count = c + 1 /\ attempts'[k].lastFail = now
        /\ attempts'[k].locked = a.locked /\ attempts'[k].lockUntil = a.lockUntil
    BY <1>1, <1>2, <1>9, RecordKeyCounts
  <2>2. Cardinality(SinceLock(k))' <= Cardinality(SinceLock(k)) + 1
    <3>1. SinceLock(k)' \subseteq SinceLock(k) \cup {Failure(k)}
      BY <1>1, <2>1 DEF SinceLock
    <3>2. Cardinality(SinceLock(k)') <= Cardinality(SinceLock(k) \cup {Failure(k)})
      BY <1>2, <1>4, <3>1, FS_Subset
    <3>3. IsFiniteSet(SinceLock(k)')
      BY <1>2, <1>4, <3>1, FS_Subset
    <3>4. Cardinality(SinceLock(k)') \in Nat
      BY <3>3, FS_CardinalityType
    <3>5. QED BY <1>2, <1>4, <3>2, <3>4
  <2>3. a.locked => Cardinality(SinceLock(k))' <= c + 1
    <3>1. IsFiniteSet(SinceLock(k)')
      BY <1>5, FS_Subset DEF SinceLock
    <3>2. Cardinality(SinceLock(k)') \in Nat
      BY <3>1, FS_CardinalityType
    <3>3. QED BY <1>2, <2>2, <3>2 DEF Counted
  <2>4. ~a.locked => Cardinality(fails'[k]) <= c + 1 + (MaxFail - 1)
    BY <1>2, <1>5 DEF Counted
  <2>5. \A f \in fails'[k] : f.at <= now
    BY <1>1, <1>6 DEF Remembered
  <2>6. Counted(k)'
    BY <1>9, <2>1, <2>3, <2>4, <2>5 DEF Counted
  <2>7. LockCounted(k)'
    <3>1. LockedNow(k)' => LockedNow(k)
      BY <1>1, <2>1 DEF LockedNow
    <3>2. LockedNow(k) => Cardinality(F) + Cardinality(Pending(k)) <= MostGuesses
      BY DEF LockCounted
    <3>3. MostGuesses \in Int
      BY <1>2, <1>7 DEF MostGuesses
    <3>4. \A m, n, p \in Nat, b \in Int : m + n <= b /\ p <= m + 1 => p + (n - 1) <= b
      OBVIOUS
    <3>5. QED BY <1>2, <1>5, <1>7, <3>1, <3>2, <3>3, <3>4 DEF LockCounted
  <2>8. QED BY <1>6, <2>6, <2>7
<1>10. QED BY <1>2, <1>8, <1>9

\* A step that leaves a key's attempt and failures, with no login more under way.
LEMMA KeyKept ==
  ASSUME LimiterType, NEW k \in Keys, Remembered(k), Counted(k), LockCounted(k),
         attempts'[k] = attempts[k], fails'[k] = fails[k], now' = now,
         LockedNow(k) => Cardinality(Pending(k))' <= Cardinality(Pending(k)),
         Cardinality(Pending(k))' \in Nat
  PROVE  (Remembered(k) /\ Counted(k) /\ LockCounted(k))'
<1>1. Remembered(k)'
  BY DEF Remembered
<1>2. Counted(k)'
  BY DEF Counted, SinceLock
<1>3. ASSUME LockedNow(k)'
      PROVE  Cardinality(fails'[k]) + Cardinality(Pending(k))' <= MostGuesses
  <2>1. LockedNow(k)
    BY <1>3 DEF LockedNow
  <2>2. Cardinality(fails[k]) + Cardinality(Pending(k)) <= MostGuesses
    BY <2>1 DEF LockCounted
  <2>3. /\ Cardinality(fails[k]) \in Nat /\ Cardinality(Pending(k)) \in Nat
        /\ MaxFail \in Nat /\ Cardinality(Threads) \in Nat
    BY KeyType, PendingBound
  <2>4. MostGuesses \in Int
    BY <2>3 DEF MostGuesses
  <2>5. \A m, n, p \in Nat, b \in Int : m + n <= b /\ p <= n => m + p <= b
    OBVIOUS
  <2>6. QED BY <2>1, <2>2, <2>3, <2>4, <2>5
<1>4. QED BY <1>1, <1>2, <1>3 DEF LockCounted

\* What clean-up forgets was counted, and less than the limit; an attempt that
\* is idle has no recent failure.
LEMMA CleanupCounted ==
  ASSUME LimiterType, Cleanup, NEW k \in Keys, Remembered(k), Counted(k), LockCounted(k)
  PROVE  (Remembered(k) /\ Counted(k) /\ LockCounted(k))'
<1>1. /\ fails'[k] = fails[k] /\ now' = now /\ Pending(k)' = Pending(k)
      /\ attempts'[k] = IF Expired(attempts[k]) THEN NoAttempt ELSE attempts[k]
  BY DEF Cleanup, Pending
<1>2. /\ attempts[k].count \in Nat /\ attempts[k].lockUntil \in Nat /\ attempts[k].lastFail \in Nat
      /\ now \in Nat /\ MaxFail \in Nat /\ MaxFail > 0 /\ Lockout \in Nat
      /\ Idle \in Nat /\ Lockout <= Idle /\ Cardinality(fails[k]) \in Nat
  BY KeyType
<1>3. CASE ~Expired(attempts[k])
  BY <1>1, <1>3, PendingBound, KeyKept
<1>4. CASE Expired(attempts[k])
  <2>1. Cardinality(fails[k]) <= MaxFail - 1
    <3>1. CASE attempts[k].locked
      <4>1. now >= attempts[k].lockUntil
        BY <1>2, <1>4, <3>1 DEF Expired
      <4>2. SinceLock(k) = fails[k]
        BY <1>2, <4>1 DEF SinceLock, Remembered
      <4>3. Cardinality(fails[k]) <= attempts[k].count /\ attempts[k].count < MaxFail
        BY <3>1, <4>2 DEF Counted
      <4>4. QED BY <1>2, <4>3
    <3>2. CASE ~attempts[k].locked /\ attempts[k].count = 0
      BY <1>2, <3>2 DEF Counted
    <3>3. CASE ~attempts[k].locked /\ attempts[k].count > 0
      <4>1. now - attempts[k].lastFail > Idle
        BY <1>4, <3>3 DEF Expired
      <4>2. \A f \in fails[k] : FALSE
        BY <1>2, <3>3, <4>1 DEF Counted, Remembered
      <4>3. Cardinality(fails[k]) = 0
        BY <4>2, FS_EmptySet
      <4>4. QED BY <1>2, <4>3
    <3>4. QED BY <1>2, <3>1, <3>2, <3>3
  <2>2. /\ attempts'[k].count = 0 /\ attempts'[k].locked = FALSE
        /\ LockedNow(k)' = FALSE
    BY <1>1, <1>4 DEF NoAttempt, LockedNow
  <2>3. Cardinality(fails'[k]) <= 0 + (MaxFail - 1) /\ 0 < MaxFail /\ ~(0 > 0)
    BY <1>1, <1>2, <2>1
  <2>4. Counted(k)'
    BY <2>2, <2>3 DEF Counted
  <2>5. Remembered(k)'
    BY <1>1 DEF Remembered
  <2>6. QED BY <2>2, <2>4, <2>5 DEF LockCounted
<1>5. QED BY <1>3, <1>4

\* Time passes: failures leave the history, and none joins it.
LEMMA TickCounted ==
  ASSUME LimiterType, Tick, NEW k \in Keys, Remembered(k), Counted(k), LockCounted(k)
  PROVE  (Remembered(k) /\ Counted(k) /\ LockCounted(k))'
<1>1. /\ fails'[k] = {f \in fails[k] : now' - f.at < Lockout} /\ now' = now + 1
      /\ Pending(k)' = Pending(k) /\ attempts'[k] = attempts[k]
  BY DEF Tick, Pending
<1>2. /\ attempts[k].count \in Nat /\ attempts[k].lockUntil \in Nat
      /\ now \in Nat /\ MaxFail \in Nat /\ Lockout \in Nat
      /\ IsFiniteSet(fails[k]) /\ Cardinality(fails[k]) \in Nat
      /\ IsFiniteSet(SinceLock(k)) /\ Cardinality(SinceLock(k)) \in Nat
      /\ Cardinality(Pending(k)) \in Nat /\ Cardinality(Threads) \in Nat
  BY KeyType, PendingBound DEF Remembered
<1>3. /\ IsFiniteSet(fails'[k]) /\ Cardinality(fails'[k]) <= Cardinality(fails[k])
      /\ Cardinality(fails'[k]) \in Nat
  <2>1. fails'[k] \subseteq fails[k]
    BY <1>1
  <2>2. QED BY <1>2, <2>1, FS_Subset, FS_CardinalityType
<1>4. Cardinality(SinceLock(k))' <= Cardinality(SinceLock(k)) /\ Cardinality(SinceLock(k))' \in Nat
  <2>1. SinceLock(k)' \subseteq SinceLock(k)
    BY <1>1 DEF SinceLock
  <2>2. QED BY <1>2, <2>1, FS_Subset, FS_CardinalityType
<1>5. Remembered(k)'
  <2>1. ASSUME NEW f \in fails'[k]
        PROVE  f.at \in Nat /\ f.at <= now' /\ now' < f.at + Lockout
    <3>1. f \in fails[k] /\ now' - f.at < Lockout
      BY <1>1
    <3>2. f.at \in Nat /\ f.at <= now
      BY <3>1 DEF Remembered
    <3>3. QED BY <1>1, <1>2, <3>1, <3>2
  <2>2. QED BY <1>3, <2>1 DEF Remembered
<1>6. Counted(k)'
  <2>1. ~attempts[k].locked => Cardinality(fails'[k]) <= attempts[k].count + (MaxFail - 1)
    BY <1>2, <1>3 DEF Counted
  <2>2. attempts[k].locked => Cardinality(SinceLock(k))' <= attempts[k].count
    BY <1>2, <1>4 DEF Counted
  <2>3. QED BY <1>1, <2>1, <2>2 DEF Counted
<1>7. LockCounted(k)'
  <2>1. LockedNow(k)' => LockedNow(k)
    BY <1>1, <1>2 DEF LockedNow
  <2>2. MostGuesses \in Int
    BY <1>2 DEF MostGuesses
  <2>3. \A m, n, p \in Nat, b \in Int : m + n <= b /\ p <= m => p + n <= b
    OBVIOUS
  <2>4. LockedNow(k) => Cardinality(fails[k]) + Cardinality(Pending(k)) <= MostGuesses
    BY DEF LockCounted
  <2>5. LockedNow(k) => Cardinality(fails'[k]) + Cardinality(Pending(k)) <= MostGuesses
    BY <1>2, <1>3, <2>2, <2>3, <2>4
  <2>6. QED BY <1>1, <2>1, <2>5 DEF LockCounted
<1>8. QED BY <1>5, <1>6, <1>7

\* A login that starts is not for a key that is locked.
LEMMA BeginCounted ==
  ASSUME LimiterType, NEW t \in Threads, Begin(t), NEW k \in Keys,
         Remembered(k), Counted(k), LockCounted(k)
  PROVE  (Remembered(k) /\ Counted(k) /\ LockCounted(k))'
<1>1. PICK i \in Ips, u \in Usernames :
        /\ Check(KeysOf(i, u))
        /\ req' = [req EXCEPT ![t] = [pc |-> "verify", keys |-> KeysOf(i, u)]]
  BY DEF Begin
<1>2. req[t].pc = "idle" /\ UNCHANGED <<attempts, now, fails>>
  BY DEF Begin
<1>3. req'[t].keys = KeysOf(i, u) /\ \A v \in Threads : v # t => req'[v] = req[v]
  BY <1>1 DEF LimiterType
<1>4. ASSUME LockedNow(k)
      PROVE  Pending(k)' = Pending(k)
  <2>1. k \notin KeysOf(i, u)
    BY <1>1, <1>4 DEF Check
  <2>2. QED BY <1>2, <1>3, <2>1 DEF Pending
<1>5. Cardinality(Pending(k)') \in Nat
  <2>1. Pending(k)' \subseteq Threads
    BY DEF Pending
  <2>2. QED BY <2>1, FS_Subset, FS_CardinalityType, ThreadsAssumption
<1>6. Cardinality(Pending(k)) \in Nat
  BY PendingBound
<1>7. LockedNow(k) => Cardinality(Pending(k))' <= Cardinality(Pending(k))
  BY <1>4, <1>6
<1>8. QED BY <1>2, <1>5, <1>7, KeyKept

LEMMA GuessInvKept == LimiterType /\ GuessInv /\ [Next]_vars => GuessInv'
<1> SUFFICES ASSUME LimiterType, GuessInv, [Next]_vars, NEW k \in Keys
             PROVE  (Remembered(k) /\ Counted(k) /\ LockCounted(k))'
  BY DEF GuessInv
<1>1. Remembered(k) /\ Counted(k) /\ LockCounted(k)
  BY DEF GuessInv
<1>2. ASSUME NEW t \in Threads, Begin(t)
      PROVE  (Remembered(k) /\ Counted(k) /\ LockCounted(k))'
  BY <1>1, <1>2, BeginCounted
<1>3. ASSUME NEW t \in Threads, RecordFailure(t)
      PROVE  (Remembered(k) /\ Counted(k) /\ LockCounted(k))'
  <2>1. CASE k \in req[t].keys
    BY <1>1, <1>3, <2>1, FailureCounted
  <2>2. CASE k \notin req[t].keys
    <3>1. /\ attempts'[k] = attempts[k] /\ fails'[k] = fails[k] /\ now' = now
          /\ req[t].pc = "verify" /\ req' = [req EXCEPT ![t] = NoRequest]
      BY <1>3, <2>2 DEF RecordFailure
    <3>2. QED BY <1>1, <3>1, FinishPending, KeyKept
  <2>3. QED BY <2>1, <2>2
<1>4. ASSUME NEW t \in Threads, RecordSuccess(t)
      PROVE  (Remembered(k) /\ Counted(k) /\ LockCounted(k))'
  <2>1. CASE k \in req[t].keys
    <3>1. attempts'[k] = NoAttempt /\ fails'[k] = {} /\ MaxFail \in Nat /\ MaxFail > 0
      BY <1>4, <2>1, LimitsAssumption DEF RecordSuccess
    <3>2. attempts'[k].count = 0 /\ attempts'[k].locked = FALSE /\ ~LockedNow(k)'
      BY <3>1 DEF NoAttempt, LockedNow
    <3>3. IsFiniteSet(fails'[k]) /\ Cardinality(fails'[k]) = 0
      BY <3>1, FS_EmptySet
    <3>4. 0 < MaxFail /\ 0 <= 0 + (MaxFail - 1)
      BY <3>1
    <3>5. Counted(k)'
      BY <3>1, <3>2, <3>3, <3>4 DEF Counted
    <3>6. QED BY <3>1, <3>2, <3>3, <3>5 DEF Remembered, LockCounted
  <2>2. CASE k \notin req[t].keys
    <3>1. /\ attempts'[k] = attempts[k] /\ fails'[k] = fails[k] /\ now' = now
          /\ req[t].pc = "verify" /\ req' = [req EXCEPT ![t] = NoRequest]
      BY <1>4, <2>2 DEF RecordSuccess
    <3>2. QED BY <1>1, <3>1, FinishPending, KeyKept
  <2>3. QED BY <2>1, <2>2
<1>5. ASSUME NEW t \in Threads, AccountDisabled(t)
      PROVE  (Remembered(k) /\ Counted(k) /\ LockCounted(k))'
  <2>1. /\ attempts'[k] = attempts[k] /\ fails'[k] = fails[k] /\ now' = now
        /\ req[t].pc = "verify" /\ req' = [req EXCEPT ![t] = NoRequest]
    BY <1>5 DEF AccountDisabled
  <2>2. QED BY <1>1, <2>1, FinishPending, KeyKept
<1>6. CASE Cleanup
  BY <1>1, <1>6, CleanupCounted
<1>7. CASE Tick
  BY <1>1, <1>7, TickCounted
<1>8. CASE UNCHANGED vars
  <2>1. /\ attempts'[k] = attempts[k] /\ fails'[k] = fails[k] /\ now' = now
        /\ Pending(k)' = Pending(k)
    BY <1>8 DEF vars, Pending
  <2>2. QED BY <1>1, <2>1, PendingBound, KeyKept
<1>9. QED BY <1>2, <1>3, <1>4, <1>5, <1>6, <1>7, <1>8 DEF Next, Finish

LEMMA GuessInvTells ==
  ASSUME LimiterType, GuessInv
  PROVE  GuessBound
<1> SUFFICES ASSUME NEW k \in Keys
             PROVE  Cardinality(fails[k]) <= MostGuesses
  BY DEF GuessBound, MostGuesses
<1>1. Remembered(k) /\ Counted(k) /\ LockCounted(k)
  BY DEF GuessInv
<1>2. /\ attempts[k].count \in Nat /\ attempts[k].count < MaxFail
      /\ MaxFail \in Nat /\ MaxFail > 0 /\ Cardinality(fails[k]) \in Nat
  BY <1>1, KeyType DEF Counted
<1>3. /\ Cardinality(Pending(k)) \in Nat /\ Cardinality(Threads) \in Nat
      /\ Cardinality(Threads) > 0
  BY PendingBound
<1>4. CASE LockedNow(k)
  BY <1>1, <1>2, <1>3, <1>4 DEF LockCounted, MostGuesses
<1>5. CASE ~LockedNow(k)
  <2>1. Cardinality(fails[k]) <= attempts[k].count + (MaxFail - 1)
    BY <1>1, <1>5, ExpiredLock
  <2>2. QED BY <1>2, <1>3, <2>1 DEF MostGuesses
<1>6. QED BY <1>4, <1>5

LEMMA GuessInvStarts == Init => GuessInv
<1> SUFFICES ASSUME Init, NEW k \in Keys
             PROVE  Remembered(k) /\ Counted(k) /\ LockCounted(k)
  BY DEF GuessInv
<1>1. attempts[k] = NoAttempt /\ fails[k] = {} /\ MaxFail \in Nat /\ MaxFail > 0
  BY LimitsAssumption DEF Init
<1>2. attempts[k].count = 0 /\ attempts[k].locked = FALSE
  BY <1>1 DEF NoAttempt
<1>3. IsFiniteSet(fails[k]) /\ Cardinality(fails[k]) = 0
  BY <1>1, FS_EmptySet
<1>4. 0 < MaxFail /\ 0 <= 0 + (MaxFail - 1)
  BY <1>1
<1>5. Counted(k)
  BY <1>1, <1>2, <1>3, <1>4 DEF Counted
<1>6. QED BY <1>1, <1>2, <1>3, <1>5 DEF Remembered, LockCounted, LockedNow

\* However many logins overlap and however cleanup falls between them, within
\* a lockout period a key takes at most one round of failures more than the
\* limit allows, and those of the logins under way when it was locked.
THEOREM GuessBoundCorrect == Spec => []GuessBound
<1>1. LimiterType /\ GuessInv => GuessBound
  BY GuessInvTells
<1>2. QED BY <1>1, GuessInvStarts, GuessInvKept, LimiterTypeCorrect, PTL DEF Spec

\* The failures of this instant are numbered in turn, so that none is taken
\* for another and the history counts them all.
AtNow(k) == {f \in fails[k] : f.at = now}
Numbered == \A k \in Keys : \A f \in AtNow(k) : f.n \in Nat /\ f.n < Cardinality(AtNow(k))

LEMMA NewFailure ==
  ASSUME GuessInv, Numbered, NEW k \in Keys
  PROVE  /\ IsFiniteSet(AtNow(k)) /\ Cardinality(AtNow(k)) \in Nat
         /\ Failure(k).n = Cardinality(AtNow(k)) /\ Failure(k).at = now
         /\ Failure(k) \notin fails[k]
<1>1. IsFiniteSet(fails[k]) /\ AtNow(k) \subseteq fails[k]
  BY DEF GuessInv, Remembered, AtNow
<1>2. IsFiniteSet(AtNow(k)) /\ Cardinality(AtNow(k)) \in Nat
  BY <1>1, FS_Subset, FS_CardinalityType
<1>3. Failure(k).n = Cardinality(AtNow(k)) /\ Failure(k).at = now
  BY DEF Failure, AtNow
<1>4. ASSUME Failure(k) \in fails[k]
      PROVE  FALSE
  <2>1. Failure(k) \in AtNow(k)
    BY <1>3, <1>4 DEF AtNow
  <2>2. Failure(k).n < Cardinality(AtNow(k))
    BY <2>1 DEF Numbered
  <2>3. \A n \in Nat : ~(n < n)
    OBVIOUS
  <2>4. QED BY <1>2, <1>3, <2>2, <2>3
<1>5. QED BY <1>2, <1>3, <1>4

LEMMA NumberedKept == LimiterType /\ GuessInv /\ Numbered /\ [Next]_vars => Numbered'
<1> SUFFICES ASSUME LimiterType, GuessInv, Numbered, [Next]_vars, NEW k \in Keys, NEW f \in AtNow(k)'
             PROVE  f.n \in Nat /\ f.n < Cardinality(AtNow(k)')
  BY DEF Numbered
<1>1. \A g \in AtNow(k) : g.n \in Nat /\ g.n < Cardinality(AtNow(k))
  BY DEF Numbered
<1>2. ASSUME fails'[k] = fails[k], now' = now
      PROVE  f.n \in Nat /\ f.n < Cardinality(AtNow(k)')
  <2>1. AtNow(k)' = AtNow(k)
    BY <1>2 DEF AtNow
  <2>2. QED BY <1>1, <2>1
<1>3. CASE (\E t \in Threads : Begin(t) \/ AccountDisabled(t)) \/ Cleanup \/ UNCHANGED vars
  BY <1>2, <1>3 DEF Begin, AccountDisabled, Cleanup, vars
<1>4. ASSUME NEW t \in Threads, RecordFailure(t)
      PROVE  f.n \in Nat /\ f.n < Cardinality(AtNow(k)')
  <2>1. CASE k \in req[t].keys
    <3>1. fails'[k] = fails[k] \cup {Failure(k)} /\ now' = now
      BY <1>4, <2>1 DEF RecordFailure
    <3>2. AtNow(k)' = AtNow(k) \cup {Failure(k)} /\ Failure(k) \notin AtNow(k)
      BY <3>1, NewFailure DEF AtNow
    <3>3. Cardinality(AtNow(k)') = Cardinality(AtNow(k)) + 1
      BY <3>2, NewFailure, FS_AddElement
    <3>4. \A n \in Nat : n < n + 1
      OBVIOUS
    <3>5. CASE f = Failure(k)
      BY <3>3, <3>4, <3>5, NewFailure
    <3>6. CASE f \in AtNow(k)
      <4>1. \A m, n \in Nat : m < n => m < n + 1
        OBVIOUS
      <4>2. QED BY <1>1, <3>3, <3>6, <4>1, NewFailure
    <3>7. QED BY <3>2, <3>5, <3>6
  <2>2. CASE k \notin req[t].keys
    BY <1>2, <1>4, <2>2 DEF RecordFailure
  <2>3. QED BY <2>1, <2>2
<1>5. ASSUME NEW t \in Threads, RecordSuccess(t)
      PROVE  f.n \in Nat /\ f.n < Cardinality(AtNow(k)')
  <2>1. CASE k \in req[t].keys
    BY <1>5, <2>1 DEF RecordSuccess, AtNow
  <2>2. CASE k \notin req[t].keys
    BY <1>2, <1>5, <2>2 DEF RecordSuccess
  <2>3. QED BY <2>1, <2>2
<1>6. CASE Tick
  <2>1. \A g \in fails[k] : g.at \in Nat /\ g.at <= now
    BY DEF GuessInv, Remembered
  <2>2. f \in fails[k] /\ f.at = now + 1 /\ now \in Nat
    BY <1>6 DEF Tick, AtNow, LimiterType
  <2>3. QED BY <2>1, <2>2
<1>7. QED BY <1>3, <1>4, <1>5, <1>6 DEF Next, Finish

\* Each failure that RecordFailure reports is one more in the history of its
\* keys: the bound above counts logins, not instants.
EveryFailureCounts ==
  [][\A t \in Threads, k \in Keys :
       RecordFailure(t) /\ k \in req[t].keys =>
         Cardinality(fails'[k]) = Cardinality(fails[k]) + 1]_vars

THEOREM EveryFailureCountsCorrect == Spec => EveryFailureCounts
<1>1. Init => GuessInv /\ Numbered
  BY GuessInvStarts DEF Init, Numbered, AtNow
<1>2. GuessInv /\ Numbered =>
        \A t \in Threads, k \in Keys :
          RecordFailure(t) /\ k \in req[t].keys =>
            Cardinality(fails'[k]) = Cardinality(fails[k]) + 1
  <2> SUFFICES ASSUME GuessInv, Numbered, NEW t \in Threads, NEW k \in Keys,
                      RecordFailure(t), k \in req[t].keys
               PROVE  Cardinality(fails'[k]) = Cardinality(fails[k]) + 1
    OBVIOUS
  <2>1. fails'[k] = fails[k] \cup {Failure(k)}
    BY DEF RecordFailure
  <2>2. IsFiniteSet(fails[k]) /\ Failure(k) \notin fails[k]
    BY NewFailure DEF GuessInv, Remembered
  <2>3. QED BY <2>1, <2>2, FS_AddElement
<1>3. QED BY <1>1, <1>2, GuessInvKept, NumberedKept, LimiterTypeCorrect, PTL DEF Spec, EveryFailureCounts

-----------------------------------------------------------------------------
(* The ID generator.                                                       *)

\* A number below 2^22 or 2^12 does not reach into the field above it.
LEMMA Field22 ==
  ASSUME NEW a \in Nat, NEW b \in Nat, NEW r \in Nat, NEW q \in Nat, r < 4194304, q < 4194304,
         a * 4194304 + r = b * 4194304 + q
  PROVE  a = b /\ r = q
BY SMT

LEMMA Field12 ==
  ASSUME NEW a \in Nat, NEW b \in Nat, NEW r \in Nat, NEW q \in Nat, r < 4096, q < 4096,
         a * 4096 + r = b * 4096 + q
  PROVE  a = b /\ r = q
BY SMT

\* The packed IDs of the code (10 bits of machine, 12 of sequence) are equal
\* only when their fields are, so a new triple is a new number.
THEOREM EncodeInjective ==
  ASSUME NEW t1 \in Nat, NEW t2 \in Nat, NEW m1 \in 0 .. 1023, NEW m2 \in 0 .. 1023,
         NEW s1 \in 0 .. 4095, NEW s2 \in 0 .. 4095,
         Encode(<<t1, m1, s1>>) = Encode(<<t2, m2, s2>>)
  PROVE  t1 = t2 /\ m1 = m2 /\ s1 = s2
<1>1. /\ m1 * 4096 + s1 \in Nat /\ m1 * 4096 + s1 < 4194304
      /\ m2 * 4096 + s2 \in Nat /\ m2 * 4096 + s2 < 4194304
  BY SMT
<1>2. t1 * 4194304 + (m1 * 4096 + s1) = t2 * 4194304 + (m2 * 4096 + s2)
  BY SMT DEF Encode
<1>3. t1 = t2 /\ m1 * 4096 + s1 = m2 * 4096 + s2
  BY <1>1, <1>2, Field22, SMT
<1>4. m1 \in Nat /\ m2 \in Nat /\ s1 \in Nat /\ s2 \in Nat /\ s1 < 4096 /\ s2 < 4096
  BY SMT
<1>5. m1 = m2 /\ s1 = s2
  BY <1>3, <1>4, Field12, SMT
<1>6. QED BY <1>3, <1>5, SMT

\* The generators' state is well formed in every reachable state.
THEOREM IdsTypeCorrect == IdSpec => []TypeOK
<1>1. IdInit => TypeOK
  <2>1. 0 \in 0 .. SeqSize - 1
    BY SnowflakeAssumption
  <2>2. IdInit => setBack \in BOOLEAN /\ issued \subseteq Nat \X Machines \X (0 .. SeqSize - 1)
    BY DEF IdInit
  <2>3. IdInit => lastTime \in [Machines -> Nat] /\ sequence \in [Machines -> 0 .. SeqSize - 1]
    BY <2>1 DEF IdInit
  <2>4. QED BY <2>2, <2>3 DEF IdInit, TypeOK
<1>2. TypeOK /\ [IdNext]_idVars => TypeOK'
  <2> SUFFICES ASSUME TypeOK, [IdNext]_idVars PROVE TypeOK'
    OBVIOUS
  <2> USE SnowflakeAssumption
  <2>1. ASSUME NEW m \in Machines, NEW s \in 0 .. SeqSize - 1, Return(m, s),
               clock' = clock, waiting' \in SUBSET waiting
        PROVE  TypeOK'
    BY <2>1 DEF Return, TypeOK
  <2>2. ASSUME NEW m \in Machines, SameMillisecond(m) PROVE TypeOK'
    <3>1. (sequence[m] + 1) % SeqSize \in 0 .. SeqSize - 1 /\ 0 \in 0 .. SeqSize - 1
      BY DEF TypeOK
    <3>2. CASE (sequence[m] + 1) % SeqSize # 0
      BY <2>1, <2>2, <3>1, <3>2 DEF SameMillisecond
    <3>3. CASE (sequence[m] + 1) % SeqSize = 0
      BY <2>2, <3>1, <3>3 DEF SameMillisecond, TypeOK
    <3>4. QED BY <3>2, <3>3
  <2>3. ASSUME NEW m \in Machines, NewMillisecond(m) \/ Woken(m) PROVE TypeOK'
    <3>1. 0 \in 0 .. SeqSize - 1
      OBVIOUS
    <3>2. QED BY <2>1, <2>3, <3>1 DEF NewMillisecond, Woken
  <2>4. ASSUME NEW m \in Machines, Restart(m) PROVE TypeOK'
    <3>1. 0 \in 0 .. SeqSize - 1
      OBVIOUS
    <3>2. QED BY <2>4, <3>1 DEF Restart, TypeOK
  <2>5. CASE ClockTick \/ SetBack
    <3>1. clock' \in Nat \ {0}
      BY <2>5 DEF ClockTick, SetBack, TypeOK
    <3>2. setBack' \in BOOLEAN
      BY <2>5 DEF ClockTick, SetBack, TypeOK
    <3>3. QED BY <2>5, <3>1, <3>2 DEF ClockTick, SetBack, TypeOK
  <2>6. CASE UNCHANGED idVars
    BY <2>6 DEF idVars, TypeOK
  <2>7. QED BY <2>2, <2>3, <2>4, <2>5, <2>6 DEF IdNext, Generate
<1>3. QED BY <1>1, <1>2, PTL DEF IdSpec

-----------------------------------------------------------------------------
(* Uniqueness.  While the clock only moves forward, an ID of machine m that *)
(* is not from an earlier millisecond than m's last call is from the same   *)
(* one, with a sequence number m has already passed.  A restarted machine   *)
(* has forgotten its last call, but all its IDs are older than the clock.   *)

PastInv ==
  ~setBack =>
    \A m \in Machines :
      /\ lastTime[m] <= clock
      /\ \A id \in issued : id[2] = m =>
           /\ id[1] <= clock
           /\ m \notin waiting => id[1] < clock \/ (id[1] = lastTime[m] /\ id[3] <= sequence[m])
           /\ m \in waiting => id[1] <= lastTime[m]

\* No call returns an ID twice, on one machine or on several, until the clock
\* is set back.
THEOREM AlwaysNewCorrect == IdSpec => AlwaysNew
<1> DEFINE New == served' # served /\ ~setBack => \E id \in issued' : id \notin issued
<1>1. IdInit => PastInv
  <2> SUFFICES ASSUME IdInit, NEW m \in Machines
               PROVE  lastTime[m] <= clock /\ issued = {}
    BY DEF IdInit, PastInv
  <2>1. lastTime[m] = 0 /\ clock = 1 /\ issued = {}
    BY DEF IdInit
  <2>2. QED BY <2>1
<1>2. TypeOK /\ PastInv /\ [IdNext]_idVars => PastInv' /\ New
  <2> SUFFICES ASSUME TypeOK, PastInv, [IdNext]_idVars PROVE PastInv' /\ New
    OBVIOUS
  <2> USE SnowflakeAssumption
  <2>1. clock \in Nat /\ served \in Nat
        /\ \A m \in Machines : lastTime[m] \in Nat /\ sequence[m] \in 0 .. SeqSize - 1
    BY DEF TypeOK
  <2>2. \A id \in issued : id[1] \in Nat /\ id[2] \in Machines /\ id[3] \in Nat
    BY DEF TypeOK
  <2>3. CASE setBack
    <3>1. setBack' = TRUE
      BY <2>3 DEF IdNext, Generate, SameMillisecond, NewMillisecond, Woken, Restart, ClockTick,
                  SetBack, Return, idVars, TypeOK
    <3>2. QED BY <2>3, <3>1 DEF PastInv
  <2>4. ASSUME ~setBack, NEW m \in Machines, NEW s \in 0 .. SeqSize - 1, Return(m, s),
               clock' = clock, waiting' = waiting \ {m}, lastTime[m] <= clock,
               \A id \in issued : id[2] = m => id[1] < clock \/ (id[1] = clock /\ id[3] < s)
        PROVE  PastInv' /\ New
    <3>1. <<clock, m, s>> \notin issued
      BY <2>1, <2>4
    <3>2. issued' = issued \cup {<<clock, m, s>>} /\ ~setBack'
          /\ lastTime' = [lastTime EXCEPT ![m] = clock] /\ sequence' = [sequence EXCEPT ![m] = s]
      BY <2>4 DEF Return
    <3>3. ASSUME NEW n \in Machines
          PROVE  /\ lastTime'[n] <= clock'
                 /\ \A id \in issued' : id[2] = n =>
                      /\ id[1] <= clock'
                      /\ n \notin waiting' =>
                           id[1] < clock' \/ (id[1] = lastTime'[n] /\ id[3] <= sequence'[n])
                      /\ n \in waiting' => id[1] <= lastTime'[n]
      <4>1. CASE n = m
        <5>1. lastTime'[n] = clock /\ sequence'[n] = s /\ n \notin waiting'
          BY <2>4, <3>2, <4>1 DEF TypeOK
        <5>2. QED BY <2>1, <2>2, <2>4, <3>2, <4>1, <5>1
      <4>2. CASE n # m
        <5>1. lastTime'[n] = lastTime[n] /\ sequence'[n] = sequence[n]
              /\ (n \in waiting' <=> n \in waiting)
          BY <2>4, <3>2, <4>2 DEF TypeOK
        <5>2. \A id \in issued' : id[2] = n => id \in issued
          BY <3>2, <4>2
        <5>3. QED BY <2>4, <5>1, <5>2 DEF PastInv
      <4>3. QED BY <4>1, <4>2
    <3>4. PastInv'
      BY <3>3 DEF PastInv
    <3>5. QED BY <3>1, <3>2, <3>4
  <2>5. ASSUME ~setBack, NEW m \in Machines, SameMillisecond(m) PROVE PastInv' /\ New
    <3>1. sequence[m] + 1 \in 0 .. SeqSize
      BY <2>1
    <3>2. CASE sequence[m] + 1 < SeqSize
      <4>1. (sequence[m] + 1) % SeqSize = sequence[m] + 1
        BY <2>1, <3>1, <3>2
      <4>2. Return(m, sequence[m] + 1) /\ waiting' = waiting /\ clock' = clock
        BY <2>1, <2>5, <4>1 DEF SameMillisecond
      <4>3. \A id \in issued : id[2] = m =>
              id[1] < clock \/ (id[1] = clock /\ id[3] < sequence[m] + 1)
        BY <2>1, <2>2, <2>5 DEF PastInv, SameMillisecond
      <4>4. waiting' = waiting \ {m} /\ lastTime[m] <= clock
        BY <2>1, <2>5, <4>2 DEF SameMillisecond
      <4>5. sequence[m] + 1 \in 0 .. SeqSize - 1
        BY <2>1, <3>2
      <4>6. QED BY <2>4, <2>5, <4>2, <4>3, <4>4, <4>5
    <3>3. CASE sequence[m] + 1 = SeqSize
      <4>1. (sequence[m] + 1) % SeqSize = 0
        BY <3>3
      <4>2. /\ sequence' = [sequence EXCEPT ![m] = 0] /\ waiting' = waiting \cup {m}
            /\ UNCHANGED <<clock, lastTime, issued, served, setBack>>
        BY <2>5, <4>1 DEF SameMillisecond
      <4>3. \A n \in Machines : n # m => sequence'[n] = sequence[n] /\ (n \in waiting' <=> n \in waiting)
        BY <4>2 DEF TypeOK
      <4>4. clock = lastTime[m]
        BY <2>5 DEF SameMillisecond
      <4>5. PastInv'
        BY <2>1, <2>2, <2>5, <4>2, <4>3, <4>4 DEF PastInv
      <4>6. QED BY <4>2, <4>5
    <3>4. QED BY <2>1, <3>1, <3>2, <3>3
  <2>6. ASSUME ~setBack, NEW m \in Machines, NewMillisecond(m) \/ Woken(m) PROVE PastInv' /\ New
    <3>1. Return(m, 0) /\ clock' = clock /\ waiting' = waiting \ {m}
      BY <2>6 DEF NewMillisecond, Woken
    <3>2. lastTime[m] <= clock /\ \A id \in issued : id[2] = m => id[1] < clock
      BY <2>1, <2>2, <2>6 DEF PastInv, NewMillisecond, Woken
    <3>3. 0 \in 0 .. SeqSize - 1
      OBVIOUS
    <3>4. QED BY <2>4, <2>6, <3>1, <3>2, <3>3
  <2>7. ASSUME ~setBack, NEW m \in Machines, Restart(m) PROVE PastInv' /\ New
    <3>1. clock' = clock + 1 /\ issued' = issued /\ served' = served /\ ~setBack'
      BY <2>7 DEF Restart
    <3>2. \A id \in issued : id[1] < clock'
      <4>1. \A id \in issued : id[2] \in Machines /\ id[1] \in Nat
        BY <2>2
      <4>2. \A id \in issued : id[1] <= clock
        BY <4>1, <2>7 DEF PastInv
      <4>3. QED BY <2>1, <3>1, <4>1, <4>2
    <3>3. lastTime'[m] = 0 /\ m \notin waiting'
      BY <2>7 DEF Restart, TypeOK
    <3>4. \A n \in Machines : n # m => lastTime'[n] = lastTime[n] /\ (n \in waiting' <=> n \in waiting)
      BY <2>7 DEF Restart, TypeOK
    <3>5. PastInv'
      BY <2>1, <2>2, <2>7, <3>1, <3>2, <3>3, <3>4 DEF PastInv
    <3>6. QED BY <3>1, <3>5
  <2>8. CASE ~setBack /\ ClockTick
    BY <2>1, <2>2, <2>8 DEF ClockTick, PastInv
  <2>9. CASE SetBack
    BY <2>9 DEF SetBack, PastInv
  <2>10. CASE UNCHANGED idVars
    BY <2>10 DEF idVars, PastInv
  <2>11. QED BY <2>3, <2>5, <2>6, <2>7, <2>8, <2>9, <2>10 DEF IdNext, Generate
<1>3. QED BY <1>1, <1>2, IdsTypeCorrect, PTL DEF IdSpec, AlwaysNew

-----------------------------------------------------------------------------
(* The decision of the RBAC middleware: the recursive glob matcher         *)
(* computes what its reference says, for every path and pattern.           *)

\* The body of the recursion.
Matched(f, path, pat, j) ==
  IF j > Len(pat) THEN {Len(path) + 1}
  ELSE IF pat[j] = Star THEN {i \in 1 .. Len(path) + 1 : \E k \in f[j + 1] : i <= k}
  ELSE {i \in 1 .. Len(path) : (pat[j] = Param \/ pat[j] = path[i]) /\ i + 1 \in f[j + 1]}

\* f satisfies the equations of the recursion.
Solves(f, path, pat) == f = [j \in 1 .. Len(pat) + 1 |-> Matched(f, path, pat, j)]

\* The recursive definition of matchSegments, unfolded.
LEMMA MatcherChosen ==
  ASSUME NEW path, NEW pat
  PROVE  matchSegments(path, pat) <=> 1 \in (CHOOSE f : Solves(f, path, pat))[1]
BY DEF matchSegments, Solves, Matched

\* Two solutions agree from the end of the pattern to its beginning: at the
\* last segment where they differ they are computed from the same set.
LEMMA SolutionUnique ==
  ASSUME NEW path, NEW pat, Len(pat) \in Nat, NEW f, NEW g, Solves(f, path, pat), Solves(g, path, pat)
  PROVE  f = g
<1> DEFINE R == OpToRel(<, Nat)
           L == Len(pat)
           Differ == {n \in Nat : n <= L /\ f[L + 1 - n] # g[L + 1 - n]}
<1>1. \A j \in 1 .. L + 1 : f[j] = Matched(f, path, pat, j) /\ g[j] = Matched(g, path, pat, j)
  BY DEF Solves
<1>2. Differ = {}
  <2> SUFFICES ASSUME Differ # {} PROVE FALSE
    OBVIOUS
  <2>1. IsWellFoundedOn(R, Nat) /\ Differ \subseteq Nat
    BY NatLessThanWellFounded
  <2>2. \A m, n \in Nat : m < n => <<m, n>> \in R
    BY DEF OpToRel
  <2> HIDE DEF R
  <2>3. PICK n \in Differ : \A m \in Differ : ~(<<m, n>> \in R)
    BY <2>1, WFMin
  <2>4. n \in Nat /\ n <= L /\ f[L + 1 - n] # g[L + 1 - n]
    BY <2>3
  <2>5. \A m \in Differ : ~(m < n)
    BY <2>2, <2>3, <2>4
  <2> DEFINE j == L + 1 - n
  <2>6. j \in 1 .. L + 1 /\ f[j] # g[j]
    BY <2>4
  <2>7. CASE n = 0
    <3>1. j > Len(pat)
      BY <2>7
    <3>2. f[j] = {Len(path) + 1} /\ g[j] = {Len(path) + 1}
      BY <1>1, <2>6, <3>1 DEF Matched
    <3>3. QED BY <2>6, <3>2
  <2>8. CASE n # 0
    <3>1. n - 1 \in Nat /\ n - 1 <= L /\ n - 1 < n /\ L + 1 - (n - 1) = j + 1
      BY <2>4, <2>8
    <3>2. n - 1 \notin Differ
      BY <2>5, <3>1
    <3>3. f[j + 1] = g[j + 1]
      BY <3>1, <3>2
    <3>4. Matched(f, path, pat, j) = Matched(g, path, pat, j)
      BY <3>3 DEF Matched
    <3>5. QED BY <1>1, <2>6, <3>4
  <2>9. QED BY <2>7, <2>8
<1>3. ASSUME NEW j \in 1 .. L + 1
      PROVE  f[j] = g[j]
  <2>1. L + 1 - j \in Nat /\ L + 1 - j <= L /\ L + 1 - (L + 1 - j) = j
    OBVIOUS
  <2>2. L + 1 - j \notin Differ
    BY <1>2
  <2>3. QED BY <2>1, <2>2
<1>4. QED
  BY <1>3 DEF Solves

\* The path from the i-th segment on can be cut up along the pattern from the
\* j-th segment on.
CutFrom(c, path, pattern, i, j) ==
  /\ c[j - 1] = i - 1 /\ c[Len(pattern)] = Len(path)
  /\ \A t \in j .. Len(pattern) :
       c[t - 1] <= c[t] /\ Fits(SubSeq(path, c[t - 1] + 1, c[t]), pattern[t])

CoversFrom(path, pattern, i, j) ==
  \E c \in [j - 1 .. Len(pattern) -> 0 .. Len(path)] : CutFrom(c, path, pattern, i, j)

\* From the first segments on, it is the covering of the reference.
LEMMA CoversFromStart ==
  ASSUME NEW path, NEW pattern, Len(path) \in Nat, Len(pattern) \in Nat
  PROVE  Covers(path, pattern) <=> CoversFrom(path, pattern, 1, 1)
<1>1. 1 - 1 = 0
  OBVIOUS
<1>2. QED
  BY <1>1 DEF Covers, Cuts, CoversFrom, CutFrom

\* Nothing is left of the pattern: nothing may be left of the path.
LEMMA CoversFromEnd ==
  ASSUME NEW path, NEW pattern, Len(path) \in Nat, Len(pattern) \in Nat, NEW i \in 1 .. Len(path) + 1
  PROVE  CoversFrom(path, pattern, i, Len(pattern) + 1) <=> i = Len(path) + 1
<1> DEFINE L == Len(pattern)
<1>1. (L + 1) - 1 = L /\ (L + 1) .. L = {}
  OBVIOUS
<1>2. CoversFrom(path, pattern, i, L + 1) <=>
        \E c \in [L .. L -> 0 .. Len(path)] : c[L] = i - 1 /\ c[L] = Len(path)
  BY <1>1 DEF CoversFrom, CutFrom
<1>3. ASSUME i = Len(path) + 1
      PROVE  CoversFrom(path, pattern, i, L + 1)
  <2> DEFINE c == [t \in L .. L |-> Len(path)]
  <2>1. L \in L .. L /\ Len(path) \in 0 .. Len(path)
    OBVIOUS
  <2>2. c \in [L .. L -> 0 .. Len(path)] /\ c[L] = Len(path)
    BY <2>1
  <2>3. i - 1 = Len(path)
    BY <1>3
  <2>4. QED BY <1>2, <2>2, <2>3
<1>4. QED BY <1>2, <1>3

\* Cutting goes segment by segment.
LEMMA CoversFromStep ==
  ASSUME NEW path, NEW pattern, Len(path) \in Nat, Len(pattern) \in Nat,
         NEW i \in 1 .. Len(path) + 1, NEW j \in 1 .. Len(pattern)
  PROVE  CoversFrom(path, pattern, i, j) <=>
           \E k \in i .. Len(path) + 1 :
             Fits(SubSeq(path, i, k - 1), pattern[j]) /\ CoversFrom(path, pattern, k, j + 1)
<1> DEFINE L == Len(pattern)
           N == Len(path)
<1>0. (j + 1) - 1 = j
  OBVIOUS
<1>1. ASSUME NEW c \in [j - 1 .. L -> 0 .. N], CutFrom(c, path, pattern, i, j)
      PROVE  \E k \in i .. N + 1 :
               Fits(SubSeq(path, i, k - 1), pattern[j]) /\ CoversFrom(path, pattern, k, j + 1)
  <2> DEFINE k == c[j] + 1
             d == [t \in j .. L |-> c[t]]
  <2>1. j \in j - 1 .. L /\ j - 1 \in j - 1 .. L /\ j \in j .. L /\ L \in j .. L
    OBVIOUS
  <2>2. c[j] \in 0 .. N /\ c[j - 1] = i - 1 /\ c[j - 1] <= c[j]
        /\ Fits(SubSeq(path, c[j - 1] + 1, c[j]), pattern[j])
    BY <1>1, <2>1 DEF CutFrom
  <2>3. k \in i .. N + 1 /\ k - 1 = c[j] /\ c[j - 1] + 1 = i
    BY <2>2
  <2>4. d \in [j .. L -> 0 .. N]
    OBVIOUS
  <2>5. d[j] = k - 1 /\ d[L] = N
    BY <1>1, <2>1, <2>3 DEF CutFrom
  <2>6. ASSUME NEW t \in j + 1 .. L
        PROVE  d[t - 1] <= d[t] /\ Fits(SubSeq(path, d[t - 1] + 1, d[t]), pattern[t])
    <3>1. t \in j .. L /\ t - 1 \in j .. L
      OBVIOUS
    <3>2. d[t] = c[t] /\ d[t - 1] = c[t - 1]
      BY <3>1
    <3>3. QED BY <1>1, <3>1, <3>2 DEF CutFrom
  <2>7. CoversFrom(path, pattern, k, j + 1)
    BY <1>0, <2>4, <2>5, <2>6 DEF CoversFrom, CutFrom
  <2>8. QED BY <2>2, <2>3, <2>7
<1>2. ASSUME NEW k \in i .. N + 1, Fits(SubSeq(path, i, k - 1), pattern[j]),
             NEW c \in [j .. L -> 0 .. N], CutFrom(c, path, pattern, k, j + 1)
      PROVE  CoversFrom(path, pattern, i, j)
  <2> DEFINE d == [t \in j - 1 .. L |-> IF t = j - 1 THEN i - 1 ELSE c[t]]
  <2>1. d \in [j - 1 .. L -> 0 .. N]
    OBVIOUS
  <2>2. c[j] = k - 1 /\ c[L] = N
    BY <1>0, <1>2 DEF CutFrom
  <2>3. d[j - 1] = i - 1 /\ d[L] = N /\ d[j] = k - 1
    BY <2>2
  <2>4. ASSUME NEW t \in j .. L
        PROVE  d[t - 1] <= d[t] /\ Fits(SubSeq(path, d[t - 1] + 1, d[t]), pattern[t])
    <3>1. CASE t = j
      <4>1. (i - 1) + 1 = i /\ i - 1 <= k - 1
        OBVIOUS
      <4>2. QED BY <1>2, <2>3, <3>1, <4>1
    <3>2. CASE t # j
      <4>1. t \in j + 1 .. L /\ t - 1 \in j - 1 .. L /\ t - 1 # j - 1 /\ t # j - 1
        BY <3>2
      <4>2. d[t] = c[t] /\ d[t - 1] = c[t - 1]
        BY <4>1
      <4>3. QED BY <1>2, <4>1, <4>2 DEF CutFrom
    <3>3. QED BY <3>1, <3>2
  <2>5. QED BY <2>1, <2>3, <2>4 DEF CoversFrom, CutFrom
<1>3. QED BY <1>0, <1>1, <1>2 DEF CoversFrom

\* What a segment that is no star takes.
LEMMA PieceOfSegment ==
  ASSUME NEW S, NEW path \in Seq(S), NEW i \in 1 .. Len(path) + 1, NEW k \in i .. Len(path) + 1, NEW seg, seg # Star
  PROVE  Fits(SubSeq(path, i, k - 1), seg) <=>
           k = i + 1 /\ i \in 1 .. Len(path) /\ (seg = Param \/ path[i] = seg)
<1>1. Len(path) \in Nat /\ i \in Nat /\ k \in Nat /\ \A n \in i .. k - 1 : path[n] \in S
  OBVIOUS
<1>2. /\ Len(SubSeq(path, i, k - 1)) = IF i <= k - 1 THEN (k - 1) - i + 1 ELSE 0
      /\ \A n \in 1 .. (k - 1) - i + 1 : SubSeq(path, i, k - 1)[n] = path[i + n - 1]
  BY <1>1, SubSeqProperties
<1>3. Len(SubSeq(path, i, k - 1)) = 1 <=> k = i + 1
  BY <1>1, <1>2
<1>4. k = i + 1 => SubSeq(path, i, k - 1)[1] = path[i]
  BY <1>1, <1>2
<1>5. k = i + 1 => i \in 1 .. Len(path)
  BY <1>1
<1>6. QED
  BY <1>3, <1>4, <1>5 DEF Fits

\* What the recursion should compute.
Reference(path, pattern) ==
  [j \in 1 .. Len(pattern) + 1 |-> {i \in 1 .. Len(path) + 1 : CoversFrom(path, pattern, i, j)}]

\* The reference, for all suffixes, satisfies the equations of the recursion.
LEMMA ReferenceSolves ==
  ASSUME NEW S, NEW path \in Seq(S), NEW pattern, Len(pattern) \in Nat
  PROVE  Solves(Reference(path, pattern), path, pattern)
<1> DEFINE L == Len(pattern)
           N == Len(path)
           F == Reference(path, pattern)
<1>1. N \in Nat /\ L \in Nat
  OBVIOUS
<1>2. ASSUME NEW j \in 1 .. L + 1
      PROVE  F[j] = Matched(F, path, pattern, j)
  <2>1. F[j] = {i \in 1 .. N + 1 : CoversFrom(path, pattern, i, j)}
    BY DEF Reference
  <2>2. CASE j > L
    <3>1. j = L + 1
      BY <1>1, <2>2
    <3>2. \A i \in 1 .. N + 1 : CoversFrom(path, pattern, i, j) <=> i = N + 1
      BY <1>1, <3>1, CoversFromEnd
    <3>3. N + 1 \in 1 .. N + 1
      BY <1>1
    <3>4. F[j] = {N + 1}
      BY <2>1, <3>2, <3>3
    <3>5. QED BY <2>2, <3>4 DEF Matched
  <2>3. CASE ~(j > L)
    <3>1. j \in 1 .. L /\ j + 1 \in 1 .. L + 1
      BY <1>1, <2>3
    <3>2. F[j + 1] = {i \in 1 .. N + 1 : CoversFrom(path, pattern, i, j + 1)}
      BY <3>1 DEF Reference
    <3>3. \A i \in 1 .. N + 1 : CoversFrom(path, pattern, i, j) <=>
            \E k \in i .. N + 1 :
              Fits(SubSeq(path, i, k - 1), pattern[j]) /\ CoversFrom(path, pattern, k, j + 1)
      BY <1>1, <3>1, CoversFromStep
    <3> HIDE DEF F
    <3>4. CASE pattern[j] = Star
      <4>1. \A p : Fits(p, pattern[j])
        BY <3>4 DEF Fits
      <4>2. ASSUME NEW i \in 1 .. N + 1
            PROVE  CoversFrom(path, pattern, i, j) <=> \E k \in F[j + 1] : i <= k
        <5>1. \A k : k \in i .. N + 1 <=> k \in 1 .. N + 1 /\ i <= k
          BY <1>1
        <5>2. QED BY <3>2, <3>3, <4>1, <5>1
      <4>3. F[j] = {i \in 1 .. N + 1 : \E k \in F[j + 1] : i <= k}
        BY <2>1, <4>2
      <4>4. QED BY <2>3, <3>4, <4>3 DEF Matched
    <3>5. CASE pattern[j] # Star
      <4>1. ASSUME NEW i \in 1 .. N + 1
            PROVE  CoversFrom(path, pattern, i, j) <=>
                     i \in 1 .. N /\ (pattern[j] = Param \/ pattern[j] = path[i]) /\ i + 1 \in F[j + 1]
        <5>1. \A k \in i .. N + 1 : Fits(SubSeq(path, i, k - 1), pattern[j]) <=>
                k = i + 1 /\ i \in 1 .. N /\ (pattern[j] = Param \/ path[i] = pattern[j])
          BY <3>5, PieceOfSegment
        <5>2. i \in 1 .. N => i + 1 \in i .. N + 1 /\ i + 1 \in 1 .. N + 1
          BY <1>1
        <5>3. QED BY <3>2, <3>3, <5>1, <5>2
      <4>2. \A i : i \in 1 .. N => i \in 1 .. N + 1
        BY <1>1
      <4>3. F[j] = {i \in 1 .. N :
                      (pattern[j] = Param \/ pattern[j] = path[i]) /\ i + 1 \in F[j + 1]}
        BY <2>1, <4>1, <4>2
      <4>4. QED BY <2>3, <3>5, <4>3 DEF Matched
    <3>6. QED BY <3>4, <3>5
  <2>4. QED BY <2>2, <2>3
<1>3. F = [j \in 1 .. L + 1 |-> F[j]]
  BY DEF Reference
<1> HIDE DEF F
<1>4. [j \in 1 .. L + 1 |-> F[j]] = [j \in 1 .. L + 1 |-> Matched(F, path, pattern, j)]
  BY <1>2
<1>5. F = [j \in 1 .. Len(pattern) + 1 |-> Matched(F, path, pattern, j)]
  BY <1>3, <1>4
<1>6. QED
  BY <1>5 DEF Solves, F

\* matchSegments is the cutting up of the path along the pattern, for every
\* path and pattern of any length: the recursion, trying every length of
\* a star, misses no way to match and accepts nothing else.
THEOREM SegmentsMatched ==
  ASSUME NEW S, NEW T, NEW path \in Seq(S), NEW pattern \in Seq(T)
  PROVE  matchSegments(path, pattern) <=> Covers(path, pattern)
<1>1. Len(path) \in Nat /\ Len(pattern) \in Nat
  OBVIOUS
<1>2. Solves(Reference(path, pattern), path, pattern)
  BY <1>1, ReferenceSolves
<1>3. Solves((CHOOSE f : Solves(f, path, pattern)), path, pattern)
  BY <1>2
<1>4. (CHOOSE f : Solves(f, path, pattern)) = Reference(path, pattern)
  BY <1>1, <1>2, <1>3, SolutionUnique
<1>5. 1 \in 1 .. Len(path) + 1 /\ 1 \in 1 .. Len(pattern) + 1
  BY <1>1
<1>6. 1 \in Reference(path, pattern)[1] <=> CoversFrom(path, pattern, 1, 1)
  BY <1>5 DEF Reference
<1>7. QED
  BY <1>1, <1>4, <1>6, MatcherChosen, CoversFromStart

\* The two shortcuts of matchResource accept nothing else.
LEMMA StarCovers ==
  ASSUME NEW path, Len(path) \in Nat
  PROVE  Covers(path, <<Star>>)
<1>1. Len(<<Star>>) = 1 /\ <<Star>>[1] = Star
  OBVIOUS
<1>2. Len(path) + 1 \in 1 .. Len(path) + 1 /\ 1 \in 1 .. Len(path) + 1 /\ 1 \in 1 .. 1
  OBVIOUS
<1>3. CoversFrom(path, <<Star>>, Len(path) + 1, Len(<<Star>>) + 1)
  BY <1>1, <1>2, CoversFromEnd
<1>4. Fits(SubSeq(path, 1, (Len(path) + 1) - 1), <<Star>>[1])
  BY <1>1 DEF Fits
<1>5. CoversFrom(path, <<Star>>, 1, 1)
  BY <1>1, <1>2, <1>3, <1>4, CoversFromStep
<1>6. QED
  BY <1>1, <1>5, CoversFromStart

\* A pattern that is the path covers it, one segment by one.
LEMMA ItselfCovers ==
  ASSUME NEW S, NEW path \in Seq(S)
  PROVE  Covers(path, path)
<1> DEFINE c == [j \in 0 .. Len(path) |-> j]
<1>1. Len(path) \in Nat
  OBVIOUS
<1>2. c \in [0 .. Len(path) -> 0 .. Len(path)] /\ c[0] = 0 /\ c[Len(path)] = Len(path)
  BY <1>1
<1>3. ASSUME NEW j \in 1 .. Len(path)
      PROVE  c[j - 1] <= c[j] /\ Fits(SubSeq(path, c[j - 1] + 1, c[j]), path[j])
  <2>1. c[j - 1] = j - 1 /\ c[j] = j /\ j - 1 <= j /\ (j - 1) + 1 = j
    BY <1>1
  <2>2. j \in 1 .. Len(path) + 1 /\ j + 1 \in j .. Len(path) + 1 /\ (j + 1) - 1 = j
    BY <1>1
  <2>3. CASE path[j] = Star
    BY <2>1, <2>3 DEF Fits
  <2>4. CASE path[j] # Star
    <3>1. Fits(SubSeq(path, j, (j + 1) - 1), path[j])
      BY <2>2, <2>4, PieceOfSegment
    <3>2. QED BY <2>1, <2>2, <3>1
  <2>5. QED BY <2>3, <2>4
<1>4. QED
  BY <1>2, <1>3 DEF Covers, Cuts

\* The same of matchResource: neither its shortcut for a lone star nor the one
\* for a pattern equal to the path lets a path through that matchSegments
\* would reject.
THEOREM ResourceMatched ==
  ASSUME NEW S, NEW T, NEW path \in Seq(S), NEW pattern \in Seq(T)
  PROVE  matchResource(path, pattern) <=> Covers(path, pattern)
<1>1. Len(path) \in Nat
  OBVIOUS
<1>2. QED
  BY <1>1, StarCovers, ItselfCovers, SegmentsMatched DEF matchResource

\* The matcher agrees with its reference on all sequences of up to MaxSegments
\* segments, whatever the bound and the words are.
THEOREM GlobReferenceCorrect == RulesSpec => []GlobReference
<1>1. GlobReference
  <2> SUFFICES ASSUME NEW pattern \in Segments(Words \cup {Star, Param}), NEW path \in Segments(Words)
               PROVE  matchResource(path, pattern) <=> Covers(path, pattern)
    BY DEF GlobReference
  <2>1. pattern \in Seq(Words \cup {Star, Param}) /\ path \in Seq(Words)
    <3>1. \A n \in 0 .. MaxSegments : n \in Nat
      BY BoundAssumption
    <3>2. \A U : \A s \in Segments(U) : \E n \in Nat : s \in [1 .. n -> U]
      BY <3>1 DEF Segments
    <3>3. \A U, n : n \in Nat => [1 .. n -> U] \subseteq Seq(U)
      OBVIOUS
    <3>4. QED BY <3>2, <3>3
  <2>2. QED
    BY <2>1, ResourceMatched
<1>2. QED
  BY <1>1, PTL

\* The rows and the loaded rules are well formed.
RulesType == policies \subseteq Policy /\ rules \subseteq Rule

\* The invariant the decision rests on: a loaded rule has a pattern.
LEMMA RulesTypeCorrect == RulesSpec => []RulesType
<1>1. RulesInit => RulesType
  BY DEF RulesInit, RulesType
<1>2. RulesType /\ [RulesNext]_ruleVars => RulesType'
  BY DEF RulesType, RulesNext, ruleVars, CreateRBACPolicy, DeleteRBACPolicy, Reload, Exported, Policy
<1>3. QED
  BY <1>1, <1>2, PTL DEF RulesSpec

\* The middleware lets a request through exactly when a loaded rule that names
\* the user or a role of the token covers its path and method.
THEOREM DecisionByRuleCorrect == RulesSpec => []DecisionByRule
<1>1. RulesType => DecisionByRule
  <2> SUFFICES ASSUME RulesType, NEW r \in Request
               PROVE  RBAC(r) <=>
                        \E rule \in rules :
                          /\ rule.subject \in Holders(r)
                          /\ Covers(r.path, rule.resource) /\ rule.action \in {Star, r.method}
    BY DEF DecisionByRule
  <2>1. ASSUME NEW rule \in rules
        PROVE  Matches(r, rule) <=> Covers(r.path, rule.resource) /\ rule.action \in {Star, r.method}
    <3>1. r.path \in Seq(Words) /\ rule.resource \in Seq(Words \cup {Star, Param})
      BY SegmentsAssumption DEF Request, RulesType, Rule
    <3>2. QED
      BY <3>1, ResourceMatched DEF Matches, matchAction
  <2>2. RBAC(r) <=> \E rule \in rules : Matches(r, rule) /\ rule.subject \in Holders(r)
    BY DEF RBAC, Enforce, EnforceWithRoles, Holders
  <2>3. QED
    BY <2>1, <2>2
<1>2. QED
  BY <1>1, RulesTypeCorrect, PTL
=============================================================================
