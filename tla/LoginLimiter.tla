---------------------------- MODULE LoginLimiter ----------------------------
(***************************************************************************)
(* The login rate limiter (pkg/ratelimit) and the two handlers that use    *)
(* it, Login and ProxyAMSLogin, whose limiter calls are the same.  Each    *)
(* limiter call is atomic, under its mutex; a login is not: it checks the  *)
(* lock, then looks the user up and verifies the password without it, and  *)
(* only then records the outcome.                                          *)
(***************************************************************************)
EXTENDS Integers, FiniteSets

CONSTANTS
  Ips, Usernames, \* client addresses and user names
  Threads,    \* logins in progress at the same time
  MaxFail,    \* LoginLimiter.maxFail
  Lockout,    \* LoginLimiter.lockout, in units of time
  Idle,       \* the idle time after which cleanup forgets an unlocked key
  MaxTime     \* bound: the clock stops there

ASSUME LimitsAssumption ==
  /\ MaxFail \in Nat \ {0} /\ Lockout \in Nat \ {0} /\ Idle \in Nat /\ Lockout <= Idle
  /\ MaxTime \in Nat
ASSUME ThreadsAssumption == IsFiniteSet(Threads) /\ Threads # {}

VARIABLES
  attempts, \* key -> attempt; a key that is not in the map has NoAttempt
  req,      \* thread -> the login it is handling
  now,      \* time.Now()
  fails,    \* history: key -> its recent failures since its last success
  lockedAt  \* history: key -> when it was last locked, or NotLocked

vars == <<attempts, req, now, fails, lockedAt>>

-----------------------------------------------------------------------------
Ip(i) == <<"ip", i>>
User(u) == <<"user", u>>
Keys == {Ip(i) : i \in Ips} \cup {User(u) : u \in Usernames}

NoAttempt == [count |-> 0, lastFail |-> 0, locked |-> FALSE, lockUntil |-> 0]
NotLocked == -1
NoRequest == [pc |-> "idle", keys |-> {}]

KeysOf(i, u) == {Ip(i), User(u)}

\* a.locked && now.Before(a.lockUntil)
LockedNow(k) == attempts[k].locked /\ now < attempts[k].lockUntil

Check(keys) == \A k \in keys : ~LockedNow(k)

\* Mutant: one failure too many before the lock.
RecordKey_OffByOne(a) ==
  IF a.count + 1 > MaxFail
  THEN [count |-> 0, lastFail |-> now, locked |-> TRUE, lockUntil |-> now + Lockout]
  ELSE [a EXCEPT !.count = @ + 1, !.lastFail = now]

\* Mutant: a failure below the limit clears the flag.
RecordKey_Unlocks(a) ==
  IF a.count + 1 >= MaxFail
  THEN [count |-> 0, lastFail |-> now, locked |-> TRUE, lockUntil |-> now + Lockout]
  ELSE [a EXCEPT !.count = @ + 1, !.lastFail = now, !.locked = FALSE]

\* recordKey on one attempt: the flag stays set after a lockout, the counter
\* starts again.
RecordKey(a) ==
  IF a.count + 1 >= MaxFail
  THEN [count |-> 0, lastFail |-> now, locked |-> TRUE, lockUntil |-> now + Lockout]
  ELSE [a EXCEPT !.count = @ + 1, !.lastFail = now]

\* A login arrives and is let through; a rejected one changes nothing.
Begin(t) ==
  /\ req[t].pc = "idle"
  /\ \E i \in Ips, u \in Usernames :
       /\ Check(KeysOf(i, u))
       /\ req' = [req EXCEPT ![t] = [pc |-> "verify", keys |-> KeysOf(i, u)]]
  /\ UNCHANGED <<attempts, now, fails, lockedAt>>

\* A failure is its time, and its number among those of that time.
Failure(k) == [at |-> now, n |-> Cardinality({f \in fails[k] : f.at = now})]

\* No such user, or a wrong password.
RecordFailure(t) ==
  /\ req[t].pc = "verify"
  /\ LET K == req[t].keys IN
     /\ attempts' = [k \in Keys |-> IF k \in K THEN RecordKey(attempts[k]) ELSE attempts[k]]
     /\ fails' = [k \in Keys |-> IF k \in K THEN fails[k] \cup {Failure(k)} ELSE fails[k]]
     /\ lockedAt' = [k \in Keys |-> IF k \in K /\ attempts[k].count + 1 >= MaxFail
                                    THEN now ELSE lockedAt[k]]
  /\ req' = [req EXCEPT ![t] = NoRequest]
  /\ UNCHANGED now

\* The right password of an active user: both keys are removed from the map.
RecordSuccess(t) ==
  /\ req[t].pc = "verify"
  /\ LET K == req[t].keys IN
     /\ attempts' = [k \in Keys |-> IF k \in K THEN NoAttempt ELSE attempts[k]]
     /\ fails' = [k \in Keys |-> IF k \in K THEN {} ELSE fails[k]]
     /\ lockedAt' = [k \in Keys |-> IF k \in K THEN NotLocked ELSE lockedAt[k]]
  /\ req' = [req EXCEPT ![t] = NoRequest]
  /\ UNCHANGED now

\* The right password of a disabled user leaves the limiter as it is.
AccountDisabled(t) ==
  /\ req[t].pc = "verify"
  /\ req' = [req EXCEPT ![t] = NoRequest]
  /\ UNCHANGED <<attempts, now, fails, lockedAt>>

\* Unlocked keys without a failure for Idle, and keys whose lock has expired,
\* whatever they have counted since.
Expired(a) ==
  \/ ~a.locked /\ now - a.lastFail > Idle
  \/ a.locked /\ now > a.lockUntil

\* The ticker's phase against the logins is arbitrary.
Cleanup ==
  /\ attempts' = [k \in Keys |-> IF Expired(attempts[k]) THEN NoAttempt ELSE attempts[k]]
  /\ UNCHANGED <<req, now, fails, lockedAt>>

\* Time passes; what is older than a lockout leaves the history.
Tick ==
  /\ now < MaxTime
  /\ now' = now + 1
  /\ fails' = [k \in Keys |-> {f \in fails[k] : now' - f.at < Lockout}]
  /\ UNCHANGED <<attempts, req, lockedAt>>

Init ==
  /\ attempts = [k \in Keys |-> NoAttempt]
  /\ req = [t \in Threads |-> NoRequest]
  /\ now = 0
  /\ fails = [k \in Keys |-> {}]
  /\ lockedAt = [k \in Keys |-> NotLocked]

Finish(t) == RecordFailure(t) \/ RecordSuccess(t) \/ AccountDisabled(t)

Next == (\E t \in Threads : Begin(t) \/ Finish(t)) \/ Cleanup \/ Tick

Spec == Init /\ [][Next]_vars

-----------------------------------------------------------------------------
(* Properties.                                                             *)

Attempt == [count : Nat, lastFail : Nat, locked : BOOLEAN, lockUntil : Nat]

\* The program's own variables, and all variables.
LimiterType ==
  /\ attempts \in [Keys -> Attempt]
  /\ req \in [Threads -> [pc : {"idle", "verify"}, keys : SUBSET Keys]]
  /\ now \in Nat
  /\ lockedAt \in [Keys -> Nat \cup {NotLocked}]

\* Since its last success and within any lockout period, a key sees at most
\* one full round of failures, one more that an expired lock made cleanup
\* forget, and those of the logins that were under way when it was locked.
GuessBound ==
  \A k \in Keys : Cardinality(fails[k]) <= (MaxFail - 1) + MaxFail + (Cardinality(Threads) - 1)

\* A lock lasts for the whole lockout: until then only a successful login of
\* the same key lifts it; neither cleanup nor a late failure shortens it.
LockLasts ==
  \A k \in Keys :
    lockedAt[k] # NotLocked /\ now < lockedAt[k] + Lockout =>
      LockedNow(k) /\ attempts[k].lockUntil >= lockedAt[k] + Lockout
=============================================================================
