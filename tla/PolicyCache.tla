----------------------------- MODULE PolicyCache -----------------------------
(***************************************************************************)
(* The three-level cache (pkg/cache) as ams uses it for the policies of    *)
(* OAS: L1 in the process, L2 in Redis when there is one, the origin a     *)
(* query.  A Get that misses carries the value it found to the levels      *)
(* above, statement by statement, while writes, invalidations, expiry and  *)
(* other Gets go on.                                                       *)
(***************************************************************************)
EXTENDS Requests, Integers

CONSTANTS
  L1TTL, L2TTL, \* ticks an entry may be used for
  MaxHold,      \* bound: ticks from finding a value to answering with it
  MaxVersion,   \* bound: changes of the policies
  MaxTicks      \* bound: the clock

ASSUME CacheAssumption ==
  /\ L1TTL \in Nat \ {0} /\ L2TTL \in Nat \ {0}
  /\ MaxHold \in Nat /\ MaxVersion \in Nat /\ MaxTicks \in Nat

VARIABLES
  redis,   \* whether there is an L2
  version, \* the policies in the table, numbered
  since,   \* history: ticks since each version was replaced
  answer,  \* history: the version last answered, and its age then
  l1, l2,  \* the entries: the version, and the ticks it may still be used
  clock    \* ticks so far

cacheVars == <<redis, version, since, answer, l1, l2, clock>>

-----------------------------------------------------------------------------
Empty == [version |-> 0, left |-> 0]
Usable(entry) == entry.left > 0
Aged(entry) == [entry EXCEPT !.left = IF @ > 0 THEN @ - 1 ELSE 0]

NoValue == [op |-> "get", version |-> 0, held |-> 0]
Found(v) == [op |-> "get", version |-> v, held |-> 0]
Holds(w) == pc[w] \in {"hit: fill l1", "fill l1", "fill l2"}

\* The request w finds version v and goes on to next.
Find(w, v, next) ==
  /\ pc' = [pc EXCEPT ![w] = next] /\ req' = [req EXCEPT ![w] = Found(v)]
  /\ UNCHANGED budget

\* The answer of a request that has version v.
Answered(v) == answer' = [version |-> v, lag |-> since[v]]

Answer(w, step) == Proceed(w, step, "idle") /\ Answered(req[w].version)

-----------------------------------------------------------------------------
(* Get.                                                                    *)

\* Mutant: a hit makes the entry last longer.
GetHit_Sliding(w) ==
  /\ Usable(l1) /\ StartAndAnswer(w)
  /\ Answered(l1.version) /\ l1' = [l1 EXCEPT !.left = L1TTL]
  /\ UNCHANGED <<redis, version, since, l2, clock>>

GetHit(w) ==
  /\ Usable(l1) /\ StartAndAnswer(w)
  /\ Answered(l1.version)
  /\ UNCHANGED <<redis, version, since, l1, l2, clock>>

GetMiss(w) ==
  /\ ~Usable(l1)
  /\ Start(w, IF redis THEN "l2" ELSE "origin", NoValue)
  /\ UNCHANGED cacheVars

ReadL2(w) ==
  /\ pc[w] = "l2"
  /\ IF Usable(l2) THEN Find(w, l2.version, "hit: fill l1") ELSE Proceed(w, "l2", "origin")
  /\ UNCHANGED cacheVars

\* Any error of Redis counts as a miss.
ReadL2Fails(w) == ProceedFailed(w, "l2", "origin") /\ UNCHANGED cacheVars

\* loadPoliciesFromDB: one query, one snapshot of the active policies.
ReadOrigin(w) ==
  /\ pc[w] = "origin" /\ Find(w, version, "fill l1")
  /\ UNCHANGED cacheVars

\* The error is the answer; nothing is cached.
ReadOriginFails(w) == ProceedFailed(w, "origin", "idle") /\ UNCHANGED cacheVars

\* Whatever L1 holds now, it is replaced, under the lock.
FillL1(w) ==
  /\ \/ pc[w] = "hit: fill l1" /\ Answer(w, "hit: fill l1")
     \/ pc[w] = "fill l1" /\ redis /\ Proceed(w, "fill l1", "fill l2") /\ UNCHANGED answer
     \/ pc[w] = "fill l1" /\ ~redis /\ Answer(w, "fill l1")
  /\ l1' = [version |-> req[w].version, left |-> L1TTL]
  /\ UNCHANGED <<redis, version, since, l2, clock>>

FillL2(w) ==
  /\ Answer(w, "fill l2")
  /\ l2' = [version |-> req[w].version, left |-> L2TTL]
  /\ UNCHANGED <<redis, version, since, l1, clock>>

FillL2Fails(w) ==
  /\ ProceedFailed(w, "fill l2", "idle") /\ Answered(req[w].version)
  /\ UNCHANGED <<redis, version, since, l1, l2, clock>>

-----------------------------------------------------------------------------
(* Invalidation, the authority, time.                                      *)

\* L1 first, then the keys of L2: in between, a Get may carry L2's value back.
InvalidateAll(w) ==
  /\ IF redis THEN Start(w, "drop l2", [NoValue EXCEPT !.op = "invalidate"])
              ELSE StartAndAnswer(w)
  /\ l1' = Empty
  /\ UNCHANGED <<redis, version, since, answer, l2, clock>>

DropL2(w) ==
  /\ Proceed(w, "drop l2", "idle") /\ l2' = Empty
  /\ UNCHANGED <<redis, version, since, answer, l1, clock>>

DropL2Fails(w) == ProceedFailed(w, "drop l2", "idle") /\ UNCHANGED cacheVars

\* OAS commits a change; nobody tells the cache.
WritePolicies ==
  /\ version < MaxVersion /\ version' = version + 1
  /\ UNCHANGED <<redis, since, answer, l1, l2, clock, requestVars>>

\* Time passes, for no request beyond MaxHold ticks with the same value.
Tick ==
  /\ clock < MaxTicks /\ clock' = clock + 1
  /\ \A w \in Workers : Holds(w) => req[w].held < MaxHold
  /\ req' = [w \in Workers |-> IF Holds(w) THEN [req[w] EXCEPT !.held = @ + 1] ELSE req[w]]
  /\ l1' = Aged(l1) /\ l2' = Aged(l2)
  /\ since' = [v \in 0..MaxVersion |-> IF v < version THEN since[v] + 1 ELSE 0]
  /\ UNCHANGED <<redis, version, answer, pc, budget>>

\* L1 is gone with the process, Redis is not.
CacheCrash == l1' = Empty /\ UNCHANGED <<redis, version, since, answer, l2, clock>>

CacheInit ==
  /\ redis \in BOOLEAN
  /\ version = 0 /\ since = [v \in 0..MaxVersion |-> 0] /\ answer = [version |-> 0, lag |-> 0]
  /\ l1 = Empty /\ l2 = Empty /\ clock = 0

CacheNext ==
  \/ \E w \in Workers :
       \/ GetHit(w) \/ GetMiss(w) \/ ReadL2(w) \/ ReadL2Fails(w) \/ ReadOrigin(w)
       \/ ReadOriginFails(w) \/ FillL1(w) \/ FillL2(w) \/ FillL2Fails(w)
       \/ InvalidateAll(w) \/ DropL2(w) \/ DropL2Fails(w)
  \/ WritePolicies \/ Tick

\* The cache in a process of its own.
CacheSpec ==
  /\ RequestsInit /\ CacheInit
  /\ [][CacheNext \/ (CrashRequests /\ CacheCrash)]_<<requestVars, cacheVars>>

-----------------------------------------------------------------------------
(* Properties.                                                             *)

\* A value is held, stored in L2, held again by a Get that hits L2, and stored
\* in L1; without Redis it is held and stored in L1.
Staleness ==
  IF redis THEN MaxHold + (L2TTL - 1) + MaxHold + (L1TTL - 1) ELSE MaxHold + (L1TTL - 1)

Lag == INSTANCE BoundedLag WITH limit <- Staleness

\* However Gets, fills, invalidations, expiries, failures and crashes
\* interleave, every answer is a set of policies that OAS stopped having at
\* most the two lifetimes and two holding times ago: entries are given a
\* lifetime when they are filled, and a hit does not extend it.
AnswersBounded == Lag!LagSpec
=============================================================================
