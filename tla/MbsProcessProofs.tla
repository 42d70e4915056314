-------------------------- MODULE MbsProcessProofs --------------------------
(***************************************************************************)
(* Proofs about the MBS process: what it leaves in the tables of its       *)
(* services and of the market, and how old a cached policy may be, for any *)
(* number of rows, items, requests, failures and crashes.  A behaviour     *)
(* exercises one area, so each area has an invariant that a step of the    *)
(* others leaves alone: CacheInv, RowsInv, MarketInv.                      *)
(*                                                                         *)
(* The cache comes first: it implements BoundedLag.  CacheInv follows the  *)
(* age of a value, the ticks since the authority replaced it, along its    *)
(* way: a request that found it at the origin, L2, a request that found it *)
(* in L2, L1.  Each place adds at most the time it keeps the value.        *)
(***************************************************************************)
EXTENDS MbsProcess, TLAPS, FiniteSetTheorems

Value == [op : {"get"}, version : 0..version, held : 0..MaxHold]
EntryType == [version : 0..version, left : Nat]

\* The age of a value that is stored in L1.
Filled == IF redis THEN MaxHold + (L2TTL - 1) + MaxHold ELSE MaxHold

\* The authority's version has no age.
AuthorityRight ==
  /\ redis \in BOOLEAN /\ version \in 0..MaxVersion
  /\ since \in [0..MaxVersion -> Nat]
  /\ \A v \in 0..MaxVersion : v >= version => since[v] = 0

HeldRight(w) ==
  /\ Holds(w) => req[w] \in Value
  /\ pc[w] \in {"l2", "hit: fill l1"} => redis
  /\ pc[w] \in {"fill l1", "fill l2"} => since[req[w].version] <= req[w].held
  /\ pc[w] = "hit: fill l1" => since[req[w].version] <= MaxHold + (L2TTL - 1) + req[w].held

RequestsRight ==
  /\ pc = [w \in Workers |-> pc[w]] /\ req = [w \in Workers |-> req[w]]
  /\ \A w \in Workers : HeldRight(w)

L1Right ==
  /\ l1 \in EntryType
  /\ Usable(l1) => since[l1.version] <= (Filled + L1TTL) - l1.left

L2Right ==
  /\ l2 \in EntryType
  /\ Usable(l2) => since[l2.version] <= (MaxHold + L2TTL) - l2.left

CacheInv == AuthorityRight /\ RequestsRight /\ L1Right /\ L2Right

Steps == CacheNext \/ (CrashRequests /\ CacheCrash)

-----------------------------------------------------------------------------
(* A request moves, and the authority and the clock do not.                *)

\* Request w goes to step p and holds r.
Moved(w, p, r) == pc' = [pc EXCEPT ![w] = p] /\ req' = [req EXCEPT ![w] = r]

\* What no request touches.
Still == UNCHANGED <<redis, version, since>>

\* What the requests hold is right if the new step and value of the one that
\* moves are.
LEMMA MovedKeeps ==
  ASSUME CacheInv, NEW w \in Workers, NEW p, NEW r, Moved(w, p, r), Still,
         p \in {"hit: fill l1", "fill l1", "fill l2"} => r \in Value,
         p \in {"l2", "hit: fill l1"} => redis,
         p \in {"fill l1", "fill l2"} => since[r.version] <= r.held,
         p = "hit: fill l1" => since[r.version] <= MaxHold + (L2TTL - 1) + r.held
  PROVE  RequestsRight'
<1>1. pc = [v \in Workers |-> pc[v]] /\ req = [v \in Workers |-> req[v]]
  BY DEF CacheInv, RequestsRight
<1>2. pc' = [v \in Workers |-> pc'[v]]
  BY <1>1 DEF Moved
<1>3. req' = [v \in Workers |-> IF v = w THEN r ELSE req[v]]
  BY <1>1 DEF Moved
<1>4. req' = [v \in Workers |-> req'[v]]
  BY <1>3
<1>5. Value' = Value
  BY DEF Value, Still
<1>6. ASSUME NEW v \in Workers
      PROVE  HeldRight(v)'
  <2>1. CASE v = w
    <3>1. pc'[v] = p /\ req'[v] = r
      BY <2>1, <1>1, <1>3 DEF Moved
    <3>2. QED
      BY <3>1, <1>5 DEF Holds, HeldRight, Still
  <2>2. CASE v # w
    <3>1. pc'[v] = pc[v] /\ req'[v] = req[v]
      BY <2>2, <1>1, <1>3 DEF Moved
    <3>2. QED
      BY <3>1, <1>5 DEF CacheInv, RequestsRight, HeldRight, Holds, Still
  <2>3. QED
    BY <2>1, <2>2
<1>7. QED
  BY <1>2, <1>4, <1>6 DEF RequestsRight

\* A request whose new step holds no value need not be looked at.
LEMMA MovedQuietly ==
  ASSUME CacheInv, NEW w \in Workers, NEW p, NEW r, Moved(w, p, r), Still,
         p \notin {"hit: fill l1", "fill l1", "fill l2"}, p = "l2" => redis
  PROVE  RequestsRight'
BY MovedKeeps

\* Requests that do not change stay right.
LEMMA RequestsKept ==
  ASSUME CacheInv, Still, UNCHANGED <<pc, req>>
  PROVE  RequestsRight'
<1>1. Value' = Value
  BY DEF Value, Still
<1>2. QED
  BY <1>1 DEF CacheInv, RequestsRight, HeldRight, Holds, Still

\* Statements of a handler move its request.
LEMMA GotoMoved ==
  ASSUME CacheInv, NEW w \in Workers, NEW step, NEW next, Goto(w, step, next)
  PROVE  pc[w] = step /\ Moved(w, next, IF next = "idle" THEN NoRequest ELSE req[w])
BY DEF CacheInv, RequestsRight, Goto, Moved

\* Levels that a step does not fill stay right, and so does the authority.
LEMMA LevelsKept ==
  ASSUME CacheInv, Still
  PROVE  /\ AuthorityRight' /\ EntryType' = EntryType /\ Filled' = Filled
         /\ l1' = l1 => L1Right'
         /\ l2' = l2 => L2Right'
BY DEF CacheInv, AuthorityRight, L1Right, L2Right, EntryType, Filled, Usable, Still

\* An emptied level is right.
LEMMA EmptiedRight ==
  ASSUME CacheInv, Still
  PROVE  (l1' = Empty => L1Right') /\ (l2' = Empty => L2Right')
<1>1. Empty \in EntryType' /\ ~Usable(Empty)
  BY DEF CacheInv, AuthorityRight, Empty, EntryType, Usable, Still
<1>2. QED
  BY <1>1 DEF L1Right, L2Right, Usable

-----------------------------------------------------------------------------
(* The steps.                                                              *)

LEMMA GetKeeps ==
  ASSUME CacheInv, NEW w \in Workers,
         GetHit(w) \/ GetMiss(w) \/ ReadL2(w) \/ ReadL2Fails(w) \/ ReadOrigin(w) \/ ReadOriginFails(w)
  PROVE  CacheInv'
<1>1. Still /\ l1' = l1 /\ l2' = l2
  BY DEF GetHit, GetMiss, ReadL2, ReadL2Fails, ReadOrigin, ReadOriginFails, Still, cacheVars
<1>2. AuthorityRight' /\ L1Right' /\ L2Right'
  BY <1>1, LevelsKept
<1>3. RequestsRight'
  <2>1. CASE GetHit(w)
    BY <2>1, <1>1, RequestsKept DEF GetHit, StartAndAnswer
  <2>2. CASE GetMiss(w)
    <3>1. Moved(w, IF redis THEN "l2" ELSE "origin", NoValue)
      BY <2>2 DEF GetMiss, Start, Moved
    <3>2. QED
      BY <3>1, <1>1, MovedQuietly
  <2>3. CASE ReadL2(w) /\ Usable(l2)
    <3>1. Moved(w, "hit: fill l1", Found(l2.version)) /\ pc[w] = "l2"
      BY <2>3 DEF ReadL2, Find, Moved
    <3>2. redis
      BY <3>1 DEF CacheInv, RequestsRight, HeldRight
    <3>3. Found(l2.version) \in Value /\ Found(l2.version).held = 0 /\ Found(l2.version).version = l2.version
      BY CacheAssumption DEF CacheInv, L2Right, EntryType, Found, Value
    <3>4. since[l2.version] <= MaxHold + (L2TTL - 1)
      <4>1. l2.version \in 0..MaxVersion /\ l2.left \in Nat /\ l2.left > 0 /\ version \in 0..MaxVersion
        <5>1. l2.version \in 0..version /\ l2.left \in Nat /\ l2.left > 0 /\ version \in 0..MaxVersion
          BY <2>3 DEF CacheInv, AuthorityRight, L2Right, EntryType, Usable
        <5>2. QED
          BY <5>1, CacheAssumption
      <4>2. since[l2.version] \in Nat
        BY <4>1 DEF CacheInv, AuthorityRight
      <4>3. since[l2.version] <= (MaxHold + L2TTL) - l2.left
        BY <2>3 DEF CacheInv, L2Right
      <4>4. QED
        BY <4>1, <4>2, <4>3, CacheAssumption
    <3>5. since[Found(l2.version).version] <= MaxHold + (L2TTL - 1) + Found(l2.version).held
      BY <3>3, <3>4, CacheAssumption
    <3>6. QED
      BY <3>1, <3>2, <3>3, <3>5, <1>1, MovedKeeps
  <2>4. CASE (ReadL2(w) /\ ~Usable(l2)) \/ ReadL2Fails(w)
    <3>1. Moved(w, "origin", req[w])
      BY <2>4, GotoMoved DEF ReadL2, ReadL2Fails, Proceed, ProceedFailed
    <3>2. "origin" \notin {"hit: fill l1", "fill l1", "fill l2"} /\ "origin" # "l2"
      OBVIOUS
    <3>3. QED
      BY <3>1, <3>2, <1>1, MovedQuietly
  <2>5. CASE ReadOrigin(w)
    <3>1. Moved(w, "fill l1", Found(version))
      BY <2>5 DEF ReadOrigin, Find, Moved
    <3>2. Found(version) \in Value /\ Found(version).held = 0 /\ Found(version).version = version
      BY CacheAssumption DEF CacheInv, AuthorityRight, Found, Value
    <3>3. since[version] = 0
      BY CacheAssumption DEF CacheInv, AuthorityRight
    <3>4. since[Found(version).version] <= Found(version).held
      BY <3>2, <3>3
    <3>5. "fill l1" \notin {"l2", "hit: fill l1"} /\ "fill l1" # "hit: fill l1"
      OBVIOUS
    <3>6. QED
      BY <3>1, <3>2, <3>4, <3>5, <1>1, MovedKeeps
  <2>6. CASE ReadOriginFails(w)
    <3>1. Moved(w, "idle", NoRequest)
      BY <2>6, GotoMoved DEF ReadOriginFails, ProceedFailed
    <3>2. QED
      BY <3>1, <1>1, MovedQuietly
  <2>7. QED
    BY <2>1, <2>2, <2>3, <2>4, <2>5, <2>6
<1>4. QED
  BY <1>2, <1>3 DEF CacheInv

\* The value a request is about to store: its types, and its age.
LEMMA HeldFacts ==
  ASSUME CacheInv, NEW w \in Workers, Holds(w)
  PROVE  /\ req[w] \in Value /\ req[w].version \in 0..version /\ req[w].version \in 0..MaxVersion
         /\ since[req[w].version] \in Nat
         /\ pc[w] \in {"fill l1", "fill l2"} => since[req[w].version] <= MaxHold
         /\ since[req[w].version] <= Filled
<1>1. req[w] \in Value /\ version \in 0..MaxVersion /\ HeldRight(w)
  BY DEF CacheInv, AuthorityRight, RequestsRight, HeldRight
<1>2. req[w].version \in 0..version /\ req[w].version \in 0..MaxVersion /\ req[w].held \in 0..MaxHold
  BY <1>1, CacheAssumption DEF Value
<1>3. since[req[w].version] \in Nat
  BY <1>2 DEF CacheInv, AuthorityRight
<1>4. CASE pc[w] \in {"fill l1", "fill l2"}
  <2>1. since[req[w].version] <= MaxHold
    <3>1. since[req[w].version] <= req[w].held
      BY <1>1, <1>4 DEF HeldRight
    <3>2. req[w].held \in Nat /\ req[w].held <= MaxHold
      BY <1>2, CacheAssumption
    <3>3. QED
      BY <3>1, <3>2, <1>3, CacheAssumption
  <2>2. MaxHold <= Filled
    BY CacheAssumption DEF Filled
  <2>3. Filled \in Nat
    BY CacheAssumption DEF Filled
  <2>4. since[req[w].version] <= Filled
    BY <2>1, <2>2, <2>3, <1>3, CacheAssumption
  <2>5. QED
    BY <2>1, <2>4, <1>1, <1>2, <1>3
<1>5. CASE pc[w] = "hit: fill l1"
  <2>1. redis /\ since[req[w].version] <= MaxHold + (L2TTL - 1) + req[w].held
    BY <1>1, <1>5 DEF HeldRight
  <2>2. since[req[w].version] <= Filled
    BY <2>1, <1>2, <1>3, CacheAssumption DEF Filled
  <2>3. QED
    BY <2>2, <1>1, <1>2, <1>3, <1>5
<1>6. QED
  BY <1>4, <1>5 DEF Holds

LEMMA FillKeeps ==
  ASSUME CacheInv, NEW w \in Workers, FillL1(w) \/ FillL2(w) \/ FillL2Fails(w)
  PROVE  CacheInv'
<1>1. Still /\ Holds(w)
  BY DEF FillL1, FillL2, FillL2Fails, Still, Holds, Answer, Proceed, ProceedFailed, Goto
<1>2. AuthorityRight' /\ EntryType' = EntryType /\ Filled' = Filled
  BY <1>1, LevelsKept
<1>3. RequestsRight'
  <2>1. CASE FillL1(w) /\ pc[w] = "fill l1" /\ redis
    <3>1. Moved(w, "fill l2", req[w])
      BY <2>1, GotoMoved DEF FillL1, Proceed
    <3>2. req[w] \in Value /\ since[req[w].version] <= req[w].held
      BY <2>1 DEF CacheInv, RequestsRight, HeldRight, Holds
    <3>3. QED
      BY <3>1, <3>2, <1>1, MovedKeeps
  <2>2. CASE ~(FillL1(w) /\ pc[w] = "fill l1" /\ redis)
    <3>1. Moved(w, "idle", NoRequest)
      BY <2>2, GotoMoved DEF FillL1, FillL2, FillL2Fails, Answer, Proceed, ProceedFailed
    <3>2. QED
      BY <3>1, <1>1, MovedQuietly
  <2>3. QED
    BY <2>1, <2>2
<1>4. L1Right'
  <2>1. CASE FillL1(w)
    <3>1. l1' = [version |-> req[w].version, left |-> L1TTL] /\ since' = since
      BY <2>1 DEF FillL1
    <3>2. l1' \in EntryType /\ l1'.version = req[w].version /\ l1'.left = L1TTL
      BY <3>1, <1>1, HeldFacts, CacheAssumption DEF EntryType
    <3>3. since[req[w].version] <= (Filled + L1TTL) - L1TTL
      <4>1. since[req[w].version] \in Nat /\ since[req[w].version] <= Filled
        BY <1>1, HeldFacts
      <4>2. Filled \in Nat
        BY CacheAssumption DEF Filled
      <4>3. QED
        BY <4>1, <4>2, CacheAssumption
    <3>4. QED
      BY <3>1, <3>2, <3>3, <1>2 DEF L1Right
  <2>2. CASE ~FillL1(w)
    BY <2>2, <1>1, LevelsKept DEF FillL2, FillL2Fails
  <2>3. QED
    BY <2>1, <2>2
<1>5. L2Right'
  <2>1. CASE FillL2(w)
    <3>1. l2' = [version |-> req[w].version, left |-> L2TTL] /\ since' = since /\ pc[w] = "fill l2"
      BY <2>1 DEF FillL2, Answer, Proceed, Goto
    <3>2. l2' \in EntryType /\ l2'.version = req[w].version /\ l2'.left = L2TTL
      BY <3>1, <1>1, HeldFacts, CacheAssumption DEF EntryType
    <3>3. since[req[w].version] <= (MaxHold + L2TTL) - L2TTL
      <4>1. since[req[w].version] \in Nat /\ since[req[w].version] <= MaxHold
        BY <3>1, <1>1, HeldFacts
      <4>2. QED
        BY <4>1, CacheAssumption
    <3>4. QED
      BY <3>1, <3>2, <3>3, <1>2 DEF L2Right
  <2>2. CASE ~FillL2(w)
    BY <2>2, <1>1, LevelsKept DEF FillL1, FillL2Fails
  <2>3. QED
    BY <2>1, <2>2
<1>6. QED
  BY <1>2, <1>3, <1>4, <1>5 DEF CacheInv

LEMMA InvalidateKeeps ==
  ASSUME CacheInv, NEW w \in Workers, InvalidateAll(w) \/ DropL2(w) \/ DropL2Fails(w)
  PROVE  CacheInv'
<1>1. Still
  BY DEF InvalidateAll, DropL2, DropL2Fails, Still, cacheVars
<1>2. AuthorityRight' /\ L1Right' /\ L2Right'
  <2>1. (l1' = l1 \/ l1' = Empty) /\ (l2' = l2 \/ l2' = Empty)
    BY DEF InvalidateAll, DropL2, DropL2Fails, cacheVars
  <2>2. QED
    BY <2>1, <1>1, LevelsKept, EmptiedRight
<1>3. RequestsRight'
  <2>1. CASE InvalidateAll(w) /\ redis
    <3>1. Moved(w, "drop l2", [NoValue EXCEPT !.op = "invalidate"])
      BY <2>1 DEF InvalidateAll, Start, Moved
    <3>2. "drop l2" \notin {"hit: fill l1", "fill l1", "fill l2"} /\ "drop l2" # "l2"
      OBVIOUS
    <3>3. QED
      BY <3>1, <3>2, <1>1, MovedQuietly
  <2>2. CASE InvalidateAll(w) /\ ~redis
    BY <2>2, <1>1, RequestsKept DEF InvalidateAll, StartAndAnswer
  <2>3. CASE DropL2(w) \/ DropL2Fails(w)
    <3>1. Moved(w, "idle", NoRequest)
      BY <2>3, GotoMoved DEF DropL2, DropL2Fails, Proceed, ProceedFailed
    <3>2. QED
      BY <3>1, <1>1, MovedQuietly
  <2>4. QED
    BY <2>1, <2>2, <2>3
<1>4. QED
  BY <1>2, <1>3 DEF CacheInv

\* A new version replaces one that has had no time to age.
LEMMA WriteKeeps ==
  ASSUME CacheInv, WritePolicies
  PROVE  CacheInv'
<1>1. /\ version < MaxVersion /\ version' = version + 1
      /\ UNCHANGED <<redis, since, l1, l2, pc, req>>
  BY DEF WritePolicies, requestVars
<1>2. AuthorityRight'
  BY <1>1, CacheAssumption DEF CacheInv, AuthorityRight
<1>3. 0..version \subseteq 0..version'
  BY <1>1 DEF CacheInv, AuthorityRight
<1>4. L1Right' /\ L2Right'
  BY <1>1, <1>3 DEF CacheInv, L1Right, L2Right, EntryType, Filled, Usable
<1>5. RequestsRight'
  <2>1. Value \subseteq Value'
    BY <1>3 DEF Value
  <2>2. QED
    BY <1>1, <2>1 DEF CacheInv, RequestsRight, HeldRight, Holds
<1>6. QED
  BY <1>2, <1>4, <1>5 DEF CacheInv

\* A tick ages a value, and takes as much from the time its place keeps it.
LEMMA TickKeeps ==
  ASSUME CacheInv, Tick
  PROVE  CacheInv'
<1>1. /\ UNCHANGED <<redis, version, pc>> /\ l1' = Aged(l1) /\ l2' = Aged(l2)
      /\ since' = [v \in 0..MaxVersion |-> IF v < version THEN since[v] + 1 ELSE 0]
  BY DEF Tick
<1>2. /\ version \in 0..MaxVersion /\ since \in [0..MaxVersion -> Nat] /\ redis \in BOOLEAN
      /\ l1 \in EntryType /\ l2 \in EntryType
  BY DEF CacheInv, AuthorityRight, L1Right, L2Right
<1>3. AuthorityRight'
  BY <1>1, <1>2, CacheAssumption DEF AuthorityRight
<1>4. EntryType' = EntryType /\ Filled' = Filled /\ Value' = Value /\ Filled \in Nat
  BY <1>1, <1>2, CacheAssumption DEF EntryType, Filled, Value
<1>5. \A v \in 0..version : v \in 0..MaxVersion /\ since[v] \in Nat /\ since'[v] \in Nat /\ since'[v] <= since[v] + 1
  <2>1. ASSUME NEW v \in 0..version
        PROVE  v \in 0..MaxVersion /\ since[v] \in Nat /\ since'[v] \in Nat /\ since'[v] <= since[v] + 1
    <3>1. v \in 0..MaxVersion /\ v \in Int /\ version \in Int
      BY <1>2, CacheAssumption
    <3>2. since[v] \in Nat
      BY <3>1, <1>2
    <3>3. since'[v] = IF v < version THEN since[v] + 1 ELSE 0
      BY <3>1, <1>1
    <3>4. QED
      BY <3>1, <3>2, <3>3
  <2>2. QED
    BY <2>1
<1>6. ASSUME NEW entry \in EntryType, NEW limit \in Nat, Usable(entry) => since[entry.version] <= limit - entry.left
      PROVE  /\ Aged(entry) \in EntryType
             /\ Usable(Aged(entry)) => since'[Aged(entry).version] <= limit - Aged(entry).left
  <2>1. entry.version \in 0..version /\ entry.left \in Nat
    BY DEF EntryType
  <2>2. /\ Aged(entry).version = entry.version
        /\ Aged(entry).left = IF entry.left > 0 THEN entry.left - 1 ELSE 0
    BY DEF Aged, EntryType
  <2>3. Aged(entry) \in EntryType
    BY <2>1 DEF Aged, EntryType
  <2>4. ASSUME Usable(Aged(entry))
        PROVE  since'[entry.version] <= limit - Aged(entry).left
    <3>1. entry.left > 0 /\ Aged(entry).left = entry.left - 1
      BY <2>1, <2>2, <2>4 DEF Usable
    <3>2. since[entry.version] <= limit - entry.left
      BY <3>1, <1>6 DEF Usable
    <3>3. since'[entry.version] \in Nat /\ since[entry.version] \in Nat /\ since'[entry.version] <= since[entry.version] + 1
      BY <2>1, <1>5
    <3>4. QED
      BY <3>1, <3>2, <3>3, <2>1
  <2>5. QED
    BY <2>2, <2>3, <2>4
<1>7. L1Right'
  <2>1. Filled + L1TTL \in Nat
    BY <1>4, CacheAssumption
  <2>4. Usable(l1) => since[l1.version] <= (Filled + L1TTL) - l1.left
    BY DEF CacheInv, L1Right
  <2>2. /\ Aged(l1) \in EntryType
        /\ Usable(Aged(l1)) => since'[Aged(l1).version] <= (Filled + L1TTL) - Aged(l1).left
    BY <2>1, <2>4, <1>2, <1>6
  <2>3. QED
    <3>1. l1' = Aged(l1) /\ Filled' + L1TTL' = Filled + L1TTL
      BY <1>1, <1>4
    <3>2. L1Right' <=> /\ l1' \in EntryType'
                       /\ l1'.left > 0 => since'[l1'.version] <= (Filled' + L1TTL) - l1'.left
      BY DEF L1Right, Usable
    <3>3. QED
      BY <2>2, <3>1, <3>2, <1>4 DEF Usable
<1>8. L2Right'
  <2>1. MaxHold + L2TTL \in Nat
    BY CacheAssumption
  <2>4. Usable(l2) => since[l2.version] <= (MaxHold + L2TTL) - l2.left
    BY DEF CacheInv, L2Right
  <2>2. /\ Aged(l2) \in EntryType
        /\ Usable(Aged(l2)) => since'[Aged(l2).version] <= (MaxHold + L2TTL) - Aged(l2).left
    BY <2>1, <2>4, <1>2, <1>6
  <2>3. QED
    <3>1. L2Right' <=> /\ l2' \in EntryType'
                       /\ l2'.left > 0 => since'[l2'.version] <= (MaxHold + L2TTL) - l2'.left
      BY DEF L2Right, Usable
    <3>2. QED
      BY <2>2, <3>1, <1>1, <1>4 DEF Usable
<1>9. RequestsRight'
  <2>1. /\ \A w \in Workers : Holds(w) => req[w].held < MaxHold
        /\ req' = [w \in Workers |-> IF Holds(w) THEN [req[w] EXCEPT !.held = @ + 1] ELSE req[w]]
    BY DEF Tick
  <2>2. ASSUME NEW w \in Workers
        PROVE  HeldRight(w)'
    <3>1. HeldRight(w) /\ pc'[w] = pc[w]
      BY <1>1 DEF CacheInv, RequestsRight
    <3>2. CASE Holds(w)
      <4>1. req[w] \in Value /\ req[w].held < MaxHold /\ req'[w] = [req[w] EXCEPT !.held = @ + 1]
        BY <3>1, <3>2, <2>1 DEF HeldRight
      <4>2. /\ req[w].version \in 0..version /\ req[w].held \in 0..MaxHold
            /\ req'[w].version = req[w].version /\ req'[w].held = req[w].held + 1
        BY <4>1 DEF Value
      <4>3. req'[w] \in Value
        BY <4>1, <4>2, CacheAssumption DEF Value
      <4>4. /\ since[req[w].version] \in Nat /\ since'[req[w].version] \in Nat
            /\ since'[req[w].version] <= since[req[w].version] + 1
        BY <4>2, <1>5
      <4>5. pc[w] \in {"fill l1", "fill l2"} => since'[req'[w].version] <= req'[w].held
        <5>1. pc[w] \in {"fill l1", "fill l2"} => since[req[w].version] <= req[w].held
          BY <3>1 DEF HeldRight
        <5>2. since'[req'[w].version] <= since[req[w].version] + 1 /\ since'[req'[w].version] \in Nat
          BY <4>2, <4>4
        <5>3. req[w].held \in Nat /\ req'[w].held \in Nat /\ req'[w].held = req[w].held + 1
          BY <4>2, CacheAssumption
        <5>4. ASSUME pc[w] \in {"fill l1", "fill l2"}
              PROVE  since'[req'[w].version] <= req'[w].held
          <6>1. since[req[w].version] <= req[w].held
            BY <5>1, <5>4
          <6>2. QED
            BY <6>1, <5>2, <5>3, <4>4, CacheAssumption
        <5>5. QED
          BY <5>4
      <4>6. pc[w] = "hit: fill l1" => since'[req'[w].version] <= MaxHold + (L2TTL - 1) + req'[w].held
        <5>1. pc[w] = "hit: fill l1" => since[req[w].version] <= MaxHold + (L2TTL - 1) + req[w].held
          BY <3>1 DEF HeldRight
        <5>2. since'[req'[w].version] <= since[req[w].version] + 1 /\ since'[req'[w].version] \in Nat
          BY <4>2, <4>4
        <5>3. req[w].held \in Nat /\ req'[w].held \in Nat /\ req'[w].held = req[w].held + 1
          BY <4>2, CacheAssumption
        <5>4. ASSUME pc[w] = "hit: fill l1"
              PROVE  since'[req'[w].version] <= MaxHold + (L2TTL - 1) + req'[w].held
          <6>1. since[req[w].version] <= MaxHold + (L2TTL - 1) + req[w].held
            BY <5>1, <5>4
          <6>2. QED
            BY <6>1, <5>2, <5>3, <4>4, CacheAssumption
        <5>5. QED
          BY <5>4
      <4>7. QED
        BY <3>1, <4>3, <4>5, <4>6, <1>1, <1>4 DEF HeldRight
    <3>3. CASE ~Holds(w)
      BY <3>1, <3>3, <1>1 DEF HeldRight, Holds
    <3>4. QED
      BY <3>2, <3>3
  <2>3. req' = [w \in Workers |-> req'[w]] /\ pc' = [w \in Workers |-> pc'[w]]
    BY <2>1, <1>1 DEF CacheInv, RequestsRight
  <2>4. QED
    BY <2>2, <2>3 DEF RequestsRight
<1>10. QED
  BY <1>3, <1>7, <1>8, <1>9 DEF CacheInv

LEMMA CrashKeeps ==
  ASSUME CacheInv, CrashRequests /\ CacheCrash
  PROVE  CacheInv'
<1>1. Still /\ l1' = Empty /\ l2' = l2
  BY DEF CacheCrash, Still
<1>2. RequestsRight'
  BY DEF CrashRequests, RequestsRight, HeldRight, Holds
<1>3. QED
  BY <1>1, <1>2, LevelsKept, EmptiedRight DEF CacheInv

LEMMA CacheInvStarts == RequestsInit /\ CacheInit => CacheInv
<1>1. SUFFICES ASSUME RequestsInit, CacheInit
               PROVE  CacheInv
  OBVIOUS
<1>2. AuthorityRight
  <2>1. version = 0 /\ since = [v \in 0..MaxVersion |-> 0] /\ redis \in BOOLEAN
    BY <1>1 DEF CacheInit
  <2>2. QED
    BY <2>1, CacheAssumption DEF AuthorityRight
<1>3. L1Right /\ L2Right
  <2>1. Empty \in EntryType
    BY <1>2, CacheAssumption DEF AuthorityRight, Empty, EntryType
  <2>2. ~Usable(Empty)
    BY DEF Empty, Usable
  <2>3. QED
    BY <1>1, <2>1, <2>2 DEF CacheInit, L1Right, L2Right
<1>4. RequestsRight
  <2>1. pc = [w \in Workers |-> "idle"] /\ req = [w \in Workers |-> NoRequest]
    BY <1>1 DEF RequestsInit
  <2>2. ASSUME NEW w \in Workers
        PROVE  HeldRight(w)
    <3>1. pc[w] = "idle"
      BY <2>1
    <3>2. QED
      BY <3>1 DEF HeldRight, Holds
  <2>3. QED
    BY <2>1, <2>2 DEF RequestsRight
<1>5. QED
  BY <1>2, <1>3, <1>4 DEF CacheInv

LEMMA CacheInvKept == CacheInv /\ [Steps]_<<requestVars, cacheVars>> => CacheInv'
<1>1. SUFFICES ASSUME CacheInv, [Steps]_<<requestVars, cacheVars>>
               PROVE  CacheInv'
  OBVIOUS
<1>2. CASE CacheNext
  BY <1>1, <1>2, GetKeeps, FillKeeps, InvalidateKeeps, WriteKeeps, TickKeeps DEF CacheNext
<1>3. CASE CrashRequests /\ CacheCrash
  BY <1>1, <1>3, CrashKeeps
<1>4. CASE UNCHANGED <<requestVars, cacheVars>>
  <2>1. Still /\ UNCHANGED <<pc, req>> /\ l1' = l1 /\ l2' = l2
    BY <1>4 DEF requestVars, cacheVars, Still
  <2>2. QED
    BY <1>1, <2>1, RequestsKept, LevelsKept DEF CacheInv
<1>5. QED
  BY <1>1, <1>2, <1>3, <1>4 DEF Steps

\* The invariant holds throughout: every value in the cache is younger than
\* its place allows.
THEOREM CacheInvHolds == CacheSpec => []CacheInv
<1>1. CacheSpec => RequestsInit /\ CacheInit /\ [][Steps]_<<requestVars, cacheVars>>
  BY DEF CacheSpec, Steps
<1>2. QED
  BY <1>1, CacheInvStarts, CacheInvKept, PTL

-----------------------------------------------------------------------------
(* The refinement.                                                         *)

\* The answers of the cache are answers BoundedLag allows.
LEMMA ReplyAllowed ==
  ASSUME CacheInv, Still, NEW v \in 0..version, since[v] <= Staleness, Answered(v)
  PROVE  Lag!LagNext
<1>1. v \in 0..MaxVersion
  BY CacheAssumption DEF CacheInv, AuthorityRight
<1>2. Staleness' = Staleness
  BY DEF Still, Staleness
<1>3. Lag!Reply(v)
  BY <1>2 DEF Lag!Reply, Answered, Still
<1>4. QED
  BY <1>1, <1>3 DEF Lag!LagNext

LEMMA FilledWithin ==
  ASSUME CacheInv
  PROVE  Filled \in Nat /\ Staleness \in Nat /\ Filled + (L1TTL - 1) = Staleness /\ Filled <= Staleness
BY CacheAssumption DEF Filled, Staleness

LEMMA StepRefines ==
  CacheInv /\ [Steps]_<<requestVars, cacheVars>> => [Lag!LagNext]_(Lag!lagVars)
<1>1. SUFFICES ASSUME CacheInv, [Steps]_<<requestVars, cacheVars>>
               PROVE  [Lag!LagNext]_(Lag!lagVars)
  OBVIOUS
<1>2. ASSUME Still, UNCHANGED answer
      PROVE  UNCHANGED Lag!lagVars
  BY <1>2 DEF Lag!lagVars, Still, Staleness
<1>3. ASSUME NEW w \in Workers, GetHit(w)
      PROVE  Lag!LagNext
  <2>1. Still /\ Usable(l1) /\ Answered(l1.version)
    BY <1>3 DEF GetHit, Still
  <2>2. l1.version \in 0..version /\ l1.left \in Nat /\ l1.left > 0 /\ version \in 0..MaxVersion
    BY <1>1, <2>1 DEF CacheInv, AuthorityRight, L1Right, EntryType, Usable
  <2>3. since[l1.version] \in Nat
    BY <1>1, <2>2, CacheAssumption DEF CacheInv, AuthorityRight
  <2>4. since[l1.version] <= (Filled + L1TTL) - l1.left
    BY <1>1, <2>1 DEF CacheInv, L1Right
  <2>5. since[l1.version] <= Staleness
    BY <1>1, <2>2, <2>3, <2>4, FilledWithin, CacheAssumption
  <2>6. QED
    BY <1>1, <2>1, <2>2, <2>5, ReplyAllowed
<1>4. ASSUME NEW w \in Workers, FillL1(w) \/ FillL2(w) \/ FillL2Fails(w)
      PROVE  [Lag!LagNext]_(Lag!lagVars)
  <2>1. Still /\ Holds(w)
    BY <1>4 DEF FillL1, FillL2, FillL2Fails, Still, Holds, Answer, Proceed, ProceedFailed, Goto
  <2>2. UNCHANGED answer \/ Answered(req[w].version)
    BY <1>4 DEF FillL1, FillL2, FillL2Fails, Answer, Answered
  <2>3. /\ req[w].version \in 0..version /\ since[req[w].version] \in Nat
        /\ since[req[w].version] <= Filled
    BY <1>1, <2>1, HeldFacts
  <2>4. since[req[w].version] <= Staleness
    BY <1>1, <2>3, FilledWithin
  <2>5. CASE UNCHANGED answer
    BY <2>1, <2>5, <1>2
  <2>6. CASE Answered(req[w].version)
    BY <1>1, <2>1, <2>3, <2>4, <2>6, ReplyAllowed
  <2>7. QED
    BY <2>2, <2>5, <2>6
<1>5. ASSUME NEW w \in Workers,
             GetMiss(w) \/ ReadL2(w) \/ ReadL2Fails(w) \/ ReadOrigin(w) \/ ReadOriginFails(w)
               \/ InvalidateAll(w) \/ DropL2(w) \/ DropL2Fails(w)
      PROVE  UNCHANGED Lag!lagVars
  BY <1>5, <1>2 DEF GetMiss, ReadL2, ReadL2Fails, ReadOrigin, ReadOriginFails, InvalidateAll,
                    DropL2, DropL2Fails, cacheVars, Still
<1>6. ASSUME WritePolicies
      PROVE  Lag!LagNext
  BY <1>6 DEF WritePolicies, Lag!LagNext, Lag!Change, Staleness
<1>7. ASSUME Tick
      PROVE  Lag!LagNext
  BY <1>7 DEF Tick, Lag!LagNext, Lag!Pass, Staleness
<1>8. ASSUME CacheCrash \/ UNCHANGED <<requestVars, cacheVars>>
      PROVE  UNCHANGED Lag!lagVars
  BY <1>8, <1>2 DEF CacheCrash, cacheVars, Still
<1>9. QED
  BY <1>1, <1>3, <1>4, <1>5, <1>6, <1>7, <1>8 DEF Steps, CacheNext

LEMMA InitRefines == RequestsInit /\ CacheInit => Lag!LagInit
<1>1. CacheInit => Staleness \in Nat
  BY CacheAssumption DEF CacheInit, Staleness
<1>2. QED
  BY <1>1 DEF CacheInit, Lag!LagInit

\* AnswersBounded: the three-level cache, for all lifetimes, bounds, requests
\* and failures, answers with policies that OAS stopped having at most two
\* lifetimes and two holding times ago.
THEOREM CacheRefinesBoundedLag == CacheSpec => AnswersBounded
<1>1. CacheSpec => RequestsInit /\ CacheInit /\ [][Steps]_<<requestVars, cacheVars>>
  BY DEF CacheSpec, Steps
<1>2. Lag!LagInit /\ [][Lag!LagNext]_(Lag!lagVars) => AnswersBounded
  BY DEF AnswersBounded, Lag!LagSpec
<1>3. QED
  BY <1>1, <1>2, CacheInvHolds, InitRefines, StepRefines, PTL

\* In the MBS process, beside the requests for its rows and stores.
THEOREM AnswersBoundedCorrect == Spec => AnswersBounded
<1> DEFINE Inv == area = "cache" => CacheInv
<1>1. Init => Inv /\ Lag!LagInit
  BY CacheInvStarts, InitRefines DEF Init
<1>2. ASSUME Inv, [Next]_processVars
      PROVE  Inv' /\ [Lag!LagNext]_(Lag!lagVars)
  <2>1. area' = area
    BY <1>2 DEF Next, Rows, Bus, Market, Cache, Crash, processVars
  <2>2. CASE area = "cache"
    <3>1. [Steps]_<<requestVars, cacheVars>>
      BY <1>2, <2>2 DEF Next, Rows, Bus, Market, Cache, Crash, Steps, processVars
    <3>2. QED
      BY <1>2, <2>1, <2>2, <3>1, CacheInvKept, StepRefines
  <2>3. CASE area # "cache"
    <3>1. UNCHANGED cacheVars
      BY <1>2, <2>3 DEF Next, Rows, Bus, Market, Cache, Crash, processVars
    <3>2. UNCHANGED Lag!lagVars
      BY <3>1 DEF cacheVars, Lag!lagVars, Staleness
    <3>3. QED
      BY <2>1, <2>3, <3>2
  <2>4. QED
    BY <2>2, <2>3
<1> HIDE DEF Inv
<1>3. Lag!LagInit /\ [][Lag!LagNext]_(Lag!lagVars) => AnswersBounded
  BY DEF AnswersBounded, Lag!LagSpec
<1>4. QED
  BY <1>1, <1>2, <1>3, PTL DEF Spec
-----------------------------------------------------------------------------
(* Requests.                                                               *)

\* The requests and what is left of the bounds.
Serving ==
  /\ pc = [w \in Workers |-> pc[w]] /\ req = [w \in Workers |-> req[w]]
  /\ budget \in [requests : Nat, faults : 0..MaxFaults, crashes : 0..MaxCrashes]

\* No request but w moves.
Alone(w) ==
  /\ pc' = [v \in Workers |-> IF v = w THEN pc'[w] ELSE pc[v]]
  /\ req' = [v \in Workers |-> IF v = w THEN req'[w] ELSE req[v]]

\* What a step does to the bounds: nothing fails, or something does.
Well == budget'.faults = budget.faults /\ budget'.crashes = budget.crashes
Ill == budget'.faults < budget.faults /\ budget'.crashes = budget.crashes

\* A request starts, at p, with r.
LEMMA StartMoves ==
  ASSUME Serving, NEW w \in Workers, NEW p, NEW r, Start(w, p, r)
  PROVE  /\ Serving' /\ Alone(w) /\ Well
         /\ pc[w] = "idle" /\ pc'[w] = p /\ req'[w] = r
<1>1. budget' = [budget EXCEPT !.requests = budget.requests - 1] /\ budget.requests > 0
  BY DEF Start, Spend
<1>2. budget' \in [requests : Nat, faults : 0..MaxFaults, crashes : 0..MaxCrashes] /\ Well
  BY <1>1 DEF Serving, Well
<1>3. /\ pc' = [v \in Workers |-> IF v = w THEN p ELSE pc[v]]
      /\ req' = [v \in Workers |-> IF v = w THEN r ELSE req[v]]
  BY DEF Serving, Start
<1>4. QED
  BY <1>2, <1>3 DEF Serving, Alone, Start

\* A request starts although its first statement failed.
LEMMA StartFailedMoves ==
  ASSUME Serving, NEW w \in Workers, NEW p, NEW r, StartFailed(w, p, r)
  PROVE  /\ Serving' /\ Alone(w) /\ Ill
         /\ pc[w] = "idle" /\ pc'[w] = p /\ req'[w] = r
<1>1. /\ budget' = [budget EXCEPT !.requests = budget.requests - 1, !.faults = budget.faults - 1]
      /\ budget.requests > 0 /\ budget.faults > 0
  BY DEF StartFailed
<1>2. budget' \in [requests : Nat, faults : 0..MaxFaults, crashes : 0..MaxCrashes] /\ Ill
  <2>1. /\ budget.requests \in Nat /\ budget.faults \in 0..MaxFaults
        /\ budget = [requests |-> budget.requests, faults |-> budget.faults,
                     crashes |-> budget.crashes]
    BY DEF Serving
  <2>2. budget' = [requests |-> budget.requests - 1, faults |-> budget.faults - 1,
                   crashes |-> budget.crashes]
    BY <1>1, <2>1
  <2>3. budget.requests - 1 \in Nat /\ budget.faults - 1 \in 0..MaxFaults
    BY <1>1, <2>1, RequestBoundsAssumption
  <2>4. QED
    BY <2>1, <2>2, <2>3 DEF Serving, Ill
<1>3. /\ pc' = [v \in Workers |-> IF v = w THEN p ELSE pc[v]]
      /\ req' = [v \in Workers |-> IF v = w THEN r ELSE req[v]]
  BY DEF Serving, StartFailed
<1>4. QED
  BY <1>2, <1>3 DEF Serving, Alone, StartFailed

\* A request goes from one statement to the next.
LEMMA GotoMoves ==
  ASSUME Serving, NEW w \in Workers, NEW p, NEW q, Goto(w, p, q)
  PROVE  /\ Alone(w) /\ pc[w] = p /\ pc'[w] = q
         /\ q # "idle" => req'[w] = req[w]
         /\ pc' = [v \in Workers |-> pc'[v]] /\ req' = [v \in Workers |-> req'[v]]
<1>1. /\ pc' = [v \in Workers |-> IF v = w THEN q ELSE pc[v]]
      /\ req' = [v \in Workers |-> IF v = w /\ q = "idle" THEN NoRequest ELSE req[v]]
  BY DEF Serving, Goto
<1>2. QED
  BY <1>1 DEF Alone, Goto

LEMMA ProceedMoves ==
  ASSUME Serving, NEW w \in Workers, NEW p, NEW q, Proceed(w, p, q)
  PROVE  /\ Serving' /\ Alone(w) /\ Well /\ pc[w] = p /\ pc'[w] = q
         /\ q # "idle" => req'[w] = req[w]
BY GotoMoves DEF Proceed, Serving, Well

LEMMA ProceedFailedMoves ==
  ASSUME Serving, NEW w \in Workers, NEW p, NEW q, ProceedFailed(w, p, q)
  PROVE  /\ Serving' /\ Alone(w) /\ Ill /\ pc[w] = p /\ pc'[w] = q
         /\ q # "idle" => req'[w] = req[w]
<1>1. budget' = [budget EXCEPT !.faults = budget.faults - 1] /\ budget.faults > 0
  BY DEF ProceedFailed, Spend
<1>2. budget' \in [requests : Nat, faults : 0..MaxFaults, crashes : 0..MaxCrashes] /\ Ill
  BY <1>1, RequestBoundsAssumption DEF Serving, Ill
<1>3. QED
  BY <1>2, GotoMoves DEF ProceedFailed, Serving

\* A crash leaves no request.
LEMMA CrashMoves ==
  ASSUME Serving, CrashRequests
  PROVE  /\ Serving' /\ budget'.faults = budget.faults /\ budget'.crashes < budget.crashes
         /\ \A w \in Workers : pc'[w] = "idle" /\ req'[w] = NoRequest
<1>1. budget' = [budget EXCEPT !.crashes = budget.crashes - 1] /\ budget.crashes > 0
  BY DEF CrashRequests, Spend
<1>2. /\ budget' \in [requests : Nat, faults : 0..MaxFaults, crashes : 0..MaxCrashes]
      /\ budget'.faults = budget.faults /\ budget'.crashes < budget.crashes
  BY <1>1, RequestBoundsAssumption DEF Serving
<1>3. QED
  BY <1>2 DEF CrashRequests, Serving

\* A request of one statement.
LEMMA AnswerMoves ==
  ASSUME Serving, NEW w \in Workers, StartAndAnswer(w)
  PROVE  Serving' /\ Well /\ UNCHANGED <<pc, req>> /\ Alone(w) /\ pc[w] = "idle"
<1>1. budget' = [budget EXCEPT !.requests = budget.requests - 1] /\ budget.requests > 0
  BY DEF StartAndAnswer, Spend
<1>2. budget' \in [requests : Nat, faults : 0..MaxFaults, crashes : 0..MaxCrashes] /\ Well
  BY <1>1 DEF Serving, Well
<1>3. QED
  BY <1>2 DEF Serving, Alone, StartAndAnswer

\* Statements that fail are counted.
LEMMA IllFaults ==
  ASSUME Serving, Ill
  PROVE  ~NoFault'
BY RequestBoundsAssumption DEF Ill, Serving, NoFault

LEMMA CrashCounted ==
  ASSUME Serving, CrashRequests
  PROVE  ~NoCrash'
BY CrashMoves, RequestBoundsAssumption DEF Serving, NoCrash

-----------------------------------------------------------------------------
(* The services' rows: their handlers.                                     *)

\* The name of a handler tells what it dates, and when it records the status.
DatesOf(op) ==
  IF op = "SubmitVCASE" THEN {"submitted"}
  ELSE IF op = "UpdateExecution" THEN {"executing"}
  ELSE IF op \in {"SubmitCompletion", "UpdateWorkOrder"} THEN {"completed"}
  ELSE IF op = "DecideApproval" THEN {"approved", "rejected"}
  ELSE IF op = "GraduateProject" THEN {"graduate"}
  ELSE IF op = "ActivateTerminal" THEN {"active"}
  ELSE IF op \in {"ApproveSupplier", "ApproveFCase"} THEN {"approved"}
  ELSE IF op = "UpdatePOStatus" THEN {"received", "completed"}
  ELSE IF op = "UpdateFulfillmentStatus" THEN {"shipped", "delivered", "received"}
  ELSE IF op = "UpdateOutboundStatus" THEN {"packed", "shipped"}
  ELSE IF op = "UpdateShipmentStatus" THEN {"delivered"}
  ELSE IF op = "ResolveRisk" THEN {"resolved"}
  ELSE IF op = "UpdateNPIStage" THEN {"launched"}
  ELSE {}

TrailOf(op) ==
  IF op = "AdvanceStage" THEN "before"
  ELSE IF op \in {"CreateVCASE", "SubmitVCASE", "UpdateExecution", "SubmitCompletion",
                  "MarkFailed", "UpdateShipmentStatus"} THEN "after"
  ELSE "none"

\* What else the proofs need to know of it.
Proper(h) ==
  /\ h.dates = DatesOf(h.op) /\ h.trail = TrailOf(h.op)
  /\ "none" \notin h.to /\ "deleted" \notin h.dates
  /\ h.kind \in {"insert", "update"} => h.dates = {}
  /\ h.kind = "delete" => h.table = "tms_products"
  /\ "executing" \in h.to => h.op \in {"UpdateVCASE", "UpdateExecution"}
  /\ h.op = "UpdateVCASE" => h.kind = "save" /\ h.edit
  /\ h.op = "UpdateExecution" =>
       h.kind = "save" /\ ~h.lenient /\ h.from \subseteq {"approved", "executing"}
  /\ h.op = "UpdateProject" => h.kind = "save" /\ h.table = "projects"
  /\ h.graduates <=> h.op = "GraduateProject"
  /\ h.graduates => /\ h.kind = "save" /\ h.table = "projects" /\ ~h.lenient /\ ~h.edit
                    /\ h.from \subseteq {"growth", "graduate"} /\ h.to = {"graduate"}
  /\ h.trail = "before" => h.kind = "save" /\ h.table = "projects" /\ ~h.edit
  /\ h.trail = "after" =>
       h.kind \in {"insert", "save"} /\ h.table \in {"vcases", "shipments"} /\ ~h.edit
  /\ h.trail # "none" => ~h.lenient /\ ~h.graduates
  /\ h.publish => h.trail = "after"

\* Every handler is proper.
LEMMA Catalogue ==
  \A h \in Handlers : Proper(h)
<1> USE DEF Handler, Proper, DatesOf, TrailOf
<1>1. /\ Proper(CreateVCASE) /\ Proper(UpdateVCASE) /\ Proper(SubmitVCASE)
     /\ Proper(UpdateExecution) /\ Proper(SubmitCompletion) /\ Proper(MarkFailed)
     /\ Proper(UpdateBudget) /\ Proper(DecideApproval)
  BY DEF CreateVCASE, UpdateVCASE, SubmitVCASE, UpdateExecution, SubmitCompletion, MarkFailed,
         UpdateBudget, DecideApproval
<1>2. /\ Proper(UpdateProject) /\ Proper(AdvanceStage) /\ Proper(GraduateProject)
     /\ Proper(ActivateTerminal) /\ Proper(UpdateSupplier) /\ Proper(ApproveSupplier)
     /\ Proper(UpdateSupplyItem) /\ Proper(UpdatePOStatus)
  BY DEF UpdateProject, AdvanceStage, GraduateProject, ActivateTerminal, UpdateSupplier,
         ApproveSupplier, UpdateSupplyItem, UpdatePOStatus
<1>3. /\ Proper(UpdateFulfillmentStatus) /\ Proper(UpdateWorkOrder)
     /\ Proper(UpdateOutboundStatus) /\ Proper(UpdateShipmentStatus) /\ Proper(UpdateEmployee)
     /\ Proper(ApplyLeave) /\ Proper(ApproveLeave) /\ Proper(ApproveFCase)
  BY DEF UpdateFulfillmentStatus, UpdateWorkOrder, UpdateOutboundStatus, UpdateShipmentStatus,
         UpdateEmployee, ApplyLeave, ApproveLeave, ApproveFCase
<1>4. /\ Proper(ResolveRisk) /\ Proper(TmsUpdateProduct) /\ Proper(TmsDeleteProduct)
     /\ Proper(UpdateNPIStage) /\ Proper(UpdateCustomer) /\ Proper(CmsUpdateOrderStatus)
     /\ Proper(DmsUpdateStore)
  BY DEF ResolveRisk, TmsUpdateProduct, TmsDeleteProduct, UpdateNPIStage, UpdateCustomer,
         CmsUpdateOrderStatus, DmsUpdateStore
<1>5. Proper(UpdatePolicy) /\ Proper(UpdateDomainStatus) /\ Proper(ServiceHeartbeat)
  BY DEF UpdatePolicy, UpdateDomainStatus, ServiceHeartbeat
<1>6. /\ Proper(CreateBudget) /\ Proper(CreateApproval) /\ Proper(CreateProject)
     /\ Proper(CreateTerminal) /\ Proper(CreateSupplier) /\ Proper(CreateSupplyItem)
     /\ Proper(CreatePO) /\ Proper(CreateFulfillment)
  BY DEF CreateBudget, CreateApproval, CreateProject, CreateTerminal, CreateSupplier,
         CreateSupplyItem, CreatePO, CreateFulfillment
<1>7. /\ Proper(CreateWorkOrder) /\ Proper(CreateOutboundOrder) /\ Proper(CreateShipment)
     /\ Proper(CreateEmployee) /\ Proper(CreateFCase) /\ Proper(CreateRisk)
     /\ Proper(TmsCreateProduct) /\ Proper(CreateNPI)
  BY DEF CreateWorkOrder, CreateOutboundOrder, CreateShipment, CreateEmployee, CreateFCase,
         CreateRisk, TmsCreateProduct, CreateNPI
<1>8. /\ Proper(CreateCustomer) /\ Proper(CmsCreateOrder) /\ Proper(DmsCreateStore)
     /\ Proper(CreatePolicy) /\ Proper(CreateDomain)
     /\ Proper(CreateService) /\ Proper(CreateRule)
  BY DEF CreateCustomer, CmsCreateOrder, DmsCreateStore, CreatePolicy, CreateDomain,
         CreateService, CreateRule
<1>9. /\ Proper(CreateWorkflow) /\ Proper(CreateContract) /\ Proper(CreateEntry)
     /\ Proper(CreatePayment) /\ Proper(CreateInvoice) /\ Proper(HmsCreateOrg)
     /\ Proper(ClockIn) /\ Proper(GmsCreatePolicy)
  BY DEF CreateWorkflow, CreateContract, CreateEntry, CreatePayment, CreateInvoice,
         HmsCreateOrg, ClockIn, GmsCreatePolicy
<1>10. /\ Proper(CreateAudit) /\ Proper(CreateCategory) /\ Proper(SendMessage)
      /\ Proper(CreateNotification) /\ Proper(CreateKPI)
      /\ Proper(EmsCreateStore) /\ Proper(CreateAccount)
  BY DEF CreateAudit, CreateCategory, SendMessage, CreateNotification, CreateKPI,
         EmsCreateStore, CreateAccount
<1> HIDE DEF Handler, Proper, DatesOf, TrailOf
<1>11. QED
  BY <1>1, <1>2, <1>3, <1>4, <1>5, <1>6, <1>7, <1>8, <1>9, <1>10 DEF Handlers

-----------------------------------------------------------------------------
(* The services' rows: what the statements do.                             *)

IsRow(r) ==
  r = [status |-> r.status, dates |-> r.dates, code |-> r.code, setBy |-> r.setBy,
       named |-> r.named]

\* A status was set by a handler of the table.
Stamped(r) == r.status # "none" => \E h \in Handlers : h.op = r.setBy /\ h.table = table

HeldRow(w) ==
  pc[w] # "idle" =>
    /\ pc[w] \in {"save", "trail", "record"}
    /\ \E h \in Handlers : /\ h.op = req[w].op /\ h.table = table
                           /\ req[w].id = 0 => h.lenient
    /\ IsRow(req[w].row) /\ Stamped(req[w].row) /\ req[w].row.status # "none"
    /\ req[w].id # 0 => req[w].id \in Ids /\ rows[req[w].id].status # "none"
    /\ req[w].id = 0 => pc[w] = "save" /\ req[w].row.code = 0
    /\ pc[w] = "trail" => TrailOf(req[w].op) # "none"
    /\ pc[w] = "record" => req[w].op = "GraduateProject"

RowsBase ==
  /\ Serving
  /\ rows = [i \in Ids |-> rows[i]] /\ records = [i \in Ids |-> records[i]]
  /\ \A i \in Ids : IsRow(rows[i]) /\ Stamped(rows[i])
  /\ \A w \in Workers : HeldRow(w)

LEMMA NextIdFresh == HasRoom => NextId \in Ids /\ Fresh(NextId)
<1> SUFFICES ASSUME HasRoom
             PROVE  \E i \in Ids : Fresh(i) /\ \A j \in Ids : Fresh(j) => i <= j
  BY DEF NextId
<1> DEFINE R == OpToRel(<, Nat)
           S == {i \in Ids : Fresh(i)}
<1>1. IsWellFoundedOn(R, Nat)
  BY NatLessThanWellFounded
<1>2. \A m, n \in Nat : <<m, n>> \notin R => n <= m
  BY DEF OpToRel
<1>3. S \subseteq Nat /\ S # {}
  BY RowIdsAssumption, FS_CardinalityType DEF HasRoom
<1> HIDE DEF R
<1>4. PICK m \in S : \A n \in S : ~(<<n, m>> \in R)
  BY <1>1, <1>3, WFMin
<1>5. \A n \in S : m <= n
  BY <1>2, <1>3, <1>4
<1>6. QED
  BY <1>4, <1>5

\* The handler of a request records, dates and graduates as its name says.
LEMMA HandlerOfRight ==
  ASSUME NEW w \in Workers, HeldRow(w), pc[w] # "idle"
  PROVE  /\ HandlerOf(w) \in Handlers /\ HandlerOf(w).op = req[w].op
         /\ HandlerOf(w).trail = TrailOf(req[w].op)
         /\ HandlerOf(w).graduates <=> req[w].op = "GraduateProject"
         /\ HandlerOf(w).publish => TrailOf(req[w].op) = "after"
<1>1. \E h \in Handlers : h.op = req[w].op
  BY DEF HeldRow
<1>2. HandlerOf(w) \in Handlers /\ HandlerOf(w).op = req[w].op
  BY <1>1 DEF HandlerOf
<1>3. QED
  BY <1>2, Catalogue DEF Proper

\* What no handler's row statement touches.
Elsewhere == UNCHANGED <<table, records, trail, busVars>>

LEMMA FreshRow ==
  ASSUME NEW op, NEW s, NEW n, NEW row,
         row = [NoRow EXCEPT !.status = s, !.setBy = op, !.named = n]
  PROVE  row = [status |-> s, dates |-> {}, code |-> 0, setBy |-> op, named |-> n]
BY DEF NoRow

LEMMA LiteralRow ==
  ASSUME NEW op, NEW s, NEW n, NEW c, NEW d, NEW row,
         row = [status |-> s, dates |-> d, code |-> c, setBy |-> op, named |-> n]
  PROVE  IsRow(row) /\ row.status = s /\ row.code = c /\ row.setBy = op /\ row.dates = d
BY DEF IsRow

LEMMA InsertMoves ==
  ASSUME RowsBase, NEW w \in Workers, NEW h \in Offered("insert"), NEW s \in h.to, Insert(w, h, s)
  PROVE  \E i \in Ids : \E row :
           /\ Serving' /\ Alone(w) /\ Well /\ pc[w] = "idle" /\ Elsewhere /\ disturbed' = disturbed
           /\ rows[i].status = "none" /\ IsRow(row) /\ row.status = s /\ row.code = 0
           /\ row.setBy = h.op /\ row.dates = {}
           /\ rows' = [rows EXCEPT ![i] = row] /\ happened' = happened \cup {<<i, s, h.op, 0>>}
           /\ h.trail # "after" => pc'[w] = "idle"
           /\ h.trail = "after" => /\ pc'[w] = "trail" /\ req'[w].op = h.op /\ req'[w].id = i
                                   /\ req'[w].row = row /\ req'[w].read = row
<1> DEFINE i == NextId
           row == [NoRow EXCEPT !.status = s, !.setBy = h.op, !.named = h.numbered]
           r == [op |-> h.op, id |-> i, row |-> row, read |-> row, serial |-> Serial]
<1>1. i \in Ids /\ rows[i].status = "none"
  BY NextIdFresh DEF Insert, Fresh
<1>2. IsRow(row) /\ row.status = s /\ row.code = 0 /\ row.setBy = h.op /\ row.dates = {}
  <2>1. row = [status |-> s, dates |-> {}, code |-> 0, setBy |-> h.op, named |-> h.numbered]
    BY FreshRow
  <2> HIDE DEF row
  <2>2. QED
    BY <2>1, LiteralRow
<1>3. r.op = h.op /\ r.id = i /\ r.row = row /\ r.read = row
  OBVIOUS
<1>4. /\ rows' = [rows EXCEPT ![i] = row] /\ Wrote(i, row, h.op)
      /\ IF h.trail = "after" THEN Start(w, "trail", r) ELSE StartAndAnswer(w)
      /\ Elsewhere /\ disturbed' = disturbed
  BY DEF Insert, Holding, Elsewhere
<1> HIDE DEF i, row, r
<1>5. happened' = happened \cup {<<i, s, h.op, 0>>}
  BY <1>2, <1>4 DEF Wrote
<1>6. /\ Serving' /\ Alone(w) /\ Well /\ pc[w] = "idle"
      /\ h.trail # "after" => pc'[w] = "idle"
      /\ h.trail = "after" => pc'[w] = "trail" /\ req'[w] = r
  BY <1>4, StartMoves, AnswerMoves DEF RowsBase, StartAndAnswer
<1>7. QED
  BY <1>1, <1>2, <1>3, <1>4, <1>5, <1>6

\* What a row becomes under a handler.
LEMMA UpdatedRow ==
  ASSUME NEW h, NEW r, IsRow(r), NEW s, NEW code, NEW new, new = Updated(h, r, s, code)
  PROVE  /\ IsRow(new) /\ new.status = s /\ new.code = code
         /\ new.dates = r.dates \cup ({s} \cap h.dates)
         /\ new.setBy = IF h.edit /\ s = r.status THEN r.setBy ELSE h.op
BY DEF IsRow, Updated

LEMMA ReadMoves ==
  ASSUME RowsBase, NEW w \in Workers, NEW h \in Offered("save"), NEW i \in Ids, NEW s,
         Read(w, h, i, s)
  PROVE  /\ Serving' /\ Alone(w) /\ Well /\ pc[w] = "idle" /\ pc'[w] = FirstStep(h)
         /\ UNCHANGED <<rowVars, busVars>>
         /\ Stored(i) /\ rows[i].status \in h.from
         /\ s \in h.to \/ (h.edit /\ s = rows[i].status)
         /\ req'[w].op = h.op /\ req'[w].id = i /\ req'[w].read = rows[i]
         /\ IsRow(req'[w].row) /\ req'[w].row.status = s
         /\ req'[w].row.dates = rows[i].dates \cup ({s} \cap h.dates)
         /\ req'[w].row.setBy = IF h.edit /\ s = rows[i].status THEN rows[i].setBy ELSE h.op
         /\ h.graduates => rows[i].code = 0 /\ req'[w].row.code # 0
         /\ ~h.graduates /\ h.op # "UpdateProject" => req'[w].row.code = rows[i].code
<1>1. PICK code :
        /\ code \in (IF h.graduates THEN {Serial}
                     ELSE IF h.op = "UpdateProject" THEN {rows[i].code, 0, Serial}
                     ELSE {rows[i].code})
        /\ Start(w, FirstStep(h), Holding(h, i, Updated(h, rows[i], s, code), rows[i]))
  BY DEF Read
<1> DEFINE new == Updated(h, rows[i], s, code)
           r == Holding(h, i, new, rows[i])
<1>2. r.op = h.op /\ r.id = i /\ r.row = new /\ r.read = rows[i]
  BY DEF Holding
<1>3. /\ IsRow(new) /\ new.status = s /\ new.code = code
      /\ new.dates = rows[i].dates \cup ({s} \cap h.dates)
      /\ new.setBy = IF h.edit /\ s = rows[i].status THEN rows[i].setBy ELSE h.op
  BY UpdatedRow DEF RowsBase
<1> HIDE DEF new, r
<1>4. Start(w, FirstStep(h), r)
  BY <1>1 DEF new, r
<1>5. Serving' /\ Alone(w) /\ Well /\ pc[w] = "idle" /\ pc'[w] = FirstStep(h) /\ req'[w] = r
  BY <1>4, StartMoves DEF RowsBase
<1>6. Serial # 0
  BY <1>4 DEF Start, Spend, Serial, RowsBase, Serving
<1>7. QED
  BY <1>1, <1>2, <1>3, <1>5, <1>6 DEF Read

LEMMA ReadMissingMoves ==
  ASSUME RowsBase, NEW w \in Workers, NEW h \in Offered("save"), NEW i \in Ids, NEW s,
         ReadMissing(w, h, i, s)
  PROVE  /\ Serving' /\ Alone(w) /\ Well /\ pc[w] = "idle" /\ pc'[w] = "save"
         /\ UNCHANGED <<rowVars, busVars>> /\ h.lenient /\ s \in h.to
         /\ req'[w].op = h.op /\ req'[w].id = 0
         /\ IsRow(req'[w].row) /\ req'[w].row.status = s /\ req'[w].row.code = 0
         /\ req'[w].row.dates = {s} \cap h.dates /\ req'[w].row.setBy = h.op
<1> DEFINE new == Updated(h, NoRow, s, 0)
           r == Holding(h, 0, new, NoRow)
<1>1. r.op = h.op /\ r.id = 0 /\ r.row = new
  BY DEF Holding
<1>2. IsRow(NoRow) /\ NoRow.status = "none" /\ NoRow.dates = {}
  BY DEF NoRow, IsRow
<1>3. s \in h.to /\ h.lenient /\ s # "none"
  BY Catalogue DEF ReadMissing, Proper, Offered
<1>4. /\ IsRow(new) /\ new.status = s /\ new.code = 0
      /\ new.dates = {s} \cap h.dates /\ new.setBy = h.op
  BY <1>2, <1>3, UpdatedRow
<1> HIDE DEF new, r
<1>5. Start(w, "save", r) /\ UNCHANGED <<rowVars, busVars>>
  BY DEF ReadMissing, new, r
<1>6. Serving' /\ Alone(w) /\ Well /\ pc[w] = "idle" /\ pc'[w] = "save" /\ req'[w] = r
  BY <1>5, StartMoves DEF RowsBase
<1>7. QED
  BY <1>1, <1>3, <1>4, <1>5, <1>6

\* What follows the Save.
Then(op) == IF TrailOf(op) = "after" THEN "trail"
            ELSE IF op = "GraduateProject" THEN "record" ELSE "idle"

LEMMA AfterSaveIs ==
  ASSUME RowsBase, NEW w \in Workers, pc[w] # "idle"
  PROVE  AfterSave(HandlerOf(w)) = Then(req[w].op)
<1>1. HeldRow(w)
  BY DEF RowsBase
<1>2. QED
  BY <1>1, HandlerOfRight DEF AfterSave, Then

LEMMA SaveMoves ==
  ASSUME RowsBase, NEW w \in Workers, Save(w)
  PROVE  /\ Serving' /\ Alone(w) /\ Well /\ Elsewhere
         /\ pc[w] = "save" /\ pc'[w] = Then(req[w].op)
         /\ pc'[w] # "idle" => req'[w] = req[w]
         /\ req[w].id \in Ids
         /\ rows' = [rows EXCEPT ![req[w].id] = req[w].row]
         /\ happened' = happened \cup
              {<<req[w].id, req[w].row.status, req[w].op, req[w].row.code>>}
         /\ disturbed' =
              IF \/ rows[req[w].id] # req[w].read
                 \/ req[w].op = "UpdateProject" /\ req[w].row.code # rows[req[w].id].code
              THEN disturbed \cup {req[w].id} ELSE disturbed
<1>1. pc[w] = "save" /\ req[w].id # 0 /\ Proceed(w, "save", AfterSave(HandlerOf(w)))
  BY DEF Save
<1>2. AfterSave(HandlerOf(w)) = Then(req[w].op)
  BY <1>1, AfterSaveIs
<1>3. Proceed(w, "save", Then(req[w].op))
  BY <1>1, <1>2
<1>4. /\ Serving' /\ Alone(w) /\ Well /\ pc'[w] = Then(req[w].op)
      /\ pc'[w] # "idle" => req'[w] = req[w]
  BY <1>3, ProceedMoves DEF RowsBase
<1>5. HeldRow(w)
  BY DEF RowsBase
<1>6. req[w].id \in Ids
  BY <1>1, <1>5 DEF HeldRow
<1>7. QED
  BY <1>1, <1>4, <1>6 DEF Save, Wrote, Elsewhere

LEMMA SaveEmptyMoves ==
  ASSUME RowsBase, NEW w \in Workers, SaveEmpty(w)
  PROVE  /\ Serving' /\ Alone(w) /\ Well /\ Elsewhere /\ disturbed' = disturbed
         /\ pc[w] = "save" /\ pc'[w] = "idle" /\ req[w].id = 0
         /\ \/ rows' = rows /\ happened' = happened
            \/ \E i \in Ids :
                 /\ rows[i].status = "none" /\ rows' = [rows EXCEPT ![i] = req[w].row]
                 /\ happened' = happened \cup
                      {<<i, req[w].row.status, req[w].op, req[w].row.code>>}
<1>1. Proceed(w, "save", "idle") /\ pc[w] = "save" /\ req[w].id = 0 /\ HasRoom
  BY DEF SaveEmpty
<1>2. Serving' /\ Alone(w) /\ Well /\ pc'[w] = "idle"
  BY <1>1, ProceedMoves DEF RowsBase
<1>3. NextId \in Ids /\ rows[NextId].status = "none"
  BY <1>1, NextIdFresh DEF Fresh
<1>4. /\ Elsewhere /\ disturbed' = disturbed
      /\ \/ rows' = rows /\ happened' = happened
         \/ rows' = [rows EXCEPT ![NextId] = req[w].row] /\ Wrote(NextId, req[w].row, req[w].op)
  BY DEF SaveEmpty, Elsewhere
<1>5. QED
  BY <1>1, <1>2, <1>3, <1>4 DEF Wrote

LEMMA SaveFailsMoves ==
  ASSUME RowsBase, NEW w \in Workers, SaveFails(w)
  PROVE  /\ Serving' /\ Alone(w) /\ Ill /\ UNCHANGED <<rowVars, busVars>>
         /\ pc[w] = "save" /\ pc'[w] = Then(req[w].op)
         /\ pc'[w] # "idle" => req'[w] = req[w]
<1>1. ProceedFailed(w, "save", AfterSave(HandlerOf(w))) /\ pc[w] = "save"
  BY DEF SaveFails, ProceedFailed, Goto
<1>2. ProceedFailed(w, "save", Then(req[w].op))
  BY <1>1, AfterSaveIs
<1>3. QED
  BY <1>2, ProceedFailedMoves DEF RowsBase, SaveFails

\* What follows the record of the status.
Afterwards(op) == IF TrailOf(op) = "before" THEN "save" ELSE "idle"

LEMMA AfterTrailIs ==
  ASSUME RowsBase, NEW w \in Workers, pc[w] # "idle"
  PROVE  AfterTrail(HandlerOf(w)) = Afterwards(req[w].op)
<1>1. HeldRow(w)
  BY DEF RowsBase
<1>2. QED
  BY <1>1, HandlerOfRight DEF AfterTrail, Afterwards

\* Only handlers that record the status after the Save publish.
LEMMA AnnounceMoves ==
  ASSUME RowsBase, NEW w \in Workers, pc[w] = "trail", Announce(w)
  PROVE  \/ outbox' = outbox
         \/ /\ TrailOf(req[w].op) = "after"
            /\ outbox' = outbox \cup {EventOf(w)}
<1>1. HeldRow(w)
  BY DEF RowsBase
<1>2. HandlerOf(w).publish => TrailOf(req[w].op) = "after"
  BY <1>1, HandlerOfRight
<1>3. CASE HandlerOf(w).publish /\ EventOf(w).topic \in Topics
  BY <1>2, <1>3 DEF Announce, Emit
<1>4. CASE ~(HandlerOf(w).publish /\ EventOf(w).topic \in Topics)
  BY <1>4 DEF Announce, busVars
<1>5. QED
  BY <1>3, <1>4

LEMMA TrailMoves ==
  ASSUME RowsBase, NEW w \in Workers, Trail(w)
  PROVE  /\ Serving' /\ Alone(w) /\ Well
         /\ pc[w] = "trail" /\ pc'[w] = Afterwards(req[w].op)
         /\ pc'[w] # "idle" => req'[w] = req[w]
         /\ UNCHANGED <<table, rows, records, happened, disturbed>>
         /\ trail' = trail \cup {<<req[w].id, req[w].row.status>>}
         /\ \/ outbox' = outbox
            \/ TrailOf(req[w].op) = "after" /\ outbox' = outbox \cup {EventOf(w)}
<1>1. Proceed(w, "trail", AfterTrail(HandlerOf(w))) /\ pc[w] = "trail" /\ Announce(w)
  BY DEF Trail, Proceed, Goto
<1>2. Proceed(w, "trail", Afterwards(req[w].op))
  BY <1>1, AfterTrailIs
<1>3. /\ Serving' /\ Alone(w) /\ Well /\ pc'[w] = Afterwards(req[w].op)
      /\ pc'[w] # "idle" => req'[w] = req[w]
  BY <1>2, ProceedMoves DEF RowsBase
<1>4. QED
  BY <1>1, <1>3, AnnounceMoves DEF Trail

LEMMA TrailFailsMoves ==
  ASSUME RowsBase, NEW w \in Workers, TrailFails(w)
  PROVE  /\ Serving' /\ Alone(w) /\ Ill /\ UNCHANGED rowVars
         /\ pc[w] = "trail" /\ pc'[w] = Afterwards(req[w].op)
         /\ pc'[w] # "idle" => req'[w] = req[w]
<1>1. ProceedFailed(w, "trail", AfterTrail(HandlerOf(w))) /\ pc[w] = "trail"
  BY DEF TrailFails, ProceedFailed, Goto
<1>2. ProceedFailed(w, "trail", Afterwards(req[w].op))
  BY <1>1, AfterTrailIs
<1>3. QED
  BY <1>2, ProceedFailedMoves DEF RowsBase, TrailFails

LEMMA RecordMoves ==
  ASSUME RowsBase, NEW w \in Workers, Record(w)
  PROVE  /\ Serving' /\ Alone(w) /\ Well /\ pc[w] = "record" /\ pc'[w] = "idle"
         /\ UNCHANGED <<table, rows, trail, happened, disturbed, busVars>>
         /\ records' = [records EXCEPT ![req[w].id] =
                          IF records[req[w].id] = 0 THEN req[w].row.code ELSE records[req[w].id]]
<1>1. Proceed(w, "record", "idle")
  BY DEF Record
<1>2. Serving' /\ Alone(w) /\ Well /\ pc[w] = "record" /\ pc'[w] = "idle"
  BY <1>1, ProceedMoves DEF RowsBase
<1>3. QED
  BY <1>2 DEF Record

LEMMA RecordFailsMoves ==
  ASSUME RowsBase, NEW w \in Workers, RecordFails(w)
  PROVE  /\ Serving' /\ Alone(w) /\ Ill /\ pc[w] = "record" /\ pc'[w] = "idle"
         /\ UNCHANGED <<rowVars, busVars>>
<1>1. ProceedFailed(w, "record", "idle") /\ UNCHANGED <<rowVars, busVars>>
  BY DEF RecordFails
<1>2. QED
  BY <1>1, ProceedFailedMoves DEF RowsBase

\* What an UPDATE of one column makes of a row.
LEMMA StatusSet ==
  ASSUME rows = [j \in Ids |-> rows[j]], NEW i \in Ids, IsRow(rows[i]), NEW s, NEW op, NEW new,
         new = [rows EXCEPT ![i].status = s, ![i].setBy = op]
  PROVE  new = [rows EXCEPT ![i] = [status |-> s, dates |-> rows[i].dates, code |-> rows[i].code,
                                    setBy |-> op, named |-> rows[i].named]]
<1>1. \A j \in Ids : j # i => new[j] = rows[j]
  OBVIOUS
<1>2. new = [j \in Ids |-> new[j]]
  OBVIOUS
<1>3. new[i] = [rows[i] EXCEPT !.status = s, !.setBy = op]
  OBVIOUS
<1>4. ASSUME NEW r, IsRow(r), NEW x, x = [r EXCEPT !.status = s, !.setBy = op]
      PROVE  x = [status |-> s, dates |-> r.dates, code |-> r.code, setBy |-> op, named |-> r.named]
  BY <1>4 DEF IsRow
<1>5. QED
  BY <1>1, <1>2, <1>3, <1>4

LEMMA StatusOnly ==
  ASSUME rows = [j \in Ids |-> rows[j]], NEW i \in Ids, IsRow(rows[i]), NEW s, NEW new,
         new = [rows EXCEPT ![i].status = s]
  PROVE  new = [rows EXCEPT ![i] = [status |-> s, dates |-> rows[i].dates, code |-> rows[i].code,
                                    setBy |-> rows[i].setBy, named |-> rows[i].named]]
<1>1. ASSUME NEW r, IsRow(r)
      PROVE  [r EXCEPT !.status = s] =
               [status |-> s, dates |-> r.dates, code |-> r.code, setBy |-> r.setBy,
                named |-> r.named]
  BY <1>1 DEF IsRow
<1>2. new = [rows EXCEPT ![i] = [rows[i] EXCEPT !.status = s]]
  OBVIOUS
<1>3. QED
  BY <1>1, <1>2

LEMMA UpdateColumnMoves ==
  ASSUME RowsBase, NEW w \in Workers, NEW h \in Offered("update"), NEW i \in Ids, NEW s \in h.to,
         UpdateColumn(w, h, i, s)
  PROVE  \E row :
           /\ Serving' /\ Alone(w) /\ Well /\ pc[w] = "idle" /\ UNCHANGED <<pc, req>>
           /\ Elsewhere
           /\ disturbed' = disturbed
           /\ Stored(i) /\ IsRow(row) /\ row.status = s /\ row.setBy = h.op
           /\ row.code = rows[i].code
           /\ rows' = [rows EXCEPT ![i] = row]
           /\ happened' = happened \cup {<<i, s, h.op, row.code>>}
<1> DEFINE row == [status |-> s, dates |-> rows[i].dates, code |-> rows[i].code,
                   setBy |-> h.op, named |-> rows[i].named]
<1>1. /\ StartAndAnswer(w) /\ Stored(i) /\ Elsewhere /\ disturbed' = disturbed
      /\ rows' = [rows EXCEPT ![i].status = s, ![i].setBy = h.op]
      /\ happened' = happened \cup {<<i, s, h.op, rows[i].code>>}
  <2>1. IsRow(rows[i])
    BY DEF RowsBase
  <2>2. [rows[i] EXCEPT !.status = s].status = s /\ [rows[i] EXCEPT !.status = s].code = rows[i].code
    BY <2>1 DEF IsRow
  <2>3. Wrote(i, [rows[i] EXCEPT !.status = s], h.op)
    BY DEF UpdateColumn
  <2>4. happened' = happened \cup {<<i, s, h.op, rows[i].code>>}
    BY <2>2, <2>3 DEF Wrote
  <2>5. QED
    BY <2>4 DEF UpdateColumn, Elsewhere
<1>2. IsRow(row) /\ row.status = s /\ row.code = rows[i].code /\ row.setBy = h.op
  BY LiteralRow
<1>3. rows' = [rows EXCEPT ![i] = row]
  <2>1. IsRow(rows[i]) /\ rows = [j \in Ids |-> rows[j]]
    BY DEF RowsBase
  <2>2. QED
    BY <1>1, <2>1, StatusSet
<1> HIDE DEF row
<1>4. Serving' /\ Alone(w) /\ Well /\ pc[w] = "idle" /\ UNCHANGED <<pc, req>>
  BY <1>1, AnswerMoves DEF RowsBase
<1>5. QED
  BY <1>1, <1>2, <1>3, <1>4

LEMMA DeleteMoves ==
  ASSUME RowsBase, NEW w \in Workers, NEW h \in Offered("delete"), NEW i \in Ids, Delete(w, h, i)
  PROVE  \E row :
           /\ Serving' /\ Alone(w) /\ Well /\ pc[w] = "idle" /\ UNCHANGED <<pc, req>>
           /\ Elsewhere
           /\ UNCHANGED <<happened, disturbed>> /\ table = "tms_products"
           /\ Stored(i) /\ IsRow(row) /\ row.status = "deleted" /\ row.setBy = rows[i].setBy
           /\ row.code = rows[i].code
           /\ rows' = [rows EXCEPT ![i] = row]
<1> DEFINE row == [status |-> "deleted", dates |-> rows[i].dates, code |-> rows[i].code,
                   setBy |-> rows[i].setBy, named |-> rows[i].named]
<1>1. /\ StartAndAnswer(w) /\ Stored(i) /\ Elsewhere /\ UNCHANGED <<happened, disturbed>>
      /\ rows' = [rows EXCEPT ![i].status = "deleted"]
  BY DEF Delete, Elsewhere
<1>2. IsRow(row) /\ row.status = "deleted" /\ row.code = rows[i].code /\ row.setBy = rows[i].setBy
  BY LiteralRow
<1>3. rows' = [rows EXCEPT ![i] = row]
  <2>1. IsRow(rows[i]) /\ rows = [j \in Ids |-> rows[j]]
    BY DEF RowsBase
  <2>2. QED
    BY <1>1, <2>1, StatusOnly
<1>4. table = "tms_products"
  BY Catalogue DEF Offered, Proper
<1> HIDE DEF row
<1>5. Serving' /\ Alone(w) /\ Well /\ pc[w] = "idle" /\ UNCHANGED <<pc, req>>
  BY <1>1, AnswerMoves DEF RowsBase
<1>6. QED
  BY <1>1, <1>2, <1>3, <1>4, <1>5

\* The goroutines of the bus.
LEMMA BusMoves ==
  ASSUME RowsBase, BusNext
  PROVE  Serving' /\ UNCHANGED <<rowVars, requestVars>> /\ outbox' \subseteq outbox
<1>1. UNCHANGED <<rowVars, requestVars>>
  BY DEF BusNext
<1>2. Serving'
  BY <1>1 DEF RowsBase, Serving, requestVars
<1>3. outbox' \subseteq outbox
  BY DEF BusNext, Subscribe, Publish, Deliver
<1>4. QED
  BY <1>1, <1>2, <1>3

-----------------------------------------------------------------------------
(* The services' rows: what always holds of them.                          *)

\* The steps of the process in this area.
RowsStep == RowsNext \/ BusNext \/ (CrashRequests /\ RowsCrash)

rowStepVars == <<requestVars, rowVars, busVars>>

\* The rows stay rows of the table, and what has been written stays written.
RowsWell ==
  /\ rows' = [i \in Ids |-> rows'[i]] /\ records' = [i \in Ids |-> records'[i]]
  /\ \A i \in Ids : IsRow(rows'[i]) /\ (Stamped(rows[i]))'
  /\ \A i \in Ids : rows[i].status # "none" => rows'[i].status # "none"

LEMMA StampKept ==
  ASSUME table' = table, NEW r
  PROVE  Stamped(r)' <=> Stamped(r)
BY DEF Stamped

LEMMA RowWritten ==
  ASSUME RowsBase, NEW i \in Ids, NEW row, rows' = [rows EXCEPT ![i] = row],
         UNCHANGED <<table, records>>, IsRow(row), Stamped(row), row.status # "none"
  PROVE  RowsWell
<1>1. \A j \in Ids : rows'[j] = IF j = i THEN row ELSE rows[j]
  BY DEF RowsBase
<1>2. \A j \in Ids : IsRow(rows'[j])
  BY <1>1 DEF RowsBase
<1>3. ASSUME NEW j \in Ids
      PROVE  (Stamped(rows[j]))'
  BY <1>1 DEF RowsBase, Stamped
<1>4. QED
  BY <1>1, <1>2, <1>3 DEF RowsBase, RowsWell

LEMMA RowsAlike ==
  ASSUME RowsBase, UNCHANGED <<table, records, rows>>
  PROVE  RowsWell
BY DEF RowsBase, RowsWell, Stamped

LEMMA OthersHeld ==
  ASSUME RowsBase, NEW w \in Workers, Alone(w), table' = table, RowsWell, Serving', HeldRow(w)'
  PROVE  RowsBase'
<1>1. ASSUME NEW v \in Workers \ {w}
      PROVE  HeldRow(v)'
  <2>1. HeldRow(v) /\ pc'[v] = pc[v] /\ req'[v] = req[v]
    BY DEF RowsBase, Alone
  <2>2. QED
    BY <2>1 DEF HeldRow, RowsWell, Stamped
<1>2. QED
  BY <1>1 DEF RowsBase, RowsWell

LEMMA InsertBase ==
  ASSUME RowsBase, NEW w \in Workers, NEW h \in Offered("insert"), NEW s \in h.to, Insert(w, h, s)
  PROVE  RowsBase'
<1>1. PICK i, row :
           /\ i \in Ids
           /\ Serving' /\ Alone(w) /\ pc[w] = "idle" /\ Elsewhere
           /\ IsRow(row) /\ row.status = s
           /\ row.setBy = h.op
           /\ rows' = [rows EXCEPT ![i] = row]
           /\ h.trail # "after" => pc'[w] = "idle"
           /\ h.trail = "after" => /\ pc'[w] = "trail" /\ req'[w].op = h.op /\ req'[w].id = i
                                   /\ req'[w].row = row
  BY InsertMoves
<1>2. h \in Handlers /\ h.table = table /\ s # "none" /\ h.trail = TrailOf(h.op)
  BY Catalogue DEF Offered, Proper
<1>3. Stamped(row)
  BY <1>1, <1>2 DEF Stamped
<1>4. RowsWell /\ table' = table
  BY <1>1, <1>2, <1>3, RowWritten DEF Elsewhere
<1>5. HeldRow(w)'
  <2>1. i # 0
    BY <1>1, RowIdsAssumption, FS_CardinalityType
  <2>2. rows'[i] = row
    BY <1>1 DEF RowsBase
  <2>3. QED
    BY <1>1, <1>2, <1>3, <1>4, <2>1, <2>2 DEF HeldRow, Stamped
<1>6. QED
  BY <1>1, <1>4, <1>5, OthersHeld

LEMMA ReadBase ==
  ASSUME RowsBase, NEW w \in Workers, NEW h \in Offered("save"), NEW i \in Ids, NEW s,
         Read(w, h, i, s)
  PROVE  RowsBase'
<1>1. /\ Serving' /\ Alone(w) /\ pc'[w] = FirstStep(h)
      /\ UNCHANGED <<rowVars, busVars>>
      /\ Stored(i)
      /\ s \in h.to \/ (h.edit /\ s = rows[i].status)
      /\ req'[w].op = h.op /\ req'[w].id = i
      /\ IsRow(req'[w].row) /\ req'[w].row.status = s
      /\ req'[w].row.setBy = IF h.edit /\ s = rows[i].status THEN rows[i].setBy ELSE h.op
  BY ReadMoves
<1>2. h \in Handlers /\ h.table = table /\ "none" \notin h.to /\ h.trail = TrailOf(h.op)
  BY Catalogue DEF Offered, Proper
<1>3. s # "none" /\ rows[i].status # "none"
  BY <1>1, <1>2 DEF Stored
<1>4. Stamped(req'[w].row)
  <2>1. Stamped(rows[i])
    BY DEF RowsBase
  <2>2. QED
    BY <1>1, <1>2, <1>3, <2>1 DEF Stamped
<1>5. RowsWell /\ table' = table /\ rows' = rows
  BY <1>1, RowsAlike DEF rowVars
<1>6. HeldRow(w)'
  <2>1. i # 0
    BY RowIdsAssumption, FS_CardinalityType
  <2>2. pc'[w] = "trail" \/ pc'[w] = "save"
    BY <1>1 DEF FirstStep
  <2>3. pc'[w] = "trail" => TrailOf(h.op) # "none"
    BY <1>1, <1>2 DEF FirstStep
  <2>4. QED
    BY <1>1, <1>2, <1>3, <1>4, <1>5, <2>1, <2>2, <2>3 DEF HeldRow, Stamped
<1>7. QED
  BY <1>1, <1>5, <1>6, OthersHeld

LEMMA ReadMissingBase ==
  ASSUME RowsBase, NEW w \in Workers, NEW h \in Offered("save"), NEW i \in Ids, NEW s,
         ReadMissing(w, h, i, s)
  PROVE  RowsBase'
<1>1. /\ Serving' /\ Alone(w) /\ pc'[w] = "save"
      /\ UNCHANGED <<rowVars, busVars>> /\ h.lenient /\ s \in h.to
      /\ req'[w].op = h.op /\ req'[w].id = 0
      /\ IsRow(req'[w].row) /\ req'[w].row.status = s /\ req'[w].row.code = 0
      /\ req'[w].row.setBy = h.op
  BY ReadMissingMoves
<1>2. h \in Handlers /\ h.table = table /\ s # "none"
  BY <1>1, Catalogue DEF Offered, Proper
<1>3. RowsWell /\ table' = table /\ rows' = rows
  BY <1>1, RowsAlike DEF rowVars
<1>4. HeldRow(w)'
  BY <1>1, <1>2, <1>3 DEF HeldRow, Stamped
<1>5. QED
  BY <1>1, <1>3, <1>4, OthersHeld

\* A request goes on after its Save, or after its record.
LEMMA GoesOn ==
  ASSUME RowsBase, NEW w \in Workers, Alone(w), table' = table, RowsWell, Serving',
         \/ pc[w] = "save" /\ pc'[w] = Then(req[w].op)
         \/ pc[w] = "trail" /\ pc'[w] = Afterwards(req[w].op)
         \/ pc'[w] = "idle",
         pc'[w] # "idle" => req'[w] = req[w]
  PROVE  RowsBase'
<1>1. HeldRow(w)'
  <2>1. CASE pc'[w] = "idle"
    BY <2>1 DEF HeldRow
  <2>2. CASE pc'[w] # "idle"
    <3>1. HeldRow(w) /\ pc[w] # "idle" /\ req'[w] = req[w]
      BY <2>2 DEF RowsBase
    <3>2. PICK h \in Handlers : /\ h.op = req[w].op /\ h.table = table
                                /\ req[w].id = 0 => h.lenient
      BY <3>1 DEF HeldRow
    <3>3. /\ h.trail = TrailOf(req[w].op)
          /\ h.graduates <=> req[w].op = "GraduateProject"
          /\ h.trail # "none" => ~h.lenient /\ ~h.graduates
          /\ h.graduates => ~h.lenient
      BY <3>2, Catalogue DEF Proper
    <3>4. /\ pc'[w] \in {"save", "trail", "record"}
          /\ pc'[w] = "trail" => TrailOf(req[w].op) # "none"
          /\ pc'[w] = "record" => req[w].op = "GraduateProject"
          /\ req[w].id = 0 => pc'[w] = "save"
      BY <2>2, <3>1, <3>2, <3>3 DEF Then, Afterwards
    <3>5. QED
      BY <2>2, <3>1, <3>2, <3>4 DEF HeldRow, RowsWell, Stamped
  <2>3. QED
    BY <2>1, <2>2
<1>2. QED
  BY <1>1, OthersHeld

LEMMA SaveBase ==
  ASSUME RowsBase, NEW w \in Workers, Save(w)
  PROVE  RowsBase'
<1>1. /\ Serving' /\ Alone(w) /\ Elsewhere
      /\ pc[w] = "save" /\ pc'[w] = Then(req[w].op)
      /\ pc'[w] # "idle" => req'[w] = req[w]
      /\ req[w].id \in Ids
      /\ rows' = [rows EXCEPT ![req[w].id] = req[w].row]
  BY SaveMoves
<1>2. IsRow(req[w].row) /\ Stamped(req[w].row) /\ req[w].row.status # "none"
  BY <1>1 DEF RowsBase, HeldRow
<1>3. RowsWell /\ table' = table
  BY <1>1, <1>2, RowWritten DEF Elsewhere
<1>4. QED
  BY <1>1, <1>3, GoesOn

LEMMA SaveEmptyBase ==
  ASSUME RowsBase, NEW w \in Workers, SaveEmpty(w)
  PROVE  RowsBase'
<1>1. /\ Serving' /\ Alone(w) /\ Elsewhere /\ pc[w] = "save" /\ pc'[w] = "idle"
      /\ \/ rows' = rows
         \/ \E i \in Ids : rows' = [rows EXCEPT ![i] = req[w].row]
  BY SaveEmptyMoves
<1>2. IsRow(req[w].row) /\ Stamped(req[w].row) /\ req[w].row.status # "none"
  BY <1>1 DEF RowsBase, HeldRow
<1>3. RowsWell /\ table' = table
  BY <1>1, <1>2, RowWritten, RowsAlike DEF Elsewhere
<1>4. QED
  BY <1>1, <1>3, GoesOn

\* The statements that leave the rows alone.
LEMMA QuietBase ==
  ASSUME RowsBase, NEW w \in Workers,
         SaveFails(w) \/ Trail(w) \/ TrailFails(w) \/ RecordFails(w)
  PROVE  RowsBase'
<1>1. /\ Serving' /\ Alone(w) /\ UNCHANGED <<table, rows, records>>
      /\ \/ pc[w] = "save" /\ pc'[w] = Then(req[w].op)
         \/ pc[w] = "trail" /\ pc'[w] = Afterwards(req[w].op)
         \/ pc'[w] = "idle"
      /\ pc'[w] # "idle" => req'[w] = req[w]
  BY SaveFailsMoves, TrailMoves, TrailFailsMoves, RecordFailsMoves DEF rowVars
<1>2. RowsWell
  BY <1>1, RowsAlike
<1>3. QED
  BY <1>1, <1>2, GoesOn

LEMMA RecordBase ==
  ASSUME RowsBase, NEW w \in Workers, Record(w)
  PROVE  RowsBase'
<1>1. /\ Serving' /\ Alone(w) /\ pc'[w] = "idle" /\ UNCHANGED <<table, rows>>
      /\ records' = [records EXCEPT ![req[w].id] =
                       IF records[req[w].id] = 0 THEN req[w].row.code ELSE records[req[w].id]]
  BY RecordMoves
<1>2. records' = [i \in Ids |-> records'[i]]
  BY <1>1 DEF RowsBase
<1>3. RowsWell
  BY <1>1, <1>2 DEF RowsBase, RowsWell, Stamped
<1>4. QED
  BY <1>1, <1>3, GoesOn

LEMMA UpdateColumnBase ==
  ASSUME RowsBase, NEW w \in Workers, NEW h \in Offered("update"), NEW i \in Ids, NEW s \in h.to,
         UpdateColumn(w, h, i, s)
  PROVE  RowsBase'
<1>1. PICK row :
           /\ Serving' /\ Alone(w) /\ UNCHANGED <<pc, req>> /\ Elsewhere
           /\ IsRow(row) /\ row.status = s /\ row.setBy = h.op
           /\ rows' = [rows EXCEPT ![i] = row]
  BY UpdateColumnMoves
<1>2. h \in Handlers /\ h.table = table /\ s # "none"
  BY Catalogue DEF Offered, Proper
<1>3. Stamped(row)
  BY <1>1, <1>2 DEF Stamped
<1>4. RowsWell /\ table' = table
  BY <1>1, <1>2, <1>3, RowWritten DEF Elsewhere
<1>5. HeldRow(w)'
  BY <1>1, <1>4 DEF RowsBase, HeldRow, RowsWell, Stamped
<1>6. QED
  BY <1>1, <1>4, <1>5, OthersHeld

LEMMA DeleteBase ==
  ASSUME RowsBase, NEW w \in Workers, NEW h \in Offered("delete"), NEW i \in Ids, Delete(w, h, i)
  PROVE  RowsBase'
<1>1. PICK row :
           /\ Serving' /\ Alone(w) /\ UNCHANGED <<pc, req>> /\ Elsewhere
           /\ Stored(i) /\ IsRow(row) /\ row.status = "deleted" /\ row.setBy = rows[i].setBy
           /\ rows' = [rows EXCEPT ![i] = row]
  BY DeleteMoves
<1>2. Stamped(row)
  BY <1>1 DEF RowsBase, Stamped, Stored
<1>3. RowsWell /\ table' = table
  BY <1>1, <1>2, RowWritten DEF Elsewhere
<1>4. HeldRow(w)'
  BY <1>1, <1>3 DEF RowsBase, HeldRow, RowsWell, Stamped
<1>5. QED
  BY <1>1, <1>3, <1>4, OthersHeld

LEMMA CrashBase ==
  ASSUME RowsBase, CrashRequests /\ RowsCrash
  PROVE  RowsBase'
<1>1. UNCHANGED rowVars /\ Serving' /\ \A w \in Workers : pc'[w] = "idle"
  BY CrashMoves DEF RowsBase, RowsCrash
<1>2. QED
  BY <1>1, RowsAlike DEF RowsBase, RowsWell, HeldRow, rowVars

LEMMA SameBase ==
  ASSUME RowsBase, UNCHANGED <<rowVars, requestVars>>
  PROVE  RowsBase'
<1>1. UNCHANGED <<table, rows, records, pc, req, budget>>
  BY DEF rowVars, requestVars
<1>2. RowsWell /\ Serving'
  BY <1>1, RowsAlike DEF RowsBase, Serving
<1>3. ASSUME NEW w \in Workers
      PROVE  HeldRow(w)'
  BY <1>1 DEF RowsBase, HeldRow, Stamped
<1>4. QED
  BY <1>2, <1>3 DEF RowsBase, RowsWell

LEMMA RowsBaseKept == RowsBase /\ [RowsStep]_rowStepVars => RowsBase'
<1>1. SUFFICES ASSUME RowsBase, [RowsStep]_rowStepVars
               PROVE  RowsBase'
  OBVIOUS
<1>2. CASE RowsNext
  BY <1>1, <1>2, InsertBase, ReadBase, ReadMissingBase, UpdateColumnBase, DeleteBase, SaveBase,
     SaveEmptyBase, QuietBase, RecordBase DEF RowsNext
<1>3. CASE BusNext
  BY <1>1, <1>3, BusMoves, SameBase
<1>4. CASE CrashRequests /\ RowsCrash
  BY <1>1, <1>4, CrashBase
<1>5. CASE UNCHANGED rowStepVars
  BY <1>1, <1>5, SameBase DEF rowStepVars
<1>6. QED
  BY <1>1, <1>2, <1>3, <1>4, <1>5 DEF RowsStep

-----------------------------------------------------------------------------
(* The chain of the statuses.                                              *)

Approved(i) ==
  \E y \in happened :
    y[1] = i /\ (y[2] = "approved" \/ (y[2] = "executing" /\ y[3] = "UpdateVCASE"))
Staged(i) ==
  \E y \in happened : y[1] = i /\ y[2] \in {"growth", "graduate"} /\ y[3] # "GraduateProject"

\* What a status in the table, or in a row about to be saved, tells of the past.
RowChain(i) ==
  /\ rows[i].status \in {"approved", "executing"} => Approved(i)
  /\ rows[i].status \in {"growth", "graduate"} => Staged(i)

HeldChain(w) ==
  pc[w] # "idle" =>
    /\ req[w].op = "UpdateExecution" => Approved(req[w].id)
    /\ req[w].op = "GraduateProject" => Staged(req[w].id)
    /\ req[w].row.status = "executing" =>
         req[w].op = "UpdateVCASE" \/ (req[w].id # 0 /\ Approved(req[w].id))

ChainInv ==
  /\ ChainKept
  /\ \A i \in Ids : RowChain(i)
  /\ \A w \in Workers : HeldChain(w)

\* What was approved or staged stays so.
LEMMA PastKept ==
  ASSUME happened \subseteq happened', NEW i
  PROVE  (Approved(i) => Approved(i)') /\ (Staged(i) => Staged(i)')
BY DEF Approved, Staged

\* The other requests lose nothing.
LEMMA OthersChain ==
  ASSUME ChainInv, NEW w \in Workers, Alone(w), happened \subseteq happened',
         ChainKept', \A i \in Ids : RowChain(i)', HeldChain(w)'
  PROVE  ChainInv'
<1>1. ASSUME NEW v \in Workers \ {w}
      PROVE  HeldChain(v)'
  <2>1. HeldChain(v) /\ pc'[v] = pc[v] /\ req'[v] = req[v]
    BY DEF ChainInv, Alone
  <2>2. QED
    BY <2>1, PastKept DEF HeldChain
<1>2. QED
  BY <1>1 DEF ChainInv

\* The request goes on with what it holds.
LEMMA HoldsChain ==
  ASSUME ChainInv, NEW w \in Workers, happened \subseteq happened',
         pc'[w] # "idle" => pc[w] # "idle" /\ req'[w] = req[w]
  PROVE  HeldChain(w)'
<1>1. HeldChain(w)
  BY DEF ChainInv
<1>2. QED
  BY <1>1, PastKept DEF HeldChain

LEMMA ChainAlike ==
  ASSUME ChainInv, UNCHANGED <<rows, happened>>
  PROVE  ChainKept' /\ \A i \in Ids : RowChain(i)'
BY DEF ChainInv, ChainKept, RowChain, Approved, Staged

\* A write that has the past it tells of.
LEMMA ChainWritten ==
  ASSUME RowsBase, ChainInv, NEW i \in Ids, NEW row, NEW op,
         rows' = [rows EXCEPT ![i] = row],
         happened' = happened \cup {<<i, row.status, op, row.code>>},
         row.status = "executing" => op = "UpdateVCASE" \/ Approved(i),
         op = "UpdateExecution" => Approved(i),
         op = "GraduateProject" => Staged(i)
  PROVE  /\ ChainKept' /\ happened \subseteq happened'
         /\ \A j \in Ids : RowChain(j)'
<1> DEFINE x == <<i, row.status, op, row.code>>
<1>1. x[1] = i /\ x[2] = row.status /\ x[3] = op /\ happened' = happened \cup {x}
  OBVIOUS
<1> HIDE DEF x
<1>2. happened \subseteq happened'
  BY <1>1
<1>3. /\ row.status = "approved" => Approved(i)'
      /\ row.status = "executing" => Approved(i)'
      /\ row.status \in {"growth", "graduate"} => Staged(i)'
      /\ op = "UpdateExecution" => Approved(i)'
      /\ op = "GraduateProject" => Staged(i)'
  BY <1>1, <1>2, PastKept DEF Approved, Staged
<1>4. ASSUME NEW j \in Ids
      PROVE  RowChain(j)'
  <2>1. RowChain(j) /\ (Approved(j) => Approved(j)') /\ (Staged(j) => Staged(j)')
    BY <1>2, PastKept DEF ChainInv
  <2>2. rows'[j] = IF j = i THEN row ELSE rows[j]
    BY DEF RowsBase
  <2>3. QED
    BY <1>3, <2>1, <2>2 DEF RowChain
<1>5. ASSUME NEW y \in happened'
      PROVE  /\ y[3] = "UpdateExecution" => Approved(y[1])'
             /\ y[3] = "GraduateProject" => Staged(y[1])'
  <2>1. CASE y \in happened
    <3>1. /\ y[3] = "UpdateExecution" => Approved(y[1])
          /\ y[3] = "GraduateProject" => Staged(y[1])
      BY <2>1 DEF ChainInv, ChainKept, Approved, Staged
    <3>2. QED
      BY <3>1, <1>2, PastKept
  <2>2. CASE y = x
    BY <2>2, <1>1, <1>3
  <2>3. QED
    BY <1>1, <2>1, <2>2
<1>6. ChainKept'
  BY <1>5 DEF ChainKept, Approved, Staged
<1>7. QED
  BY <1>2, <1>4, <1>6

LEMMA InsertChain ==
  ASSUME RowsBase, ChainInv, NEW w \in Workers, NEW h \in Offered("insert"), NEW s \in h.to,
         Insert(w, h, s)
  PROVE  ChainInv'
<1>1. PICK i, row :
           /\ i \in Ids
           /\ Alone(w) /\ row.status = s /\ row.code = 0
           /\ rows' = [rows EXCEPT ![i] = row] /\ happened' = happened \cup {<<i, s, h.op, 0>>}
           /\ h.trail # "after" => pc'[w] = "idle"
           /\ h.trail = "after" => req'[w].op = h.op /\ req'[w].row = row
  BY InsertMoves
<1>2. /\ h.op # "GraduateProject" /\ h.op # "UpdateExecution"
      /\ s # "executing"
  BY Catalogue DEF Offered, Proper
<1>3. /\ ChainKept' /\ happened \subseteq happened' /\ \A j \in Ids : RowChain(j)'
  BY <1>1, <1>2, ChainWritten
<1>4. HeldChain(w)'
  BY <1>1, <1>2 DEF HeldChain
<1>5. QED
  BY <1>1, <1>3, <1>4, OthersChain

LEMMA ReadChain ==
  ASSUME RowsBase, ChainInv, NEW w \in Workers, NEW h \in Offered("save"), NEW i \in Ids, NEW s,
         Read(w, h, i, s)
  PROVE  ChainInv'
<1>1. /\ Alone(w) /\ UNCHANGED <<rowVars, busVars>>
      /\ rows[i].status \in h.from
      /\ s \in h.to \/ (h.edit /\ s = rows[i].status)
      /\ req'[w].op = h.op /\ req'[w].id = i /\ req'[w].row.status = s
  BY ReadMoves
<1>2. /\ h.op = "UpdateExecution" => h.from \subseteq {"approved", "executing"}
      /\ h.op = "GraduateProject" => h.from \subseteq {"growth", "graduate"}
      /\ "executing" \in h.to => h.op \in {"UpdateVCASE", "UpdateExecution"}
  BY Catalogue DEF Offered, Proper
<1>3. /\ rows[i].status \in {"approved", "executing"} => Approved(i)
      /\ rows[i].status \in {"growth", "graduate"} => Staged(i)
      /\ i # 0
  BY RowIdsAssumption, FS_CardinalityType DEF ChainInv, RowChain
<1>4. UNCHANGED <<rows, happened>>
  BY <1>1 DEF rowVars
<1>5. /\ h.op = "UpdateExecution" => Approved(i)
      /\ h.op = "GraduateProject" => Staged(i)
      /\ s = "executing" => h.op = "UpdateVCASE" \/ Approved(i)
  BY <1>1, <1>2, <1>3
<1>6. HeldChain(w)'
  BY <1>1, <1>3, <1>4, <1>5, PastKept DEF HeldChain
<1>7. QED
  BY <1>1, <1>4, <1>6, ChainAlike, OthersChain

LEMMA ReadMissingChain ==
  ASSUME RowsBase, ChainInv, NEW w \in Workers, NEW h \in Offered("save"), NEW i \in Ids, NEW s,
         ReadMissing(w, h, i, s)
  PROVE  ChainInv'
<1>1. /\ Alone(w) /\ UNCHANGED <<rowVars, busVars>> /\ h.lenient /\ s \in h.to
      /\ req'[w].op = h.op /\ req'[w].row.status = s
  BY ReadMissingMoves
<1>2. /\ h.op # "GraduateProject" /\ h.op # "UpdateExecution"
      /\ s = "executing" => h.op = "UpdateVCASE"
  BY <1>1, Catalogue DEF Offered, Proper
<1>3. UNCHANGED <<rows, happened>>
  BY <1>1 DEF rowVars
<1>4. HeldChain(w)'
  BY <1>1, <1>2 DEF HeldChain
<1>5. QED
  BY <1>1, <1>3, <1>4, ChainAlike, OthersChain

LEMMA SaveChain ==
  ASSUME RowsBase, ChainInv, NEW w \in Workers, Save(w)
  PROVE  ChainInv'
<1>1. /\ Alone(w) /\ pc[w] = "save" /\ req[w].id \in Ids
      /\ pc'[w] # "idle" => req'[w] = req[w]
      /\ rows' = [rows EXCEPT ![req[w].id] = req[w].row]
      /\ happened' = happened \cup
           {<<req[w].id, req[w].row.status, req[w].op, req[w].row.code>>}
  BY SaveMoves
<1>2. HeldChain(w)
  BY DEF ChainInv
<1>3. /\ ChainKept' /\ happened \subseteq happened' /\ \A j \in Ids : RowChain(j)'
  BY <1>1, <1>2, ChainWritten DEF HeldChain
<1>4. HeldChain(w)'
  BY <1>1, <1>3, HoldsChain
<1>5. QED
  BY <1>1, <1>3, <1>4, OthersChain

LEMMA SaveEmptyChain ==
  ASSUME RowsBase, ChainInv, NEW w \in Workers, SaveEmpty(w)
  PROVE  ChainInv'
<1>1. /\ Alone(w) /\ pc[w] = "save" /\ pc'[w] = "idle" /\ req[w].id = 0
      /\ \/ rows' = rows /\ happened' = happened
         \/ \E i \in Ids :
              /\ rows' = [rows EXCEPT ![i] = req[w].row]
              /\ happened' = happened \cup
                   {<<i, req[w].row.status, req[w].op, req[w].row.code>>}
  BY SaveEmptyMoves
<1>2. HeldChain(w) /\ HeldRow(w)
  BY DEF ChainInv, RowsBase
<1>3. /\ req[w].op # "GraduateProject" /\ req[w].op # "UpdateExecution"
      /\ req[w].row.status = "executing" => req[w].op = "UpdateVCASE"
  BY <1>1, <1>2, Catalogue DEF HeldRow, HeldChain, Proper
<1>4. /\ ChainKept' /\ happened \subseteq happened' /\ \A j \in Ids : RowChain(j)'
  BY <1>1, <1>3, ChainWritten, ChainAlike
<1>5. HeldChain(w)'
  BY <1>1 DEF HeldChain
<1>6. QED
  BY <1>1, <1>4, <1>5, OthersChain

LEMMA QuietChain ==
  ASSUME RowsBase, ChainInv, NEW w \in Workers,
         SaveFails(w) \/ Trail(w) \/ TrailFails(w) \/ Record(w) \/ RecordFails(w)
  PROVE  ChainInv'
<1>1. /\ Alone(w) /\ UNCHANGED <<rows, happened>> /\ pc[w] # "idle"
      /\ pc'[w] # "idle" => req'[w] = req[w]
  BY SaveFailsMoves, TrailMoves, TrailFailsMoves, RecordMoves, RecordFailsMoves DEF rowVars
<1>2. QED
  BY <1>1, ChainAlike, HoldsChain, OthersChain

LEMMA UpdateColumnChain ==
  ASSUME RowsBase, ChainInv, NEW w \in Workers, NEW h \in Offered("update"), NEW i \in Ids,
         NEW s \in h.to, UpdateColumn(w, h, i, s)
  PROVE  ChainInv'
<1>1. PICK row :
           /\ Alone(w) /\ UNCHANGED <<pc, req>> /\ row.status = s
           /\ rows' = [rows EXCEPT ![i] = row]
           /\ happened' = happened \cup {<<i, s, h.op, row.code>>}
  BY UpdateColumnMoves
<1>2. h.op # "GraduateProject" /\ h.op # "UpdateExecution" /\ s # "executing"
  BY Catalogue DEF Offered, Proper
<1>3. /\ ChainKept' /\ happened \subseteq happened' /\ \A j \in Ids : RowChain(j)'
  BY <1>1, <1>2, ChainWritten
<1>4. QED
  BY <1>1, <1>3, HoldsChain, OthersChain

LEMMA DeleteChain ==
  ASSUME RowsBase, ChainInv, NEW w \in Workers, NEW h \in Offered("delete"), NEW i \in Ids,
         Delete(w, h, i)
  PROVE  ChainInv'
<1>1. PICK row :
           /\ Alone(w) /\ UNCHANGED <<pc, req>> /\ happened' = happened
           /\ row.status = "deleted" /\ rows' = [rows EXCEPT ![i] = row]
  BY DeleteMoves
<1>2. \A j \in Ids : RowChain(j)'
  <2>1. \A j \in Ids : rows'[j] = IF j = i THEN row ELSE rows[j]
    BY <1>1 DEF RowsBase
  <2>2. QED
    BY <1>1, <2>1 DEF ChainInv, RowChain, Approved, Staged
<1>3. ChainKept'
  BY <1>1 DEF ChainInv, ChainKept
<1>4. QED
  BY <1>1, <1>2, <1>3, HoldsChain, OthersChain

LEMMA ChainInvKept ==
  RowsBase /\ ChainInv /\ [RowsStep]_rowStepVars => ChainInv'
<1>1. SUFFICES ASSUME RowsBase, ChainInv, [RowsStep]_rowStepVars
               PROVE  ChainInv'
  OBVIOUS
<1>2. CASE RowsNext
  BY <1>1, <1>2, InsertChain, ReadChain, ReadMissingChain, UpdateColumnChain, DeleteChain,
     SaveChain, SaveEmptyChain, QuietChain DEF RowsNext
<1>3. ASSUME UNCHANGED rowVars,
             \A w \in Workers : pc'[w] # "idle" => pc[w] # "idle" /\ req'[w] = req[w]
      PROVE  ChainInv'
  <2>1. UNCHANGED <<rows, happened>>
    BY <1>3 DEF rowVars
  <2>2. QED
    BY <1>1, <1>3, <2>1, ChainAlike, HoldsChain DEF ChainInv
<1>4. CASE BusNext
  BY <1>1, <1>3, <1>4, BusMoves DEF requestVars
<1>5. CASE CrashRequests /\ RowsCrash
  BY <1>1, <1>3, <1>5, CrashMoves DEF RowsBase, RowsCrash
<1>6. CASE UNCHANGED rowStepVars
  BY <1>3, <1>6 DEF rowStepVars, requestVars
<1>7. QED
  BY <1>1, <1>2, <1>4, <1>5, <1>6 DEF RowsStep

-----------------------------------------------------------------------------
(* The dates.                                                              *)

Dated(r) == r.status \in DatesOf(r.setBy) => r.status \in r.dates

DatesInv ==
  /\ \A i \in Ids : Dated(rows[i])
  /\ \A w \in Workers : pc[w] # "idle" => Dated(req[w].row)

LEMMA DatesTell ==
  ASSUME DatesInv
  PROVE  DatesMatchStatus
BY Catalogue DEF DatesInv, DatesMatchStatus, Dated, Proper

\* A statement writes at most one row, which is dated, and leaves its request
\* at most a dated row.
LEMMA DatesStep ==
  ASSUME RowsBase, DatesInv, NEW w \in Workers, Alone(w),
         \/ rows' = rows
         \/ \E i \in Ids : \E row : rows' = [rows EXCEPT ![i] = row] /\ Dated(row),
         \/ pc'[w] = "idle"
         \/ pc[w] # "idle" /\ req'[w] = req[w]
         \/ Dated(req'[w].row)
  PROVE  DatesInv'
<1>1. \A j \in Ids : Dated(rows'[j])
  <2>1. CASE rows' = rows
    BY <2>1 DEF DatesInv
  <2>2. ASSUME NEW i \in Ids, NEW row, rows' = [rows EXCEPT ![i] = row], Dated(row)
        PROVE  \A j \in Ids : Dated(rows'[j])
    BY <2>2 DEF DatesInv, RowsBase
  <2>3. QED
    BY <2>1, <2>2
<1>2. \A v \in Workers : pc'[v] # "idle" => Dated(req'[v].row)
  BY DEF Alone, DatesInv
<1>3. QED
  BY <1>1, <1>2 DEF DatesInv, Dated

LEMMA InsertDates ==
  ASSUME RowsBase, DatesInv, NEW w \in Workers, NEW h \in Offered("insert"), NEW s \in h.to,
         Insert(w, h, s)
  PROVE  DatesInv'
<1>1. PICK i, row :
           /\ i \in Ids
           /\ Alone(w) /\ row.setBy = h.op
           /\ rows' = [rows EXCEPT ![i] = row]
           /\ h.trail # "after" => pc'[w] = "idle"
           /\ h.trail = "after" => req'[w].row = row
  BY InsertMoves
<1>2. DatesOf(h.op) = {}
  BY Catalogue DEF Offered, Proper
<1>3. Dated(row)
  BY <1>1, <1>2 DEF Dated
<1>4. QED
  BY <1>1, <1>3, DatesStep

LEMMA ReadDates ==
  ASSUME RowsBase, DatesInv, NEW w \in Workers, NEW h \in Offered("save"), NEW i \in Ids, NEW s,
         Read(w, h, i, s) \/ ReadMissing(w, h, i, s)
  PROVE  DatesInv'
<1>1. h.dates = DatesOf(h.op)
  BY Catalogue DEF Offered, Proper
<1>2. CASE Read(w, h, i, s)
  <2>1. /\ Alone(w) /\ UNCHANGED <<rowVars, busVars>>
        /\ req'[w].row.status = s
        /\ req'[w].row.dates = rows[i].dates \cup ({s} \cap h.dates)
        /\ req'[w].row.setBy = IF h.edit /\ s = rows[i].status THEN rows[i].setBy ELSE h.op
    BY <1>2, ReadMoves
  <2>2. Dated(rows[i])
    BY DEF DatesInv
  <2>3. Dated(req'[w].row)
    BY <1>1, <2>1, <2>2 DEF Dated
  <2>4. QED
    BY <2>1, <2>3, DatesStep DEF rowVars
<1>3. CASE ReadMissing(w, h, i, s)
  <2>1. /\ Alone(w) /\ UNCHANGED <<rowVars, busVars>>
        /\ req'[w].row.status = s /\ req'[w].row.dates = {s} \cap h.dates
        /\ req'[w].row.setBy = h.op
    BY <1>3, ReadMissingMoves
  <2>2. Dated(req'[w].row)
    BY <1>1, <2>1 DEF Dated
  <2>3. QED
    BY <2>1, <2>2, DatesStep DEF rowVars
<1>4. QED
  BY <1>2, <1>3

LEMMA SaveDates ==
  ASSUME RowsBase, DatesInv, NEW w \in Workers, Save(w) \/ SaveEmpty(w)
  PROVE  DatesInv'
<1>1. /\ Alone(w) /\ pc[w] = "save"
      /\ pc'[w] # "idle" => req'[w] = req[w]
      /\ \/ rows' = rows
         \/ \E i \in Ids : rows' = [rows EXCEPT ![i] = req[w].row]
  BY SaveMoves, SaveEmptyMoves
<1>2. Dated(req[w].row)
  BY <1>1 DEF DatesInv
<1>3. QED
  BY <1>1, <1>2, DatesStep

LEMMA QuietDates ==
  ASSUME RowsBase, DatesInv, NEW w \in Workers,
         SaveFails(w) \/ Trail(w) \/ TrailFails(w) \/ Record(w) \/ RecordFails(w)
  PROVE  DatesInv'
<1>1. /\ Alone(w) /\ rows' = rows /\ pc[w] # "idle"
      /\ pc'[w] # "idle" => req'[w] = req[w]
  BY SaveFailsMoves, TrailMoves, TrailFailsMoves, RecordMoves, RecordFailsMoves DEF rowVars
<1>2. QED
  BY <1>1, DatesStep

LEMMA UpdateColumnDates ==
  ASSUME RowsBase, DatesInv, NEW w \in Workers, NEW h \in Offered("update"), NEW i \in Ids,
         NEW s \in h.to, UpdateColumn(w, h, i, s)
  PROVE  DatesInv'
<1>1. PICK row : /\ Alone(w) /\ UNCHANGED <<pc, req>> /\ row.setBy = h.op
                 /\ rows' = [rows EXCEPT ![i] = row]
  BY UpdateColumnMoves
<1>2. DatesOf(h.op) = {}
  BY Catalogue DEF Offered, Proper
<1>3. Dated(row)
  BY <1>1, <1>2 DEF Dated
<1>4. QED
  BY <1>1, <1>3, DatesStep

LEMMA DeleteDates ==
  ASSUME RowsBase, DatesInv, NEW w \in Workers, NEW h \in Offered("delete"), NEW i \in Ids,
         Delete(w, h, i)
  PROVE  DatesInv'
<1>1. PICK row : /\ Alone(w) /\ UNCHANGED <<pc, req>> /\ row.status = "deleted"
                 /\ rows' = [rows EXCEPT ![i] = row]
  BY DeleteMoves
<1>2. Dated(row)
  BY <1>1 DEF Dated, DatesOf
<1>3. QED
  BY <1>1, <1>2, DatesStep

LEMMA DatesInvKept ==
  RowsBase /\ DatesInv /\ [RowsStep]_rowStepVars => DatesInv'
<1>1. SUFFICES ASSUME RowsBase, DatesInv, [RowsStep]_rowStepVars
               PROVE  DatesInv'
  OBVIOUS
<1>2. CASE RowsNext
  BY <1>1, <1>2, InsertDates, ReadDates, UpdateColumnDates, DeleteDates, SaveDates,
     QuietDates DEF RowsNext
<1>3. ASSUME UNCHANGED rowVars,
             \A w \in Workers : pc'[w] # "idle" => pc[w] # "idle" /\ req'[w] = req[w]
      PROVE  DatesInv'
  BY <1>1, <1>3 DEF DatesInv, rowVars, Dated
<1>4. CASE BusNext
  BY <1>1, <1>3, <1>4, BusMoves DEF requestVars
<1>5. CASE CrashRequests /\ RowsCrash
  BY <1>1, <1>3, <1>5, CrashMoves DEF RowsBase, RowsCrash
<1>6. CASE UNCHANGED rowStepVars
  BY <1>3, <1>6 DEF rowStepVars, requestVars
<1>7. QED
  BY <1>1, <1>2, <1>4, <1>5, <1>6 DEF RowsStep

-----------------------------------------------------------------------------
(* The records of the statuses, and the events.                            *)

Written(i, s) == \E x \in happened : x[1] = i /\ x[2] = s

\* The record is there, or about to be INSERTed.
Due(i, s) ==
  \/ <<i, s>> \in trail
  \/ \E w \in Workers : /\ pc[w] = "trail" /\ TrailOf(req[w].op) = "after"
                        /\ req[w].id = i /\ req[w].row.status = s

HeldTrail(w) ==
  /\ pc[w] = "save" /\ TrailOf(req[w].row.setBy) = "before" =>
       <<req[w].id, req[w].row.status>> \in trail
  /\ pc[w] = "trail" /\ TrailOf(req[w].op) = "after" => Written(req[w].id, req[w].row.status)
  /\ pc[w] = "trail" /\ TrailOf(req[w].op) = "before" => req[w].row.setBy = req[w].op
  /\ pc[w] = "save" /\ req[w].id = 0 => req[w].row.setBy = req[w].op

HeldDue(w) ==
  pc[w] = "save" /\ TrailOf(req[w].row.setBy) = "after" =>
    req[w].row.setBy = req[w].op \/ Due(req[w].id, req[w].row.status)

TrailTells == table # "projects" => \A e \in trail : Written(e[1], e[2]) /\ e = <<e[1], e[2]>>
EventsTell == \A e \in outbox : Written(e.id, e.topic)

Faithful ==
  /\ \A i \in Ids : TrailOf(rows[i].setBy) = "before" => Said(i)
  /\ \A w \in Workers : HeldTrail(w)
  /\ TrailTells /\ EventsTell
  /\ NoCrash => /\ \A i \in Ids : TrailOf(rows[i].setBy) = "after" => Due(i, rows[i].status)
                /\ \A w \in Workers : HeldDue(w)

TrailInv == NoFault => Faithful

LEMMA TrailTold ==
  ASSUME TrailInv
  PROVE  TrailFaithful
<1>1. SUFFICES ASSUME NoFault
               PROVE  /\ \A i \in Ids : SetWithTrail(i, "before") => Said(i)
                      /\ Quiet /\ NoCrash => \A i \in Ids : SetWithTrail(i, "after") => Said(i)
                      /\ table # "projects" => \A e \in trail : \E x \in happened : <<x[1], x[2]>> = e
                      /\ \A e \in outbox : \E x \in happened : x[1] = e.id /\ x[2] = e.topic
  BY DEF TrailFaithful
<1>2. Faithful
  BY <1>1 DEF TrailInv
<1>3. \A i \in Ids : \A when : SetWithTrail(i, when) => TrailOf(rows[i].setBy) = when
  BY Catalogue DEF SetWithTrail, Proper
<1>4. \A i \in Ids : SetWithTrail(i, "before") => Said(i)
  BY <1>2, <1>3 DEF Faithful
<1>5. Quiet /\ NoCrash => \A i \in Ids : SetWithTrail(i, "after") => Said(i)
  BY <1>2, <1>3 DEF Faithful, Due, Said, Quiet
<1>6. ASSUME table # "projects", NEW e \in trail
      PROVE  \E x \in happened : <<x[1], x[2]>> = e
  BY <1>2, <1>6 DEF Faithful, TrailTells, Written
<1>7. \A e \in outbox : \E x \in happened : x[1] = e.id /\ x[2] = e.topic
  BY <1>2 DEF Faithful, EventsTell, Written
<1>8. QED
  BY <1>4, <1>5, <1>6, <1>7

LEMMA WrittenKept ==
  ASSUME happened \subseteq happened', NEW i, NEW s, Written(i, s)
  PROVE  Written(i, s)'
BY DEF Written

LEMMA DueKept ==
  ASSUME NEW w \in Workers, Alone(w), trail \subseteq trail',
         pc[w] = "trail" => <<req[w].id, req[w].row.status>> \in trail',
         NEW i, NEW s, Due(i, s)
  PROVE  Due(i, s)'
<1>1. CASE <<i, s>> \in trail
  BY <1>1 DEF Due
<1>2. ASSUME NEW v \in Workers, pc[v] = "trail", TrailOf(req[v].op) = "after",
             req[v].id = i, req[v].row.status = s
      PROVE  Due(i, s)'
  <2>1. CASE v = w
    BY <1>2, <2>1 DEF Due
  <2>2. CASE v # w
    <3>1. pc'[v] = pc[v] /\ req'[v] = req[v]
      BY <2>2 DEF Alone
    <3>2. QED
      BY <1>2, <3>1 DEF Due
  <2>3. QED
    BY <2>1, <2>2
<1>3. QED
  BY <1>1, <1>2 DEF Due

\* What a statement must do, that the records stay faithful.
LEMMA TrailStep ==
  ASSUME RowsBase, Faithful, NEW w \in Workers, Alone(w), Well, table' = table,
         trail \subseteq trail', happened \subseteq happened', TrailTells', EventsTell',
         pc[w] = "trail" => <<req[w].id, req[w].row.status>> \in trail',
         \/ rows' = rows
         \/ \E i \in Ids : \E row :
              /\ rows' = [rows EXCEPT ![i] = row]
              /\ TrailOf(row.setBy) = "before" => <<i, row.status>> \in trail'
              /\ NoCrash /\ TrailOf(row.setBy) = "after" => Due(i, row.status)',
         HeldTrail(w)', NoCrash => HeldDue(w)'
  PROVE  Faithful'
<1>1. NoCrash' => NoCrash
  BY DEF Well, NoCrash
<1>2. ASSUME NEW i, NEW s, Due(i, s)
      PROVE  Due(i, s)'
  BY <1>2, DueKept
<1>3. ASSUME NEW v \in Workers \ {w}
      PROVE  HeldTrail(v)' /\ (NoCrash => HeldDue(v)')
  <2>1. /\ HeldTrail(v) /\ pc'[v] = pc[v] /\ req'[v] = req[v]
        /\ NoCrash => HeldDue(v)
    BY DEF Faithful, Alone
  <2>2. HeldTrail(v)'
    BY <2>1, WrittenKept DEF HeldTrail
  <2>3. NoCrash => HeldDue(v)'
    BY <2>1, <1>2 DEF HeldDue
  <2>4. QED
    BY <2>2, <2>3
<1>4. ASSUME NEW j \in Ids, NEW s, NEW by, rows'[j].status = s, rows'[j].setBy = by
      PROVE  /\ TrailOf(by) = "before" => <<j, s>> \in trail'
             /\ NoCrash /\ TrailOf(by) = "after" => Due(j, s)'
  <2>1. /\ TrailOf(rows[j].setBy) = "before" => <<j, rows[j].status>> \in trail'
        /\ NoCrash /\ TrailOf(rows[j].setBy) = "after" => Due(j, rows[j].status)
    BY DEF Faithful, Said
  <2>2. CASE rows'[j] = rows[j]
    BY <1>2, <1>4, <2>1, <2>2
  <2>3. ASSUME NEW row, rows'[j] = row,
               TrailOf(row.setBy) = "before" => <<j, row.status>> \in trail',
               NoCrash /\ TrailOf(row.setBy) = "after" => Due(j, row.status)'
        PROVE  /\ TrailOf(by) = "before" => <<j, s>> \in trail'
               /\ NoCrash /\ TrailOf(by) = "after" => Due(j, s)'
    BY <1>4, <2>3
  <2>4. \/ rows'[j] = rows[j]
        \/ \E row : /\ rows'[j] = row
                    /\ TrailOf(row.setBy) = "before" => <<j, row.status>> \in trail'
                    /\ NoCrash /\ TrailOf(row.setBy) = "after" => Due(j, row.status)'
    BY DEF RowsBase
  <2>5. QED
    BY <2>2, <2>3, <2>4
<1>5. \A j \in Ids : (TrailOf(rows[j].setBy) = "before" => Said(j))'
  BY <1>4 DEF Said
<1>6. NoCrash' => \A j \in Ids : (TrailOf(rows[j].setBy) = "after" => Due(j, rows[j].status))'
  <2>1. ASSUME NoCrash, NEW j \in Ids, (TrailOf(rows[j].setBy) = "after")'
        PROVE  Due(j, rows[j].status)'
    BY <1>4, <2>1 DEF Due
  <2>2. QED
    BY <1>1, <2>1
<1>7. QED
  BY <1>1, <1>3, <1>5, <1>6 DEF Faithful

LEMMA TellsKept ==
  ASSUME Faithful, UNCHANGED <<table, trail>>, outbox' \subseteq outbox,
         happened \subseteq happened'
  PROVE  TrailTells' /\ EventsTell'
BY WrittenKept DEF Faithful, TrailTells, EventsTell, Written

LEMMA InsertTrail ==
  ASSUME RowsBase, Faithful, NEW w \in Workers, NEW h \in Offered("insert"), NEW s \in h.to,
         Insert(w, h, s)
  PROVE  Faithful'
<1>1. PICK i, row :
           /\ i \in Ids
           /\ Alone(w) /\ Well /\ pc[w] = "idle" /\ Elsewhere /\ row.status = s
           /\ row.setBy = h.op
           /\ rows' = [rows EXCEPT ![i] = row] /\ happened' = happened \cup {<<i, s, h.op, 0>>}
           /\ h.trail # "after" => pc'[w] = "idle"
           /\ h.trail = "after" => /\ pc'[w] = "trail" /\ req'[w].op = h.op /\ req'[w].id = i
                                   /\ req'[w].row = row
  BY InsertMoves
<1>2. TrailOf(h.op) = h.trail /\ h.trail # "before"
  BY Catalogue DEF Offered, Proper
<1>3. UNCHANGED <<table, trail, outbox>> /\ happened \subseteq happened'
  BY <1>1 DEF Elsewhere, busVars
<1>4. TrailTells' /\ EventsTell'
  BY <1>3, TellsKept
<1>5. TrailOf(row.setBy) = "after" => Due(i, row.status)'
  BY <1>1, <1>2 DEF Due
<1>6. Written(i, s)'
  <2> DEFINE x == <<i, s, h.op, 0>>
  <2>1. x \in happened' /\ x[1] = i /\ x[2] = s
    BY <1>1
  <2>2. QED
    BY <2>1 DEF Written
<1>7. HeldTrail(w)' /\ HeldDue(w)'
  <2>1. CASE h.trail = "after"
    <3>1. pc'[w] = "trail" /\ req'[w].op = h.op /\ req'[w].id = i /\ req'[w].row.status = s
      BY <1>1, <2>1
    <3>2. Written(req[w].id, req[w].row.status)'
      BY <1>6, <3>1 DEF Written
    <3>3. QED
      BY <1>2, <3>1, <3>2 DEF HeldTrail, HeldDue
  <2>2. CASE h.trail # "after"
    BY <1>1, <2>2 DEF HeldTrail, HeldDue
  <2>3. QED
    BY <2>1, <2>2
<1>8. TrailOf(row.setBy) # "before"
  BY <1>1, <1>2
<1>9. QED
  BY <1>1, <1>3, <1>4, <1>5, <1>7, <1>8, TrailStep

LEMMA ReadTrail ==
  ASSUME RowsBase, Faithful, NEW w \in Workers, NEW h \in Offered("save"), NEW i \in Ids, NEW s,
         Read(w, h, i, s)
  PROVE  Faithful'
<1>1. /\ Alone(w) /\ Well /\ pc[w] = "idle" /\ pc'[w] = FirstStep(h)
      /\ UNCHANGED <<rowVars, busVars>>
      /\ req'[w].op = h.op /\ req'[w].id = i /\ req'[w].row.status = s
      /\ req'[w].row.setBy = IF h.edit /\ s = rows[i].status THEN rows[i].setBy ELSE h.op
  BY ReadMoves
<1>2. TrailOf(h.op) = h.trail /\ (h.trail # "none" => ~h.edit)
  BY Catalogue DEF Offered, Proper, TrailOf
<1>3. UNCHANGED <<table, rows, trail, happened, outbox>> /\ i # 0
  BY <1>1, RowIdsAssumption, FS_CardinalityType DEF rowVars, busVars
<1>4. TrailTells' /\ EventsTell'
  BY <1>3, TellsKept
<1>5. pc'[w] = IF h.trail = "before" THEN "trail" ELSE "save"
  BY <1>1 DEF FirstStep
<1>6. \/ req'[w].row.setBy = h.op
      \/ req'[w].row.setBy = rows[i].setBy /\ s = rows[i].status
  BY <1>1
<1>7. HeldTrail(w)'
  <2>1. TrailOf(rows[i].setBy) = "before" => <<i, rows[i].status>> \in trail'
    BY <1>3 DEF Faithful, Said
  <2>2. pc'[w] = "trail" => req'[w].row.setBy = h.op
    BY <1>1, <1>2, <1>5
  <2>3. pc'[w] = "save" /\ TrailOf(req'[w].row.setBy) = "before" =>
          <<req'[w].id, req'[w].row.status>> \in trail'
    BY <1>1, <1>2, <1>5, <1>6, <2>1
  <2>4. pc'[w] = "trail" => TrailOf(req'[w].op) # "after"
    BY <1>1, <1>2, <1>5
  <2>5. QED
    BY <1>1, <1>3, <2>2, <2>3, <2>4 DEF HeldTrail
<1>8. NoCrash => HeldDue(w)'
  <2>1. SUFFICES ASSUME NoCrash, TrailOf(req'[w].row.setBy) = "after", req'[w].row.setBy # h.op
                 PROVE  Due(req[w].id, req[w].row.status)'
    BY <1>1 DEF HeldDue
  <2>2. Due(i, rows[i].status)
    BY <1>6, <2>1 DEF Faithful
  <2>3. \A j, t : Due(j, t) => Due(j, t)'
    BY <1>1, <1>3, DueKept
  <2>4. Due(i, s)'
    BY <1>6, <2>1, <2>2, <2>3
  <2>5. QED
    BY <1>1, <2>4 DEF Due
<1>9. QED
  BY <1>1, <1>3, <1>4, <1>7, <1>8, TrailStep

LEMMA ReadMissingTrail ==
  ASSUME RowsBase, Faithful, NEW w \in Workers, NEW h \in Offered("save"), NEW i \in Ids, NEW s,
         ReadMissing(w, h, i, s)
  PROVE  Faithful'
<1>1. /\ Alone(w) /\ Well /\ pc[w] = "idle" /\ pc'[w] = "save"
      /\ UNCHANGED <<rowVars, busVars>> /\ h.lenient
      /\ req'[w].op = h.op /\ req'[w].row.setBy = h.op
  BY ReadMissingMoves
<1>2. TrailOf(h.op) = "none"
  BY <1>1, Catalogue DEF Offered, Proper
<1>3. UNCHANGED <<table, rows, trail, happened, outbox>>
  BY <1>1 DEF rowVars, busVars
<1>4. TrailTells' /\ EventsTell'
  BY <1>3, TellsKept
<1>5. HeldTrail(w)' /\ HeldDue(w)'
  BY <1>1, <1>2 DEF HeldTrail, HeldDue
<1>6. QED
  BY <1>1, <1>3, <1>4, <1>5, TrailStep

LEMMA SaveTrail ==
  ASSUME RowsBase, Faithful, NEW w \in Workers, Save(w)
  PROVE  Faithful'
<1> DEFINE i == req[w].id
           row == req[w].row
<1>1. /\ Alone(w) /\ Well /\ Elsewhere
      /\ pc[w] = "save" /\ pc'[w] = Then(req[w].op)
      /\ pc'[w] # "idle" => req'[w] = req[w]
      /\ i \in Ids /\ rows' = [rows EXCEPT ![i] = row]
      /\ happened' = happened \cup {<<i, row.status, req[w].op, row.code>>}
  BY SaveMoves
<1>2. UNCHANGED <<table, trail, outbox>> /\ happened \subseteq happened'
  BY <1>1 DEF Elsewhere, busVars
<1>3. TrailTells' /\ EventsTell'
  BY <1>2, TellsKept
<1>4. HeldTrail(w) /\ (NoCrash => HeldDue(w))
  BY DEF Faithful
<1>5. TrailOf(row.setBy) = "before" => <<i, row.status>> \in trail'
  BY <1>1, <1>2, <1>4 DEF HeldTrail
<1>6. Written(req[w].id, req[w].row.status)'
      \/ pc'[w] = "idle"
  <2> DEFINE x == <<i, row.status, req[w].op, row.code>>
  <2>1. x \in happened' /\ x[1] = i /\ x[2] = row.status
    BY <1>1
  <2>2. QED
    BY <1>1, <2>1 DEF Written
<1>7. HeldTrail(w)' /\ HeldDue(w)'
  <2>1. pc'[w] # "save" /\ (pc'[w] = "trail" => TrailOf(req[w].op) = "after" /\ req'[w] = req[w])
    BY <1>1 DEF Then
  <2>2. QED
    BY <1>6, <2>1 DEF HeldTrail, HeldDue
<1>8. ASSUME NoCrash, TrailOf(row.setBy) = "after", NEW j, NEW t, j = i, t = row.status
      PROVE  Due(j, t)'
  <2>1. CASE row.setBy = req[w].op
    <3>1. pc'[w] = "trail" /\ req'[w] = req[w]
      BY <1>1, <1>8, <2>1 DEF Then
    <3>2. QED
      BY <1>8, <2>1, <3>1 DEF Due
  <2>2. CASE Due(i, row.status)
    BY <1>1, <1>2, <1>8, <2>2, DueKept
  <2>3. QED
    BY <1>1, <1>4, <1>8, <2>1, <2>2 DEF HeldDue
<1>9. \E k \in Ids : \E new :
        /\ rows' = [rows EXCEPT ![k] = new]
        /\ TrailOf(new.setBy) = "before" => <<k, new.status>> \in trail'
        /\ NoCrash /\ TrailOf(new.setBy) = "after" => Due(k, new.status)'
  <2>1. PICK k, new : k = i /\ new = row
    OBVIOUS
  <2>2. NoCrash /\ TrailOf(new.setBy) = "after" => Due(k, new.status)'
    BY <1>8, <2>1
  <2>3. QED
    BY <1>1, <1>5, <2>1, <2>2
<1> HIDE DEF i, row
<1>10. QED
  BY <1>1, <1>2, <1>3, <1>7, <1>9, TrailStep

LEMMA SaveEmptyTrail ==
  ASSUME RowsBase, Faithful, NEW w \in Workers, SaveEmpty(w)
  PROVE  Faithful'
<1>1. /\ Alone(w) /\ Well /\ Elsewhere
      /\ pc[w] = "save" /\ pc'[w] = "idle" /\ req[w].id = 0
      /\ \/ rows' = rows /\ happened' = happened
         \/ \E i \in Ids :
              /\ rows' = [rows EXCEPT ![i] = req[w].row]
              /\ happened' = happened \cup
                   {<<i, req[w].row.status, req[w].op, req[w].row.code>>}
  BY SaveEmptyMoves
<1>2. UNCHANGED <<table, trail, outbox>> /\ happened \subseteq happened'
  BY <1>1 DEF Elsewhere, busVars
<1>3. TrailTells' /\ EventsTell'
  BY <1>2, TellsKept
<1>4. HeldTrail(w) /\ HeldRow(w)
  BY DEF Faithful, RowsBase
<1>5. TrailOf(req[w].row.setBy) = "none"
  BY <1>1, <1>4, Catalogue DEF HeldRow, HeldTrail, Proper
<1>6. HeldTrail(w)' /\ HeldDue(w)'
  BY <1>1 DEF HeldTrail, HeldDue
<1>7. \/ rows' = rows
      \/ \E i \in Ids : \E row :
           rows' = [rows EXCEPT ![i] = row] /\ TrailOf(row.setBy) = "none"
  BY <1>1, <1>5
<1>8. \/ rows' = rows
      \/ \E i \in Ids : \E row :
           /\ rows' = [rows EXCEPT ![i] = row]
           /\ TrailOf(row.setBy) = "before" => <<i, row.status>> \in trail'
           /\ NoCrash /\ TrailOf(row.setBy) = "after" => Due(i, row.status)'
  BY <1>7
<1>9. QED
  BY <1>1, <1>2, <1>3, <1>6, <1>8, TrailStep

LEMMA TrailTrail ==
  ASSUME RowsBase, Faithful, NEW w \in Workers, Trail(w)
  PROVE  Faithful'
<1> DEFINE i == req[w].id
           s == req[w].row.status
<1>1. /\ Alone(w) /\ Well
      /\ pc[w] = "trail" /\ pc'[w] = Afterwards(req[w].op)
      /\ pc'[w] # "idle" => req'[w] = req[w]
      /\ UNCHANGED <<table, rows, records, happened, disturbed>>
      /\ trail' = trail \cup {<<i, s>>}
      /\ \/ outbox' = outbox
         \/ TrailOf(req[w].op) = "after" /\ outbox' = outbox \cup {EventOf(w)}
  BY TrailMoves
<1>2. HeldTrail(w) /\ HeldRow(w)
  BY DEF Faithful, RowsBase
<1>3. /\ TrailOf(req[w].op) \in {"before", "after"}
      /\ TrailOf(req[w].op) = "before" => table = "projects"
      /\ i # 0
  BY <1>1, <1>2, Catalogue DEF HeldRow, Proper, TrailOf
<1>4. TrailOf(req[w].op) = "after" => Written(i, s)
  BY <1>1, <1>2 DEF HeldTrail
<1>5. TrailTells'
  <2>1. ASSUME table # "projects", NEW e \in trail'
        PROVE  Written(e[1], e[2]) /\ e = <<e[1], e[2]>>
    <3>1. CASE e \in trail
      BY <2>1, <3>1 DEF Faithful, TrailTells
    <3>2. CASE e = <<i, s>>
      BY <1>3, <1>4, <2>1, <3>2
    <3>3. QED
      BY <1>1, <2>1, <3>1, <3>2
  <2>2. QED
    BY <1>1, <2>1 DEF TrailTells, Written
<1>6. EventsTell'
  <2>1. EventOf(w).id = i /\ EventOf(w).topic = s
    BY DEF EventOf
  <2>2. \A e \in outbox' : Written(e.id, e.topic)
    BY <1>1, <1>4, <2>1 DEF Faithful, EventsTell
  <2>3. QED
    BY <1>1, <2>2 DEF EventsTell, Written
<1>7. HeldTrail(w)'
  <2>1. pc'[w] = IF TrailOf(req[w].op) = "before" THEN "save" ELSE "idle"
    BY <1>1 DEF Afterwards
  <2>2. <<i, s>> \in trail'
    BY <1>1
  <2>3. QED
    BY <1>1, <1>3, <2>1, <2>2 DEF HeldTrail
<1>8. HeldDue(w)'
  BY <1>1, <1>2 DEF Afterwards, HeldTrail, HeldDue
<1>9. trail \subseteq trail' /\ <<req[w].id, req[w].row.status>> \in trail'
  BY <1>1
<1> HIDE DEF i, s
<1>10. QED
  BY <1>1, <1>5, <1>6, <1>7, <1>8, <1>9, TrailStep

LEMMA RecordTrail ==
  ASSUME RowsBase, Faithful, NEW w \in Workers, Record(w)
  PROVE  Faithful'
<1>1. /\ Alone(w) /\ Well /\ pc[w] = "record" /\ pc'[w] = "idle"
      /\ UNCHANGED <<table, rows, trail, happened, disturbed, busVars>>
  BY RecordMoves
<1>2. TrailTells' /\ EventsTell'
  BY <1>1, TellsKept DEF busVars
<1>3. HeldTrail(w)' /\ HeldDue(w)'
  BY <1>1 DEF HeldTrail, HeldDue
<1>4. QED
  BY <1>1, <1>2, <1>3, TrailStep

\* A statement that is a request of its own.
LEMMA SingleTrail ==
  ASSUME RowsBase, Faithful, NEW w \in Workers, Alone(w), Well, pc[w] = "idle",
         UNCHANGED <<pc, req>>, Elsewhere, happened \subseteq happened',
         NEW i \in Ids, NEW row, rows' = [rows EXCEPT ![i] = row],
         TrailOf(row.setBy) = "none"
  PROVE  Faithful'
<1>1. UNCHANGED <<table, trail, outbox>>
  BY DEF Elsewhere, busVars
<1>2. TrailTells' /\ EventsTell'
  BY <1>1, TellsKept
<1>3. HeldTrail(w)' /\ HeldDue(w)'
  BY DEF HeldTrail, HeldDue
<1>4. QED
  BY <1>1, <1>2, <1>3, TrailStep

LEMMA UpdateColumnTrail ==
  ASSUME RowsBase, Faithful, NEW w \in Workers, NEW h \in Offered("update"), NEW i \in Ids,
         NEW s \in h.to, UpdateColumn(w, h, i, s)
  PROVE  Faithful'
<1>1. PICK row :
           /\ Alone(w) /\ Well /\ pc[w] = "idle" /\ UNCHANGED <<pc, req>> /\ Elsewhere
           /\ row.setBy = h.op /\ rows' = [rows EXCEPT ![i] = row]
           /\ happened' = happened \cup {<<i, s, h.op, row.code>>}
  BY UpdateColumnMoves
<1>2. TrailOf(h.op) = "none"
  BY Catalogue DEF Offered, Proper, TrailOf
<1>3. happened \subseteq happened'
  BY <1>1
<1>4. QED
  BY <1>1, <1>2, <1>3, SingleTrail

LEMMA DeleteTrail ==
  ASSUME RowsBase, Faithful, NEW w \in Workers, NEW h \in Offered("delete"), NEW i \in Ids,
         Delete(w, h, i)
  PROVE  Faithful'
<1>1. PICK row :
           /\ Alone(w) /\ Well /\ pc[w] = "idle" /\ UNCHANGED <<pc, req>> /\ Elsewhere
           /\ happened' = happened /\ table = "tms_products" /\ Stored(i)
           /\ row.setBy = rows[i].setBy /\ rows' = [rows EXCEPT ![i] = row]
  BY DeleteMoves
<1>2. PICK k \in Handlers : k.op = rows[i].setBy /\ k.table = "tms_products"
  BY <1>1 DEF RowsBase, Stamped, Stored
<1>3. TrailOf(rows[i].setBy) = "none"
  BY <1>2, Catalogue DEF Proper, TrailOf
<1>4. QED
  BY <1>1, <1>3, SingleTrail

LEMMA FailsTrail ==
  ASSUME RowsBase, NEW w \in Workers, SaveFails(w) \/ TrailFails(w) \/ RecordFails(w)
  PROVE  ~NoFault'
BY SaveFailsMoves, TrailFailsMoves, RecordFailsMoves, IllFaults DEF RowsBase

\* A crash, a goroutine of the bus or nothing at all.
LEMMA BackgroundTrail ==
  ASSUME Faithful, UNCHANGED rowVars, outbox' \subseteq outbox,
         \/ UNCHANGED requestVars
         \/ ~NoCrash' /\ \A w \in Workers : pc'[w] = "idle"
  PROVE  Faithful'
<1>1. UNCHANGED <<table, rows, trail, happened>>
  BY DEF rowVars
<1>2. TrailTells' /\ EventsTell'
  BY <1>1, TellsKept
<1>3. CASE UNCHANGED requestVars
  <2>1. UNCHANGED <<pc, req, budget>>
    BY <1>3 DEF requestVars
  <2>2. ASSUME NEW w \in Workers
        PROVE  HeldTrail(w)' /\ (NoCrash => HeldDue(w)')
    BY <1>1, <2>1 DEF Faithful, HeldTrail, HeldDue, Written, Due
  <2>3. \A i \in Ids : (TrailOf(rows[i].setBy) = "before" => Said(i))'
    BY <1>1 DEF Faithful, Said
  <2>4. NoCrash' => \A i \in Ids : (TrailOf(rows[i].setBy) = "after" => Due(i, rows[i].status))'
    BY <1>1, <2>1 DEF Faithful, Due, NoCrash
  <2>5. NoCrash' => NoCrash
    BY <2>1 DEF NoCrash
  <2>6. QED
    BY <1>2, <2>2, <2>3, <2>4, <2>5 DEF Faithful
<1>4. CASE ~NoCrash' /\ \A w \in Workers : pc'[w] = "idle"
  BY <1>1, <1>2, <1>4 DEF Faithful, HeldTrail, Said
<1>5. QED
  BY <1>3, <1>4

\* Failures stay counted.
LEMMA NoFaultBefore ==
  ASSUME RowsBase, [RowsStep]_rowStepVars, NoFault'
  PROVE  NoFault
<1>1. CASE RowsNext
  <2>1. Well \/ ~NoFault'
    BY <1>1, InsertMoves, ReadMoves, ReadMissingMoves, UpdateColumnMoves, DeleteMoves,
       SaveMoves, SaveEmptyMoves, TrailMoves, RecordMoves, FailsTrail DEF RowsNext
  <2>2. QED
    BY <2>1 DEF Well, NoFault
<1>2. CASE BusNext
  BY <1>2, BusMoves DEF requestVars, NoFault
<1>3. CASE CrashRequests /\ RowsCrash
  BY <1>3, CrashMoves DEF RowsBase, NoFault
<1>4. CASE UNCHANGED rowStepVars
  BY <1>4 DEF rowStepVars, requestVars, NoFault
<1>5. QED
  BY <1>1, <1>2, <1>3, <1>4 DEF RowsStep

LEMMA TrailInvKept ==
  RowsBase /\ TrailInv /\ [RowsStep]_rowStepVars => TrailInv'
<1>1. SUFFICES ASSUME RowsBase, TrailInv, [RowsStep]_rowStepVars, NoFault'
               PROVE  Faithful'
  BY DEF TrailInv
<1>2. NoFault
  BY <1>1, NoFaultBefore
<1>3. Faithful
  BY <1>1, <1>2 DEF TrailInv
<1>4. CASE RowsNext
  BY <1>1, <1>3, <1>4, InsertTrail, ReadTrail, ReadMissingTrail, UpdateColumnTrail, DeleteTrail,
     SaveTrail, SaveEmptyTrail, TrailTrail, RecordTrail, FailsTrail DEF RowsNext
<1>5. CASE BusNext
  BY <1>1, <1>3, <1>5, BusMoves, BackgroundTrail
<1>6. CASE CrashRequests /\ RowsCrash
  <2>1. UNCHANGED rowVars /\ outbox' \subseteq outbox
    BY <1>6 DEF RowsCrash, BusCrash
  <2>2. ~NoCrash' /\ \A w \in Workers : pc'[w] = "idle"
    BY <1>1, <1>6, CrashMoves, CrashCounted DEF RowsBase
  <2>3. QED
    BY <1>3, <2>1, <2>2, BackgroundTrail
<1>7. CASE UNCHANGED rowStepVars
  BY <1>3, <1>7, BackgroundTrail DEF rowStepVars, busVars
<1>8. QED
  BY <1>1, <1>4, <1>5, <1>6, <1>7 DEF RowsStep

-----------------------------------------------------------------------------
(* The graduate records.                                                   *)

HeldCode(w) ==
  pc[w] # "idle" =>
    /\ req[w].op = "GraduateProject" =>
         req[w].row.status = "graduate" /\ req[w].read.code = 0 /\ req[w].row.code # 0
    /\ req[w].op \notin {"GraduateProject", "UpdateProject"} /\ req[w].id # 0 =>
         req[w].row.code = req[w].read.code
    /\ pc[w] = "record" =>
         /\ <<req[w].id, "graduate", "GraduateProject", req[w].row.code>> \in happened
         /\ req[w].id \notin disturbed => req[w].row.code = rows[req[w].id].code

\* The record has the code of the row, or is about to be INSERTed.
Recorded(i) ==
  \/ records[i] = rows[i].code
  \/ records[i] = 0 /\ \E w \in Workers : pc[w] = "record" /\ req[w].id = i

CodeRight(i) ==
  /\ records[i] # 0 => <<i, "graduate", "GraduateProject", records[i]>> \in happened
  /\ rows[i].status = "none" => records[i] = 0 /\ rows[i].code = 0
  /\ NoCrash /\ i \notin disturbed => Recorded(i)

Coded ==
  /\ \A i \in Ids : CodeRight(i)
  /\ \A w \in Workers : HeldCode(w)

CodesInv == NoFault => Coded

LEMMA CodesTell ==
  ASSUME CodesInv
  PROVE  GraduationRecorded
BY DEF CodesInv, Coded, CodeRight, Recorded, GraduationRecorded, Quiet

\* What a statement must do, that rows and records agree: the code of a row
\* stays, unless it was zero and the request will INSERT the record.
LEMMA CodeStep ==
  ASSUME RowsBase, Coded, NEW w \in Workers, Alone(w), Well, records' = records,
         happened \subseteq happened', disturbed \subseteq disturbed', pc[w] # "record",
         \A i \in Ids : rows'[i].status = "none" => rows'[i] = rows[i],
         \A i \in Ids \ disturbed' :
           \/ rows'[i].code = rows[i].code
           \/ rows[i].code = 0 /\ pc'[w] = "record" /\ req'[w].id = i,
         HeldCode(w)'
  PROVE  Coded'
<1>1. NoCrash' => NoCrash
  BY DEF Well, NoCrash
<1>2. ASSUME NEW v \in Workers, pc[v] = "record"
      PROVE  /\ v # w /\ pc'[v] = pc[v] /\ req'[v] = req[v]
             /\ req[v].id \in Ids /\ req[v].row.code # 0
             /\ req[v].id \notin disturbed' => req[v].row.code = rows[req[v].id].code
  <2>1. v # w /\ pc'[v] = pc[v] /\ req'[v] = req[v]
    BY <1>2 DEF Alone
  <2>2. HeldRow(v) /\ HeldCode(v)
    BY DEF RowsBase, Coded
  <2>3. req[v].op = "GraduateProject" /\ req[v].id \in Ids
    BY <1>2, <2>2 DEF HeldRow
  <2>4. /\ req[v].row.code # 0
        /\ req[v].id \notin disturbed => req[v].row.code = rows[req[v].id].code
    BY <1>2, <2>2, <2>3 DEF HeldCode
  <2>5. QED
    BY <2>1, <2>3, <2>4
<1>3. ASSUME NEW v \in Workers \ {w}
      PROVE  HeldCode(v)'
  <2>1. HeldCode(v) /\ pc'[v] = pc[v] /\ req'[v] = req[v]
    BY DEF Coded, Alone
  <2>2. ASSUME pc[v] = "record", req[v].id \notin disturbed'
        PROVE  req[v].row.code = rows'[req[v].id].code
    <3>1. /\ req[v].id \in Ids /\ req[v].row.code # 0
          /\ req[v].row.code = rows[req[v].id].code
      BY <1>2, <2>2
    <3>2. QED
      BY <2>2, <3>1
  <2>3. QED
    BY <2>1, <2>2 DEF HeldCode
<1>4. ASSUME NEW i \in Ids
      PROVE  CodeRight(i)'
  <2>1. CodeRight(i)
    BY DEF Coded
  <2>2. rows'[i].status = "none" => records'[i] = 0 /\ rows'[i].code = 0
    BY <2>1 DEF CodeRight
  <2>3. ASSUME NoCrash, i \notin disturbed'
        PROVE  Recorded(i)'
    <3>1. Recorded(i)
      BY <2>1, <2>3 DEF CodeRight
    <3>2. CASE rows'[i].code = rows[i].code
      <4>1. CASE records[i] = rows[i].code
        BY <3>2, <4>1 DEF Recorded
      <4>2. ASSUME records[i] = 0, NEW v \in Workers, pc[v] = "record", req[v].id = i
            PROVE  Recorded(i)'
        BY <1>2, <4>2 DEF Recorded
      <4>3. QED
        BY <3>1, <4>1, <4>2 DEF Recorded
    <3>3. CASE rows[i].code = 0 /\ pc'[w] = "record" /\ req'[w].id = i
      BY <3>1, <3>3 DEF Recorded
    <3>4. QED
      BY <2>3, <3>2, <3>3
  <2>4. QED
    BY <1>1, <2>1, <2>2, <2>3 DEF CodeRight
<1>5. QED
  BY <1>3, <1>4 DEF Coded

LEMMA InsertCode ==
  ASSUME RowsBase, Coded, NEW w \in Workers, NEW h \in Offered("insert"), NEW s \in h.to,
         Insert(w, h, s)
  PROVE  Coded'
<1>1. PICK i, row :
           /\ i \in Ids
           /\ Alone(w) /\ Well /\ pc[w] = "idle" /\ Elsewhere /\ disturbed' = disturbed
           /\ rows[i].status = "none" /\ row.status = s /\ row.code = 0
           /\ rows' = [rows EXCEPT ![i] = row] /\ happened' = happened \cup {<<i, s, h.op, 0>>}
           /\ h.trail # "after" => pc'[w] = "idle"
           /\ h.trail = "after" => /\ pc'[w] = "trail" /\ req'[w].op = h.op
                                   /\ req'[w].row = row /\ req'[w].read = row
  BY InsertMoves
<1>2. h.op # "GraduateProject" /\ s # "none"
  BY Catalogue DEF Offered, Proper
<1>3. \A j \in Ids : rows'[j] = IF j = i THEN row ELSE rows[j]
  BY <1>1 DEF RowsBase
<1>4. rows[i].code = 0
  BY <1>1 DEF Coded, CodeRight
<1>5. HeldCode(w)'
  BY <1>1, <1>2 DEF HeldCode
<1>6. records' = records /\ happened \subseteq happened' /\ disturbed \subseteq disturbed'
  BY <1>1 DEF Elsewhere
<1>7. \A j \in Ids : /\ rows'[j].status = "none" => rows'[j] = rows[j]
                     /\ rows'[j].code = rows[j].code
  BY <1>1, <1>2, <1>3, <1>4
<1>8. QED
  BY <1>1, <1>5, <1>6, <1>7, CodeStep

LEMMA ReadCode ==
  ASSUME RowsBase, Coded, NEW w \in Workers, NEW h \in Offered("save"), NEW i \in Ids, NEW s,
         Read(w, h, i, s)
  PROVE  Coded'
<1>1. /\ Alone(w) /\ Well /\ pc[w] = "idle" /\ pc'[w] = FirstStep(h)
      /\ UNCHANGED <<rowVars, busVars>>
      /\ s \in h.to \/ (h.edit /\ s = rows[i].status)
      /\ req'[w].op = h.op /\ req'[w].read = rows[i] /\ req'[w].row.status = s
      /\ h.graduates => rows[i].code = 0 /\ req'[w].row.code # 0
      /\ ~h.graduates /\ h.op # "UpdateProject" => req'[w].row.code = rows[i].code
  BY ReadMoves
<1>2. /\ h.graduates <=> h.op = "GraduateProject"
      /\ h.graduates => ~h.edit /\ h.to = {"graduate"}
  BY Catalogue DEF Offered, Proper
<1>3. UNCHANGED <<rows, records, happened, disturbed>>
  BY <1>1 DEF rowVars
<1>4. HeldCode(w)'
  BY <1>1, <1>2 DEF HeldCode, FirstStep
<1>5. QED
  BY <1>1, <1>3, <1>4, CodeStep

LEMMA ReadMissingCode ==
  ASSUME RowsBase, Coded, NEW w \in Workers, NEW h \in Offered("save"), NEW i \in Ids, NEW s,
         ReadMissing(w, h, i, s)
  PROVE  Coded'
<1>1. /\ Alone(w) /\ Well /\ pc[w] = "idle" /\ pc'[w] = "save"
      /\ UNCHANGED <<rowVars, busVars>> /\ h.lenient
      /\ req'[w].op = h.op /\ req'[w].id = 0
  BY ReadMissingMoves
<1>2. h.op # "GraduateProject"
  BY <1>1, Catalogue DEF Offered, Proper
<1>3. UNCHANGED <<rows, records, happened, disturbed>>
  BY <1>1 DEF rowVars
<1>4. HeldCode(w)'
  BY <1>1, <1>2 DEF HeldCode
<1>5. QED
  BY <1>1, <1>3, <1>4, CodeStep

LEMMA SaveCode ==
  ASSUME RowsBase, Coded, NEW w \in Workers, Save(w)
  PROVE  Coded'
<1> DEFINE i == req[w].id
           row == req[w].row
<1>1. /\ Alone(w) /\ Well /\ Elsewhere
      /\ pc[w] = "save" /\ pc'[w] = Then(req[w].op)
      /\ pc'[w] # "idle" => req'[w] = req[w]
      /\ i \in Ids /\ rows' = [rows EXCEPT ![i] = row]
      /\ happened' = happened \cup {<<i, row.status, req[w].op, row.code>>}
      /\ disturbed' = IF \/ rows[i] # req[w].read
                         \/ req[w].op = "UpdateProject" /\ row.code # rows[i].code
                      THEN disturbed \cup {i} ELSE disturbed
  BY SaveMoves
<1>2. HeldCode(w) /\ HeldRow(w)
  BY DEF Coded, RowsBase
<1>3. /\ req[w].op = "GraduateProject" =>
           row.status = "graduate" /\ req[w].read.code = 0 /\ row.code # 0
      /\ req[w].op \notin {"GraduateProject", "UpdateProject"} => row.code = req[w].read.code
      /\ row.status # "none"
  <2>1. i # 0
    BY <1>1, RowIdsAssumption, FS_CardinalityType
  <2>2. QED
    BY <1>1, <1>2, <2>1 DEF HeldCode, HeldRow
<1>4. /\ records' = records /\ happened \subseteq happened' /\ disturbed \subseteq disturbed'
      /\ pc[w] # "record"
  BY <1>1 DEF Elsewhere
<1>5. \A j \in Ids : rows'[j] = IF j = i THEN row ELSE rows[j]
  BY <1>1 DEF RowsBase
<1>6. i \notin disturbed' =>
        /\ rows[i] = req[w].read
        /\ req[w].op = "UpdateProject" => row.code = rows[i].code
  BY <1>1
<1>7. req[w].op = "GraduateProject" => pc'[w] = "record" /\ req'[w].id = i
  BY <1>1 DEF Then, TrailOf
<1>8. i \notin disturbed' =>
        \/ row.code = rows[i].code
        \/ rows[i].code = 0 /\ pc'[w] = "record" /\ req'[w].id = i
  BY <1>3, <1>6, <1>7
<1>9. HeldCode(w)'
  <2>1. CASE pc'[w] = "idle"
    BY <2>1 DEF HeldCode
  <2>2. CASE pc'[w] # "idle"
    <3>1. req'[w] = req[w] /\ rows'[i] = row
      BY <1>1, <1>5, <2>2
    <3>2. pc'[w] = "record" => req[w].op = "GraduateProject"
      BY <1>1 DEF Then
    <3>3. pc'[w] = "record" => <<i, "graduate", "GraduateProject", row.code>> \in happened'
      BY <1>1, <1>3, <3>2
    <3>4. QED
      BY <1>1, <1>2, <3>1, <3>2, <3>3 DEF HeldCode
  <2>3. QED
    BY <2>1, <2>2
<1>10. \A j \in Ids : rows'[j].status = "none" => rows'[j] = rows[j]
  BY <1>3, <1>5
<1>11. \A j \in Ids \ disturbed' :
           \/ rows'[j].code = rows[j].code
           \/ rows[j].code = 0 /\ pc'[w] = "record" /\ req'[w].id = j
  BY <1>5, <1>8
<1> HIDE DEF i, row
<1>12. QED
  BY <1>1, <1>4, <1>9, <1>10, <1>11, CodeStep

LEMMA SaveEmptyCode ==
  ASSUME RowsBase, Coded, NEW w \in Workers, SaveEmpty(w)
  PROVE  Coded'
<1>1. /\ Alone(w) /\ Well /\ Elsewhere /\ disturbed' = disturbed
      /\ pc[w] = "save" /\ pc'[w] = "idle" /\ req[w].id = 0
      /\ \/ rows' = rows /\ happened' = happened
         \/ \E i \in Ids :
              /\ rows[i].status = "none" /\ rows' = [rows EXCEPT ![i] = req[w].row]
              /\ happened' = happened \cup
                   {<<i, req[w].row.status, req[w].op, req[w].row.code>>}
  BY SaveEmptyMoves
<1>2. req[w].row.code = 0 /\ req[w].row.status # "none"
  BY <1>1 DEF RowsBase, HeldRow
<1>3. HeldCode(w)'
  BY <1>1 DEF HeldCode
<1>4. records' = records /\ happened \subseteq happened' /\ disturbed \subseteq disturbed'
  BY <1>1 DEF Elsewhere
<1>5. \A j \in Ids : /\ rows'[j].status = "none" => rows'[j] = rows[j]
                     /\ rows'[j].code = rows[j].code
  <2>1. ASSUME NEW i \in Ids, rows[i].status = "none", rows' = [rows EXCEPT ![i] = req[w].row],
               NEW j \in Ids
        PROVE  /\ rows'[j].status = "none" => rows'[j] = rows[j]
               /\ rows'[j].code = rows[j].code
    <3>1. rows'[j] = IF j = i THEN req[w].row ELSE rows[j]
      BY <2>1 DEF RowsBase
    <3>2. rows[i].code = 0
      BY <2>1 DEF Coded, CodeRight
    <3>3. QED
      BY <1>2, <3>1, <3>2
  <2>2. QED
    BY <1>1, <2>1
<1>6. QED
  BY <1>1, <1>3, <1>4, <1>5, CodeStep

LEMMA TrailCode ==
  ASSUME RowsBase, Coded, NEW w \in Workers, Trail(w)
  PROVE  Coded'
<1>1. /\ Alone(w) /\ Well
      /\ pc[w] = "trail" /\ pc'[w] = Afterwards(req[w].op)
      /\ pc'[w] # "idle" => req'[w] = req[w]
      /\ UNCHANGED <<table, rows, records, happened, disturbed>>
  BY TrailMoves
<1>2. HeldCode(w)
  BY DEF Coded
<1>3. HeldCode(w)'
  BY <1>1, <1>2 DEF HeldCode, Afterwards
<1>4. QED
  BY <1>1, <1>3, CodeStep

LEMMA RecordCode ==
  ASSUME RowsBase, Coded, NEW w \in Workers, Record(w)
  PROVE  Coded'
<1> DEFINE k == req[w].id
           code == req[w].row.code
<1>1. /\ Alone(w) /\ Well /\ pc[w] = "record" /\ pc'[w] = "idle"
      /\ UNCHANGED <<table, rows, trail, happened, disturbed, busVars>>
      /\ records' = [records EXCEPT ![k] = IF records[k] = 0 THEN code ELSE records[k]]
  BY RecordMoves
<1>2. HeldCode(w) /\ HeldRow(w)
  BY DEF Coded, RowsBase
<1>3. k \in Ids /\ rows[k].status # "none"
  BY <1>1, <1>2 DEF HeldRow
<1>4. /\ <<k, "graduate", "GraduateProject", code>> \in happened
      /\ k \notin disturbed => code = rows[k].code
  BY <1>1, <1>2 DEF HeldCode
<1>5. \A i \in Ids : records'[i] = IF i = k /\ records[k] = 0 THEN code ELSE records[i]
  BY <1>1, <1>3 DEF RowsBase
<1>6. NoCrash' => NoCrash
  BY <1>1 DEF Well, NoCrash
<1>7. ASSUME NEW v \in Workers \ {w}
      PROVE  HeldCode(v)' /\ pc'[v] = pc[v] /\ req'[v] = req[v]
  <2>1. HeldCode(v) /\ pc'[v] = pc[v] /\ req'[v] = req[v]
    BY <1>1 DEF Coded, Alone
  <2>2. QED
    BY <1>1, <2>1 DEF HeldCode
<1>8. HeldCode(w)'
  BY <1>1 DEF HeldCode
<1>9. ASSUME NEW i \in Ids
      PROVE  CodeRight(i)'
  <2>1. CodeRight(i)
    BY DEF Coded
  <2>2. ASSUME NoCrash, i \notin disturbed
        PROVE  Recorded(i)'
    <3>1. Recorded(i)
      BY <2>1, <2>2 DEF CodeRight
    <3>2. CASE i = k
      BY <1>1, <1>4, <1>5, <2>2, <3>1, <3>2 DEF Recorded
    <3>3. CASE i # k
      <4>1. records'[i] = records[i] /\ rows'[i] = rows[i]
        BY <1>1, <1>5, <3>3
      <4>2. ASSUME NEW v \in Workers, pc[v] = "record", req[v].id = i
            PROVE  pc'[v] = "record" /\ req'[v].id = i
        BY <1>7, <3>3, <4>2
      <4>3. QED
        BY <3>1, <4>1, <4>2 DEF Recorded
    <3>4. QED
      BY <3>2, <3>3
  <2>3. QED
    BY <1>1, <1>3, <1>4, <1>5, <1>6, <2>1, <2>2 DEF CodeRight
<1>10. QED
  BY <1>7, <1>8, <1>9 DEF Coded

LEMMA SingleCode ==
  ASSUME RowsBase, Coded, NEW w \in Workers, Alone(w), Well, pc[w] = "idle",
         UNCHANGED <<pc, req, disturbed>>, Elsewhere, happened \subseteq happened',
         NEW i \in Ids, NEW row, rows' = [rows EXCEPT ![i] = row],
         row.status # "none", row.code = rows[i].code
  PROVE  Coded'
<1>1. \A j \in Ids : rows'[j] = IF j = i THEN row ELSE rows[j]
  BY DEF RowsBase
<1>2. HeldCode(w)'
  BY DEF HeldCode
<1>3. records' = records
  BY DEF Elsewhere
<1>4. QED
  BY <1>1, <1>2, <1>3, CodeStep

LEMMA ColumnCode ==
  ASSUME RowsBase, Coded, NEW w \in Workers, NEW i \in Ids,
         \/ \E h \in Offered("update") : \E s \in h.to : UpdateColumn(w, h, i, s)
         \/ \E h \in Offered("delete") : Delete(w, h, i)
  PROVE  Coded'
<1>1. ASSUME NEW h \in Offered("update"), NEW s \in h.to, UpdateColumn(w, h, i, s)
      PROVE  Coded'
  <2>1. PICK row :
           /\ Alone(w) /\ Well /\ pc[w] = "idle" /\ UNCHANGED <<pc, req>> /\ Elsewhere
           /\ disturbed' = disturbed /\ row.status = s /\ row.code = rows[i].code
           /\ rows' = [rows EXCEPT ![i] = row]
           /\ happened' = happened \cup {<<i, s, h.op, row.code>>}
    BY <1>1, UpdateColumnMoves
  <2>2. s # "none" /\ happened \subseteq happened'
    BY <2>1, Catalogue DEF Offered, Proper
  <2>3. QED
    BY <2>1, <2>2, SingleCode
<1>2. ASSUME NEW h \in Offered("delete"), Delete(w, h, i)
      PROVE  Coded'
  <2>1. PICK row :
           /\ Alone(w) /\ Well /\ pc[w] = "idle" /\ UNCHANGED <<pc, req>> /\ Elsewhere
           /\ UNCHANGED <<happened, disturbed>> /\ row.status = "deleted"
           /\ row.code = rows[i].code /\ rows' = [rows EXCEPT ![i] = row]
    BY <1>2, DeleteMoves
  <2>2. QED
    BY <2>1, SingleCode
<1>3. QED
  BY <1>1, <1>2

LEMMA BackgroundCode ==
  ASSUME Coded, UNCHANGED rowVars,
         \/ UNCHANGED requestVars
         \/ ~NoCrash' /\ \A w \in Workers : pc'[w] = "idle"
  PROVE  Coded'
<1>1. UNCHANGED <<table, rows, records, happened, disturbed>>
  BY DEF rowVars
<1>2. CASE UNCHANGED requestVars
  BY <1>1, <1>2 DEF Coded, CodeRight, Recorded, HeldCode, requestVars, NoCrash
<1>3. CASE ~NoCrash' /\ \A w \in Workers : pc'[w] = "idle"
  BY <1>1, <1>3 DEF Coded, CodeRight, HeldCode
<1>4. QED
  BY <1>2, <1>3

LEMMA CodesInvKept ==
  RowsBase /\ CodesInv /\ [RowsStep]_rowStepVars => CodesInv'
<1>1. SUFFICES ASSUME RowsBase, CodesInv, [RowsStep]_rowStepVars, NoFault'
               PROVE  Coded'
  BY DEF CodesInv
<1>2. Coded
  BY <1>1, NoFaultBefore DEF CodesInv
<1>3. CASE RowsNext
  BY <1>1, <1>2, <1>3, InsertCode, ReadCode, ReadMissingCode, ColumnCode,
     SaveCode, SaveEmptyCode, TrailCode, RecordCode, FailsTrail DEF RowsNext
<1>4. CASE BusNext
  BY <1>1, <1>2, <1>4, BusMoves, BackgroundCode
<1>5. CASE CrashRequests /\ RowsCrash
  BY <1>1, <1>2, <1>5, CrashMoves, CrashCounted, BackgroundCode DEF RowsBase, RowsCrash
<1>6. CASE UNCHANGED rowStepVars
  BY <1>2, <1>6, BackgroundCode DEF rowStepVars
<1>7. QED
  BY <1>1, <1>3, <1>4, <1>5, <1>6 DEF RowsStep

-----------------------------------------------------------------------------
(* The services' rows: theorems.                                           *)

\* A behaviour of another area leaves the rows as they are at first.
RowsUnused ==
  /\ \A i \in Ids : rows[i] = NoRow /\ records[i] = 0
  /\ trail = {} /\ happened = {} /\ outbox = {}

RowsInv ==
  IF area = "rows" THEN RowsBase /\ ChainInv /\ DatesInv /\ TrailInv /\ CodesInv
                   ELSE RowsUnused

LEMMA RowsInvStarts == Init => RowsInv
<1>1. SUFFICES ASSUME Init
               PROVE  RowsInv
  OBVIOUS
<1>2. /\ \A w \in Workers : pc[w] = "idle"
      /\ rows = [i \in Ids |-> NoRow] /\ records = [i \in Ids |-> 0]
      /\ trail = {} /\ happened = {} /\ disturbed = {} /\ outbox = {}
  BY <1>1 DEF Init, RequestsInit, RowsInit, BusInit
<1>3. RowsUnused
  BY <1>2 DEF RowsUnused
<1>4. NoRow.status = "none" /\ NoRow.setBy = "none" /\ NoRow.code = 0 /\ IsRow(NoRow)
  BY DEF NoRow, IsRow
<1>5. RowsBase
  <2>1. Serving
    BY <1>1, RequestBoundsAssumption DEF Init, RequestsInit, Serving
  <2>2. QED
    BY <1>2, <1>4, <2>1 DEF RowsBase, HeldRow, Stamped
<1>6. ChainInv
  BY <1>2, <1>4 DEF ChainInv, ChainKept, RowChain, HeldChain
<1>7. DatesInv
  BY <1>2, <1>4 DEF DatesInv, Dated, DatesOf
<1>8. Faithful
  BY <1>2, <1>4 DEF Faithful, HeldTrail, HeldDue, TrailTells, EventsTell, TrailOf
<1>9. Coded
  BY <1>2, <1>4 DEF Coded, CodeRight, HeldCode, Recorded
<1>10. QED
  BY <1>3, <1>5, <1>6, <1>7, <1>8, <1>9 DEF RowsInv, TrailInv, CodesInv

LEMMA RowsSteps ==
  ASSUME [Next]_processVars
  PROVE  /\ area' = area
         /\ area = "rows" => [RowsStep]_rowStepVars
         /\ area # "rows" => UNCHANGED rowVars /\ outbox' \subseteq outbox
<1>1. CASE Rows \/ Bus
  BY <1>1 DEF Rows, Bus, RowsStep
<1>2. CASE Market \/ Cache
  BY <1>2 DEF Market, Cache, busVars
<1>3. CASE Crash
  BY <1>3 DEF Crash, RowsStep, RowsCrash, BusCrash
<1>4. CASE UNCHANGED processVars
  BY <1>4 DEF processVars, rowStepVars, busVars
<1>5. QED
  BY <1>1, <1>2, <1>3, <1>4 DEF Next

LEMMA RowsInvKept == RowsInv /\ [Next]_processVars => RowsInv'
<1>1. SUFFICES ASSUME RowsInv, [Next]_processVars
               PROVE  RowsInv'
  OBVIOUS
<1>2. CASE area = "rows"
  BY <1>1, <1>2, RowsSteps, RowsBaseKept, ChainInvKept, DatesInvKept, TrailInvKept, CodesInvKept
     DEF RowsInv
<1>3. CASE area # "rows"
  <2>1. UNCHANGED <<area, rows, records, trail, happened>> /\ outbox' \subseteq outbox
    BY <1>1, <1>3, RowsSteps DEF rowVars
  <2>2. QED
    BY <1>1, <1>3, <2>1 DEF RowsInv, RowsUnused
<1>4. QED
  BY <1>2, <1>3

\* The invariant of the rows holds throughout.
THEOREM RowsInvHolds == Spec => []RowsInv
<1>1. QED
  BY RowsInvStarts, RowsInvKept, PTL DEF Spec

\* Where no row is written the properties hold.
LEMMA UnusedTells ==
  ASSUME RowsUnused
  PROVE  ChainKept /\ DatesMatchStatus /\ TrailFaithful /\ GraduationRecorded
<1>1. \A i \in Ids : /\ rows[i].status = "none" /\ rows[i].setBy = "none"
                     /\ rows[i].code = 0 /\ records[i] = 0
  BY DEF RowsUnused, NoRow
<1>2. \A h \in Handlers : h.op = "none" => h.dates = {} /\ h.trail = "none"
  BY Catalogue DEF Proper, DatesOf, TrailOf
<1>3. DatesMatchStatus
  BY <1>1, <1>2 DEF DatesMatchStatus
<1>4. TrailFaithful
  BY <1>1, <1>2 DEF TrailFaithful, SetWithTrail, RowsUnused
<1>5. QED
  BY <1>1, <1>3, <1>4 DEF ChainKept, GraduationRecorded, RowsUnused

\* Whatever overlaps, fails or crashes, no case is executed that was never
\* approved, and no project graduates that was in no stage to graduate from.
THEOREM ChainKeptCorrect == Spec => []ChainKept
<1>1. RowsInv => ChainKept
  BY UnusedTells DEF RowsInv, ChainInv
<1>2. QED
  BY <1>1, RowsInvHolds, PTL

\* A status that its handler dates has its date, though stale rows are saved.
THEOREM DatesMatchStatusCorrect == Spec => []DatesMatchStatus
<1>1. RowsInv => DatesMatchStatus
  BY UnusedTells, DatesTell DEF RowsInv
<1>2. QED
  BY <1>1, RowsInvHolds, PTL

\* Stage records, execution logs, tracking events and the events of the bus
\* tell of statuses that were saved, and are complete when nothing failed.
THEOREM TrailFaithfulCorrect == Spec => []TrailFaithful
<1>1. RowsInv => TrailFaithful
  BY UnusedTells, TrailTold DEF RowsInv
<1>2. QED
  BY <1>1, RowsInvHolds, PTL

\* A graduate record is of a graduation that was saved, and agrees with its
\* project once the requests are answered.
THEOREM GraduationRecordedCorrect == Spec => []GraduationRecorded
<1>1. RowsInv => GraduationRecorded
  BY UnusedTells, CodesTell DEF RowsInv
<1>2. QED
  BY <1>1, RowsInvHolds, PTL

-----------------------------------------------------------------------------
(* The store market: one section at a time.                                *)

\* What every step of the market leaves alone.
LEMMA SectionKept ==
  ASSUME MarketNext
  PROVE  UNCHANGED <<section, driver>>
<1> USE DEF marketVars, KeepForItems, KeepForStore
<1>1. PICK w \in Workers :
    \/ CreateProduct(w) \/ CreateOrder(w) \/ InsertItem(w) \/ InsertRefused(w) \/ InsertFails(w)
    \/ Count(w) \/ CountFails(w) \/ DeleteItem(w) \/ DeleteItemFails(w)
    \/ Uncount(w) \/ UncountFails(w) \/ SaveItem(w) \/ UpdateStore(w) \/ SaveStore(w)
    \/ \E i \in ItemIds : DeleteProduct(w, i) \/ UpdateProduct(w, i) \/ UpdateOrderStatus(w, i)
    \/ ApplyStore(w) \/ OpenStore(w) \/ OpenStoreFails(w) \/ Decide(w) \/ DecideFails(w)
    \/ \E i \in ItemIds, approve \in BOOLEAN : ReviewApplication(w, i, approve)
    \/ Upsert(w) \/ InsertRecord(w) \/ SaveRecord(w)
  BY DEF MarketNext
<1>2. CASE \/ CreateProduct(w) \/ CreateOrder(w) \/ InsertItem(w) \/ InsertRefused(w)
           \/ InsertFails(w) \/ Count(w) \/ CountFails(w) \/ DeleteItem(w) \/ DeleteItemFails(w)
  BY <1>2 DEF CreateProduct, CreateOrder, InsertItem, InsertRefused, InsertFails, Count,
     CountFails, DeleteItem, DeleteItemFails
<1>3. CASE \/ Uncount(w) \/ UncountFails(w) \/ SaveItem(w) \/ UpdateStore(w) \/ SaveStore(w)
           \/ \E i \in ItemIds : DeleteProduct(w, i) \/ UpdateProduct(w, i) \/ UpdateOrderStatus(w, i)
  BY <1>3 DEF Uncount, UncountFails, SaveItem, UpdateStore, SaveStore, DeleteProduct,
     UpdateProduct, UpdateOrderStatus
<1>4. CASE \/ ApplyStore(w) \/ OpenStore(w) \/ OpenStoreFails(w) \/ Decide(w) \/ DecideFails(w)
           \/ \E i \in ItemIds, approve \in BOOLEAN : ReviewApplication(w, i, approve)
           \/ Upsert(w) \/ InsertRecord(w) \/ SaveRecord(w)
  BY <1>4 DEF ApplyStore, OpenStore, OpenStoreFails, Decide, DecideFails, ReviewApplication,
     Upsert, InsertRecord, SaveRecord
<1>5. QED
  BY <1>1, <1>2, <1>3, <1>4

\* Requests at a statement of one section do not execute another's.
GoodsSteps == {"insert", "count", "delete", "uncount", "save", "save store"}
AppSteps == {"open", "decide"}
RecordSteps == {"insert record", "save record"}

GoodsNext(w) ==
  \/ CreateProduct(w) \/ CreateOrder(w) \/ InsertItem(w) \/ InsertRefused(w) \/ InsertFails(w)
  \/ Count(w) \/ CountFails(w) \/ DeleteItem(w) \/ DeleteItemFails(w)
  \/ Uncount(w) \/ UncountFails(w) \/ SaveItem(w) \/ UpdateStore(w) \/ SaveStore(w)
  \/ \E i \in ItemIds : DeleteProduct(w, i) \/ UpdateProduct(w, i) \/ UpdateOrderStatus(w, i)

AppNext(w) ==
  \/ ApplyStore(w) \/ OpenStore(w) \/ OpenStoreFails(w) \/ Decide(w) \/ DecideFails(w)
  \/ \E i \in ItemIds, approve \in BOOLEAN : ReviewApplication(w, i, approve)

RecordNext(w) == Upsert(w) \/ InsertRecord(w) \/ SaveRecord(w)

LEMMA SectionSteps ==
  ASSUME MarketNext
  PROVE  \E w \in Workers : GoodsNext(w) \/ AppNext(w) \/ RecordNext(w)
BY DEF MarketNext, GoodsNext, AppNext, RecordNext

LEMMA GoodsOnly ==
  ASSUME NEW w \in Workers, GoodsNext(w)
  PROVE  section \in {"products", "orders"} \/ pc[w] \in GoodsSteps
<1>1. CASE \/ CreateProduct(w) \/ CreateOrder(w) \/ InsertItem(w) \/ InsertRefused(w)
           \/ InsertFails(w) \/ Count(w) \/ CountFails(w) \/ DeleteItem(w) \/ DeleteItemFails(w)
  BY <1>1 DEF CreateProduct, CreateOrder, InsertItem, InsertRefused, InsertFails, Count,
     CountFails, DeleteItem, DeleteItemFails, Proceed, ProceedFailed, Goto, At, GoodsSteps
<1>2. CASE \/ Uncount(w) \/ UncountFails(w) \/ SaveItem(w) \/ UpdateStore(w) \/ SaveStore(w)
           \/ \E i \in ItemIds : DeleteProduct(w, i) \/ UpdateProduct(w, i) \/ UpdateOrderStatus(w, i)
  BY <1>2 DEF Uncount, UncountFails, SaveItem, UpdateStore, SaveStore, DeleteProduct,
     UpdateProduct, UpdateOrderStatus, Proceed, ProceedFailed, Goto, At, GoodsSteps
<1>3. QED
  BY <1>1, <1>2 DEF GoodsNext

LEMMA AppOnly ==
  ASSUME NEW w \in Workers, AppNext(w)
  PROVE  section = "applications" \/ pc[w] \in AppSteps
BY DEF AppNext, ApplyStore, OpenStore, OpenStoreFails, Decide, DecideFails, ReviewApplication,
   WithStore, Proceed, ProceedFailed, Goto, At, AppSteps

LEMMA RecordOnly ==
  ASSUME NEW w \in Workers, RecordNext(w)
  PROVE  section \in UpsertSections \/ pc[w] \in RecordSteps
BY DEF RecordNext, Upsert, InsertRecord, SaveRecord, Proceed, Goto, RecordSteps

-----------------------------------------------------------------------------
(* The applications.                                                       *)

IsApp(a) == a = [status |-> a.status, store |-> a.store]
IsRequest(r) ==
  r = [op |-> r.op, id |-> r.id, row |-> r.row, found |-> r.found, serial |-> r.serial]

\* An approved application names its store.
Linked(i, a) == a.status = "approved" => a.store = NoStore \/ <<i, a.store>> \in opened

\* The review that opened the store is saved, or about to be.
Deciding(i, s) ==
  \/ <<i, "approved", s>> \in decided
  \/ \E w \in Workers : /\ pc[w] = "decide" /\ req[w].id = i
                        /\ req[w].row.status = "approved" /\ req[w].serial = s

HeldApp(w) ==
  pc[w] # "idle" =>
    /\ pc[w] \in AppSteps /\ req[w].id \in ItemIds
    /\ IsRequest(req[w]) /\ IsApp(req[w].row)
    /\ pc[w] = "open" => req[w].row.status = "approved"
    /\ pc[w] = "decide" => Linked(req[w].id, req[w].row)

AppsInv ==
  /\ Serving
  /\ apps = [i \in ItemIds |-> apps[i]]
  /\ \A i \in ItemIds : IsApp(apps[i]) /\ Linked(i, apps[i])
  /\ \A w \in Workers : HeldApp(w)
  /\ NoFault /\ NoCrash => \A o \in opened : Deciding(o[1], o[2])

LEMMA AppsTell ==
  ASSUME AppsInv
  PROVE  StoreTraceable
BY DEF AppsInv, StoreTraceable, Linked, Deciding, Quiet

\* Stores stay open.
LEMMA LinkedKept ==
  ASSUME opened \subseteq opened', NEW i, NEW a, Linked(i, a)
  PROVE  Linked(i, a)'
BY DEF Linked, NoStore

LEMMA DecidingKept ==
  ASSUME NEW w \in Workers, Alone(w), decided \subseteq decided',
         pc[w] = "decide" => <<req[w].id, req[w].row.status, req[w].serial>> \in decided',
         NEW i, NEW s, Deciding(i, s)
  PROVE  Deciding(i, s)'
<1>1. CASE <<i, "approved", s>> \in decided
  BY <1>1 DEF Deciding
<1>2. ASSUME NEW v \in Workers, pc[v] = "decide", req[v].id = i,
             req[v].row.status = "approved", req[v].serial = s
      PROVE  Deciding(i, s)'
  <2>1. CASE v = w
    BY <1>2, <2>1 DEF Deciding
  <2>2. CASE v # w
    <3>1. pc'[v] = pc[v] /\ req'[v] = req[v]
      BY <2>2 DEF Alone
    <3>2. QED
      BY <1>2, <3>1 DEF Deciding
  <2>3. QED
    BY <2>1, <2>2
<1>3. QED
  BY <1>1, <1>2 DEF Deciding

\* What a statement must do, that approved applications stay traceable.
LEMMA AppStep ==
  ASSUME AppsInv, NEW w \in Workers, Alone(w), Serving', opened \subseteq opened',
         decided \subseteq decided',
         pc[w] = "decide" /\ NoFault' =>
           <<req[w].id, req[w].row.status, req[w].serial>> \in decided',
         apps' = [i \in ItemIds |-> apps'[i]],
         \A i \in ItemIds : apps'[i] = apps[i] \/ (IsApp(apps'[i]) /\ Linked(i, apps[i])'),
         HeldApp(w)', NoFault' => NoFault, NoCrash' => NoCrash,
         NoFault' => \A o \in opened' \ opened : Deciding(o[1], o[2])'
  PROVE  AppsInv'
<1>1. ASSUME NEW v \in Workers \ {w}
      PROVE  HeldApp(v)'
  <2>1. HeldApp(v) /\ pc'[v] = pc[v] /\ req'[v] = req[v]
    BY DEF AppsInv, Alone
  <2>2. QED
    BY <2>1, LinkedKept DEF HeldApp, Linked, NoStore
<1>2. ASSUME NEW i \in ItemIds
      PROVE  IsApp(apps'[i]) /\ Linked(i, apps[i])'
  BY LinkedKept DEF AppsInv, Linked, NoStore
<1>3. ASSUME NoFault', NoCrash', NEW o \in opened
      PROVE  Deciding(o[1], o[2])'
  BY <1>3, DecidingKept DEF AppsInv
<1>4. QED
  BY <1>1, <1>2, <1>3 DEF AppsInv

LEMMA ApplyStoreKeeps ==
  ASSUME AppsInv, NEW w \in Workers, ApplyStore(w)
  PROVE  AppsInv'
<1>1. PICK i : apps' = [apps EXCEPT ![i] = [status |-> "submitted", store |-> Null]]
  BY DEF ApplyStore
<1>2. Serving' /\ Well /\ UNCHANGED <<pc, req>> /\ Alone(w) /\ pc[w] = "idle"
  BY AnswerMoves DEF AppsInv, ApplyStore
<1>3. UNCHANGED <<opened, decided>>
  BY DEF ApplyStore
<1>4. apps' = [j \in ItemIds |-> apps'[j]]
  BY <1>1 DEF AppsInv
<1>5. ASSUME NEW j \in ItemIds, apps'[j] # apps[j]
      PROVE  IsApp(apps'[j]) /\ Linked(j, apps[j])'
  <2>1. apps'[j] = [status |-> "submitted", store |-> Null]
    BY <1>1, <1>5 DEF AppsInv
  <2>2. apps'[j].status = "submitted"
    BY <2>1
  <2>3. QED
    BY <2>1, <2>2 DEF IsApp, Linked
<1>6. HeldApp(w)'
  BY <1>2 DEF HeldApp
<1>7. (NoFault' => NoFault) /\ (NoCrash' => NoCrash)
  BY <1>2 DEF Well, NoFault, NoCrash
<1>8. QED
  BY <1>2, <1>3, <1>4, <1>5, <1>6, <1>7, AppStep

\* The row of a review.
LEMMA Reviewed ==
  ASSUME NEW a, IsApp(a), NEW s, NEW row, row = [a EXCEPT !.status = s]
  PROVE  row = [status |-> s, store |-> a.store]
BY DEF IsApp

LEMMA AppLiteral ==
  ASSUME NEW s, NEW t, NEW row, row = [status |-> s, store |-> t]
  PROVE  IsApp(row) /\ row.status = s /\ row.store = t
BY DEF IsApp

LEMMA RequestLiteral ==
  ASSUME NEW a, NEW b, NEW c, NEW d, NEW e, NEW r,
         r = [op |-> a, id |-> b, row |-> c, found |-> d, serial |-> e]
  PROVE  IsRequest(r) /\ r.op = a /\ r.id = b /\ r.row = c /\ r.found = d /\ r.serial = e
BY DEF IsRequest

LEMMA ReviewKeeps ==
  ASSUME AppsInv, NEW w \in Workers, NEW i \in ItemIds, NEW approve \in BOOLEAN,
         ReviewApplication(w, i, approve)
  PROVE  AppsInv'
<1> DEFINE s == IF approve THEN "approved" ELSE "rejected"
           p == IF approve THEN "open" ELSE "decide"
           row == [apps[i] EXCEPT !.status = s]
           r == ItemRequest("ReviewApplication", i, row, TRUE)
<1>1. IsApp(row) /\ row.status = s
  <2>1. row = [status |-> s, store |-> apps[i].store]
    BY Reviewed DEF AppsInv
  <2> HIDE DEF row
  <2>2. QED
    BY <2>1, AppLiteral
<1>2. IsRequest(r) /\ r.id = i /\ r.row = row
  BY RequestLiteral DEF ItemRequest
<1>3. Start(w, p, r) /\ UNCHANGED marketVars
  BY DEF ReviewApplication
<1> HIDE DEF row, r
<1>4. Serving' /\ Alone(w) /\ Well /\ pc[w] = "idle" /\ pc'[w] = p /\ req'[w] = r
  BY <1>3, StartMoves DEF AppsInv
<1>5. HeldApp(w)'
  BY <1>1, <1>2, <1>4 DEF HeldApp, Linked, AppSteps
<1>6. (NoFault' => NoFault) /\ (NoCrash' => NoCrash)
  BY <1>4 DEF Well, NoFault, NoCrash
<1>7. UNCHANGED <<apps, opened, decided>> /\ apps = [j \in ItemIds |-> apps[j]]
  BY <1>3 DEF marketVars, AppsInv
<1>8. QED
  BY <1>4, <1>5, <1>6, <1>7, AppStep

\* The request holds the key of the store.
LEMMA WithStoreMoves ==
  ASSUME AppsInv, NEW w \in Workers, NEW s, WithStore(w, s)
  PROVE  /\ Alone(w) /\ pc[w] = "open" /\ pc'[w] = "decide"
         /\ pc' = [v \in Workers |-> pc'[v]] /\ req' = [v \in Workers |-> req'[v]]
         /\ IsRequest(req'[w]) /\ IsApp(req'[w].row)
         /\ req'[w].id = req[w].id /\ req'[w].serial = req[w].serial
         /\ req'[w].row.status = "approved" /\ req'[w].row.store = s
<1>1. /\ pc[w] = "open" /\ pc' = [pc EXCEPT ![w] = "decide"]
      /\ req' = [req EXCEPT ![w].row.store = s]
  BY DEF WithStore
<1>2. /\ pc = [v \in Workers |-> pc[v]] /\ req = [v \in Workers |-> req[v]]
      /\ HeldApp(w)
  BY DEF AppsInv, Serving
<1>3. IsRequest(req[w]) /\ IsApp(req[w].row) /\ req[w].row.status = "approved"
  BY <1>1, <1>2 DEF HeldApp
<1>4. /\ pc' = [v \in Workers |-> IF v = w THEN "decide" ELSE pc[v]]
      /\ req' = [v \in Workers |-> IF v = w THEN [req[w] EXCEPT !.row.store = s] ELSE req[v]]
  BY <1>1, <1>2
<1>5. req'[w] = [req[w] EXCEPT !.row.store = s]
  BY <1>4
<1>6. req'[w] = [op |-> req[w].op, id |-> req[w].id, row |-> [req[w].row EXCEPT !.store = s],
                 found |-> req[w].found, serial |-> req[w].serial]
  BY <1>3, <1>5 DEF IsRequest
<1>7. PICK row : row = [req[w].row EXCEPT !.store = s]
  OBVIOUS
<1>8. row = [status |-> req[w].row.status, store |-> s]
  BY <1>3, <1>7 DEF IsApp
<1>9. IsApp(row) /\ row.status = "approved" /\ row.store = s
  BY <1>3, <1>8, AppLiteral
<1>10. /\ IsRequest(req'[w]) /\ req'[w].row = row /\ req'[w].id = req[w].id
       /\ req'[w].serial = req[w].serial
  BY <1>6, <1>7, RequestLiteral
<1>11. QED
  BY <1>1, <1>4, <1>9, <1>10 DEF Alone

LEMMA OpenStoreKeeps ==
  ASSUME AppsInv, NEW w \in Workers, OpenStore(w)
  PROVE  AppsInv'
<1> DEFINE k == req[w].id
           s == req[w].serial
<1>1. WithStore(w, s) /\ opened' = opened \cup {<<k, s>>} /\ UNCHANGED <<apps, decided, budget>>
  BY DEF OpenStore
<1>2. /\ Alone(w) /\ pc[w] = "open" /\ pc'[w] = "decide"
      /\ pc' = [v \in Workers |-> pc'[v]] /\ req' = [v \in Workers |-> req'[v]]
      /\ IsRequest(req'[w]) /\ IsApp(req'[w].row)
      /\ req'[w].id = k /\ req'[w].serial = s
      /\ req'[w].row.status = "approved" /\ req'[w].row.store = s
  BY <1>1, WithStoreMoves
<1>3. Serving' /\ (NoFault' => NoFault) /\ (NoCrash' => NoCrash)
  BY <1>1, <1>2 DEF AppsInv, Serving, NoFault, NoCrash
<1>4. k \in ItemIds
  BY <1>2 DEF AppsInv, HeldApp
<1>5. HeldApp(w)'
  BY <1>1, <1>2, <1>4 DEF HeldApp, Linked, AppSteps
<1>6. ASSUME NEW o \in opened' \ opened
      PROVE  Deciding(o[1], o[2])'
  BY <1>1, <1>2, <1>6 DEF Deciding
<1>7. opened \subseteq opened' /\ UNCHANGED <<apps, decided>> /\ apps = [j \in ItemIds |-> apps[j]]
  BY <1>1 DEF AppsInv
<1> HIDE DEF k, s
<1>8. QED
  BY <1>2, <1>3, <1>5, <1>6, <1>7, AppStep

LEMMA OpenStoreFailsKeeps ==
  ASSUME AppsInv, NEW w \in Workers, OpenStoreFails(w)
  PROVE  AppsInv'
<1>1. WithStore(w, NoStore) /\ UNCHANGED marketVars
  BY DEF OpenStoreFails
<1>2. /\ Alone(w) /\ pc[w] = "open" /\ pc'[w] = "decide"
      /\ pc' = [v \in Workers |-> pc'[v]] /\ req' = [v \in Workers |-> req'[v]]
      /\ IsRequest(req'[w]) /\ IsApp(req'[w].row)
      /\ req'[w].id = req[w].id
      /\ req'[w].row.status = "approved" /\ req'[w].row.store = NoStore
  BY <1>1, WithStoreMoves
<1>3. budget' \in [requests : Nat, faults : 0..MaxFaults, crashes : 0..MaxCrashes]
      /\ budget'.crashes = budget.crashes /\ budget'.faults <= budget.faults
  <2>1. CASE UNCHANGED budget
    BY <2>1 DEF AppsInv, Serving
  <2>2. CASE Spend("faults")
    <3>1. budget' = [budget EXCEPT !.faults = budget.faults - 1] /\ budget.faults > 0
      BY <2>2 DEF Spend
    <3>2. QED
      BY <3>1, RequestBoundsAssumption DEF AppsInv, Serving
  <2>3. QED
    BY <2>1, <2>2 DEF OpenStoreFails
<1>4. Serving' /\ (NoFault' => NoFault) /\ (NoCrash' => NoCrash)
  BY <1>2, <1>3, RequestBoundsAssumption DEF AppsInv, Serving, NoFault, NoCrash
<1>5. req[w].id \in ItemIds
  BY <1>2 DEF AppsInv, HeldApp
<1>6. HeldApp(w)'
  BY <1>2, <1>5 DEF HeldApp, Linked, AppSteps, NoStore
<1>7. UNCHANGED <<apps, opened, decided>> /\ apps = [j \in ItemIds |-> apps[j]]
  BY <1>1 DEF marketVars, AppsInv
<1>8. QED
  BY <1>2, <1>4, <1>6, <1>7, AppStep

LEMMA DecideKeeps ==
  ASSUME AppsInv, NEW w \in Workers, Decide(w) \/ DecideFails(w)
  PROVE  AppsInv'
<1>1. CASE Decide(w)
  <2>1. /\ apps' = [apps EXCEPT ![req[w].id] = req[w].row]
        /\ decided' = decided \cup {<<req[w].id, req[w].row.status, req[w].serial>>}
        /\ Proceed(w, "decide", "idle") /\ opened' = opened
    BY <1>1 DEF Decide
  <2>2. Serving' /\ Alone(w) /\ Well /\ pc[w] = "decide" /\ pc'[w] = "idle"
    BY <2>1, ProceedMoves DEF AppsInv
  <2>3. IsApp(req[w].row) /\ Linked(req[w].id, req[w].row)
    BY <2>2 DEF AppsInv, HeldApp
  <2>4. ASSUME NEW i \in ItemIds, apps'[i] # apps[i]
        PROVE  IsApp(apps'[i]) /\ Linked(i, apps[i])'
    BY <2>1, <2>3, <2>4 DEF AppsInv, Linked, NoStore
  <2>5. apps' = [i \in ItemIds |-> apps'[i]]
    BY <2>1 DEF AppsInv
  <2>6. HeldApp(w)'
    BY <2>2 DEF HeldApp
  <2>7. (NoFault' => NoFault) /\ (NoCrash' => NoCrash)
    BY <2>2 DEF Well, NoFault, NoCrash
  <2>8. QED
    BY <2>1, <2>2, <2>4, <2>5, <2>6, <2>7, AppStep
<1>2. CASE DecideFails(w)
  <2>1. ProceedFailed(w, "decide", "idle") /\ UNCHANGED marketVars
    BY <1>2 DEF DecideFails
  <2>2. Serving' /\ Alone(w) /\ Ill /\ pc'[w] = "idle"
    BY <2>1, ProceedFailedMoves DEF AppsInv
  <2>3. ~NoFault'
    BY <2>2, IllFaults DEF AppsInv
  <2>4. HeldApp(w)' /\ (NoCrash' => NoCrash)
    BY <2>2 DEF HeldApp, Ill, NoCrash
  <2>5. UNCHANGED <<apps, opened, decided>> /\ apps = [j \in ItemIds |-> apps[j]]
    BY <2>1 DEF marketVars, AppsInv
  <2>6. QED
    BY <2>2, <2>3, <2>4, <2>5, AppStep
<1>3. QED
  BY <1>1, <1>2

\* Nothing happens, or everything that was going on is lost.
LEMMA AppsAtRest ==
  ASSUME AppsInv, UNCHANGED marketVars, UNCHANGED requestVars \/ CrashRequests
  PROVE  AppsInv'
<1>1. UNCHANGED <<apps, opened, decided>>
  BY DEF marketVars
<1>2. CASE UNCHANGED requestVars
  BY <1>1, <1>2 DEF requestVars, AppsInv, Serving, HeldApp, Linked, NoStore, Deciding, NoFault,
     NoCrash
<1>3. CASE CrashRequests
  <2>1. Serving' /\ ~NoCrash' /\ \A w \in Workers : pc'[w] = "idle"
    BY <1>3, CrashMoves, CrashCounted DEF AppsInv
  <2>2. QED
    BY <1>1, <2>1 DEF AppsInv, HeldApp, Linked, NoStore
<1>4. QED
  BY <1>2, <1>3

LEMMA AppsKept ==
  ASSUME AppsInv, section = "applications", MarketNext
  PROVE  AppsInv'
<1>1. PICK w \in Workers : GoodsNext(w) \/ AppNext(w) \/ RecordNext(w)
  BY SectionSteps
<1>2. pc[w] \in AppSteps \/ pc[w] = "idle"
  BY DEF AppsInv, HeldApp
<1>3. ~GoodsNext(w) /\ ~RecordNext(w)
  BY <1>2, GoodsOnly, RecordOnly DEF AppSteps, GoodsSteps, RecordSteps, UpsertSections
<1>4. AppNext(w)
  BY <1>1, <1>3
<1>5. QED
  BY <1>4, ApplyStoreKeeps, ReviewKeeps, OpenStoreKeeps, OpenStoreFailsKeeps, DecideKeeps
     DEF AppNext

-----------------------------------------------------------------------------
(* Counting requests and items.                                            *)

AtStep(p) == {w \in Workers : pc[w] = p}

LEMMA Counts ==
  /\ \A p : IsFiniteSet(AtStep(p)) /\ Cardinality(AtStep(p)) \in Nat
            /\ Cardinality(AtStep(p)) <= Cardinality(Workers)
  /\ \A s : IsFiniteSet(With(s)) /\ Cardinality(With(s)) \in Nat
  /\ Cardinality(Workers) \in Nat
<1>1. ASSUME NEW p
      PROVE  IsFiniteSet(AtStep(p)) /\ Cardinality(AtStep(p)) <= Cardinality(Workers)
  <2>1. AtStep(p) \subseteq Workers
    BY DEF AtStep
  <2>2. QED
    BY <2>1, FS_Subset, WorkersAssumption
<1>2. ASSUME NEW s
      PROVE  IsFiniteSet(With(s))
  <2>1. With(s) \subseteq ItemIds
    BY DEF With
  <2>2. QED
    BY <2>1, FS_Subset, ItemIdsAssumption
<1>3. QED
  BY <1>1, <1>2, FS_CardinalityType, WorkersAssumption

\* A request that gets to a statement is one more there, one that leaves one less.
LEMMA StepCounts ==
  ASSUME NEW w \in Workers, Alone(w), NEW p
  PROVE  /\ pc'[w] = pc[w] => Cardinality(AtStep(p))' = Cardinality(AtStep(p))
         /\ pc[w] # p /\ pc'[w] # p => Cardinality(AtStep(p))' = Cardinality(AtStep(p))
         /\ pc[w] # p /\ pc'[w] = p => Cardinality(AtStep(p))' = Cardinality(AtStep(p)) + 1
         /\ pc[w] = p /\ pc'[w] # p => Cardinality(AtStep(p))' = Cardinality(AtStep(p)) - 1
<1>1. \A v \in Workers : pc'[v] = IF v = w THEN pc'[w] ELSE pc[v]
  BY DEF Alone
<1>2. IsFiniteSet(AtStep(p))
  BY Counts
<1>3. CASE pc'[w] = pc[w] \/ (pc[w] # p /\ pc'[w] # p)
  <2>1. AtStep(p)' = AtStep(p)
    BY <1>1, <1>3 DEF AtStep
  <2>2. QED
    BY <1>3, <2>1
<1>4. CASE pc[w] # p /\ pc'[w] = p
  <2>1. AtStep(p)' = AtStep(p) \cup {w} /\ w \notin AtStep(p)
    BY <1>1, <1>4 DEF AtStep
  <2>2. QED
    BY <1>2, <1>4, <2>1, FS_AddElement
<1>5. CASE pc[w] = p /\ pc'[w] # p
  <2>1. AtStep(p)' = AtStep(p) \ {w} /\ w \in AtStep(p)
    BY <1>1, <1>5 DEF AtStep
  <2>2. QED
    BY <1>2, <1>5, <2>1, FS_RemoveElement
<1>6. QED
  BY <1>3, <1>4, <1>5

\* An item that changes its state likewise.
LEMMA ItemCounts ==
  ASSUME items = [i \in ItemIds |-> items[i]], NEW k \in ItemIds, NEW s,
         items' = [items EXCEPT ![k] = s], NEW t
  PROVE  /\ items[k] # t /\ s = t => Cardinality(With(t))' = Cardinality(With(t)) + 1
         /\ items[k] = t /\ s # t => Cardinality(With(t))' = Cardinality(With(t)) - 1
         /\ items[k] # t /\ s # t => Cardinality(With(t))' = Cardinality(With(t))
         /\ items[k] = s => Cardinality(With(t))' = Cardinality(With(t))
<1>1. \A i \in ItemIds : items'[i] = IF i = k THEN s ELSE items[i]
  OBVIOUS
<1>2. IsFiniteSet(With(t))
  BY Counts
<1>3. CASE items[k] = s \/ (items[k] # t /\ s # t)
  <2>1. With(t)' = With(t)
    BY <1>1, <1>3 DEF With
  <2>2. QED
    BY <1>3, <2>1
<1>4. CASE items[k] # t /\ s = t
  <2>1. With(t)' = With(t) \cup {k} /\ k \notin With(t)
    BY <1>1, <1>4 DEF With
  <2>2. QED
    BY <1>2, <1>4, <2>1, FS_AddElement
<1>5. CASE items[k] = t /\ s # t
  <2>1. With(t)' = With(t) \ {k} /\ k \in With(t)
    BY <1>1, <1>5 DEF With
  <2>2. QED
    BY <1>2, <1>5, <2>1, FS_RemoveElement
<1>6. QED
  BY <1>3, <1>4, <1>5

\* The item that is inserted is a new one.
LEMMA NextItemNew == With("none") # {} => NextItem \in ItemIds /\ items[NextItem] = "none"
<1> SUFFICES ASSUME With("none") # {}
             PROVE  \E i \in With("none") : \A j \in With("none") : i <= j
  BY DEF NextItem, With
<1> DEFINE R == OpToRel(<, Nat)
           S == With("none")
<1>1. IsWellFoundedOn(R, Nat)
  BY NatLessThanWellFounded
<1>2. \A m, n \in Nat : <<m, n>> \notin R => n <= m
  BY DEF OpToRel
<1>3. S \subseteq Nat /\ S # {}
  BY ItemIdsAssumption, FS_CardinalityType DEF With
<1> HIDE DEF R
<1>4. PICK m \in S : \A n \in S : ~(<<n, m>> \in R)
  BY <1>1, <1>3, WFMin
<1>5. \A n \in S : m <= n
  BY <1>2, <1>3, <1>4
<1>6. QED
  BY <1>4, <1>5

\* An INSERT of an item is one more that is live.
LEMMA NewItemCounts ==
  ASSUME items = [i \in ItemIds |-> items[i]], NewItem
  PROVE  /\ items' = [i \in ItemIds |-> items'[i]]
         /\ Cardinality(With("live"))' = Cardinality(With("live")) + 1
         /\ Cardinality(With("deleted"))' = Cardinality(With("deleted"))
         /\ Cardinality(With("completed"))' = Cardinality(With("completed"))
         /\ With("moved")' = With("moved") /\ With("completed")' = With("completed")
         /\ \A i \in ItemIds : items[i] # "none" => items'[i] = items[i]
<1>1. /\ NextItem \in ItemIds /\ items[NextItem] = "none"
      /\ items' = [items EXCEPT ![NextItem] = "live"]
  BY NextItemNew DEF NewItem
<1>2. PICK k \in ItemIds : items[k] = "none" /\ items' = [items EXCEPT ![k] = "live"]
  BY <1>1
<1>3. With("moved")' = With("moved") /\ With("completed")' = With("completed")
  BY <1>2 DEF With
<1>4. QED
  BY <1>2, <1>3, ItemCounts

-----------------------------------------------------------------------------
(* The records that are looked up and then updated or inserted.            *)

UpsertInv ==
  /\ Serving
  /\ items = [i \in ItemIds |-> items[i]]
  /\ \A w \in Workers : pc[w] \in RecordSteps \cup {"idle"}
  /\ NoFault =>
       /\ At("profile") => Cardinality(With("live")) <= 1
       /\ At("inventory") =>
            Cardinality(With("live")) + Cardinality(AtStep("insert record")) <= Cardinality(Workers)

LEMMA Sums ==
  \A a, b, c \in Nat :
    a + b <= c => /\ a <= c /\ a + 0 <= c /\ (a + 1) + (b - 1) <= c
OBVIOUS

LEMMA UpsertTells ==
  ASSUME UpsertInv
  PROVE  UpsertBound
<1>1. SUFFICES ASSUME NoFault, At("inventory")
               PROVE  Cardinality(With("live")) <= Cardinality(Workers)
  BY DEF UpsertInv, UpsertBound
<1>2. Cardinality(With("live")) + Cardinality(AtStep("insert record")) <= Cardinality(Workers)
  BY <1>1 DEF UpsertInv
<1>3. /\ Cardinality(With("live")) \in Nat /\ Cardinality(AtStep("insert record")) \in Nat
      /\ Cardinality(Workers) \in Nat
  BY Counts
<1>4. QED
  BY <1>2, <1>3, Sums

\* Requests at one statement are no more than there are.
LEMMA AtMostWorkers ==
  ASSUME NEW f, NEW p
  PROVE  /\ Cardinality({w \in Workers : f[w] = p}) \in Nat
         /\ Cardinality({w \in Workers : f[w] = p}) <= Cardinality(Workers)
<1>1. {w \in Workers : f[w] = p} \subseteq Workers
  OBVIOUS
<1>2. QED
  BY <1>1, FS_Subset, FS_CardinalityType, WorkersAssumption

\* The bound follows from how many records and pending INSERTs there are.
LEMMA UpsertStep ==
  ASSUME UpsertInv, NEW w \in Workers, Alone(w), Serving', section' = section,
         items' = [i \in ItemIds |-> items'[i]], pc'[w] \in RecordSteps \cup {"idle"},
         NoFault' => NoFault,
         NoFault' =>
           /\ At("profile") => Cardinality(With("live"))' <= 1
           /\ At("inventory") =>
                Cardinality(With("live"))' + Cardinality(AtStep("insert record"))' <= Cardinality(Workers)
  PROVE  UpsertInv'
<1>1. ASSUME NEW v \in Workers
      PROVE  pc'[v] \in RecordSteps \cup {"idle"}
  <2>1. pc[v] \in RecordSteps \cup {"idle"} /\ (v # w => pc'[v] = pc[v])
    BY DEF UpsertInv, Alone
  <2>2. QED
    BY <2>1
<1>2. QED
  BY <1>1 DEF UpsertInv, At

LEMMA UpsertKeeps ==
  ASSUME UpsertInv, NEW w \in Workers, Upsert(w), section' = section
  PROVE  UpsertInv'
<1> DEFINE r(found) == ItemRequest("Upsert", 0, "live", found)
<1>1. UNCHANGED <<items, section>> /\ items = [i \in ItemIds |-> items[i]] /\ Serving
  BY DEF Upsert, marketVars, UpsertInv
<1>2. CASE With("live") # {} /\ Start(w, "save record", r(TRUE))
  <2>1. Serving' /\ Alone(w) /\ Well /\ pc[w] = "idle" /\ pc'[w] = "save record"
    BY <1>1, <1>2, StartMoves
  <2>2. Cardinality(AtStep("insert record"))' = Cardinality(AtStep("insert record"))
    BY <2>1, StepCounts
  <2>3. (NoFault' => NoFault) /\ Cardinality(With("live"))' = Cardinality(With("live"))
    BY <1>1, <2>1 DEF Well, NoFault, With
  <2>4. QED
    BY <1>1, <2>1, <2>2, <2>3, UpsertStep DEF UpsertInv, RecordSteps
<1>3. CASE StartFailed(w, "insert record", r(FALSE))
  <2>1. Serving' /\ Alone(w) /\ Ill /\ pc'[w] = "insert record"
    BY <1>1, <1>3, StartFailedMoves
  <2>2. ~NoFault'
    BY <1>1, <2>1, IllFaults
  <2>3. QED
    BY <1>1, <2>1, <2>2, UpsertStep DEF RecordSteps
<1>4. CASE With("live") = {} /\ Start(w, "insert record", r(FALSE))
  <2>1. Serving' /\ Alone(w) /\ Well /\ pc[w] = "idle" /\ pc'[w] = "insert record"
    BY <1>1, <1>4, StartMoves
  <2>2. Cardinality(With("live"))' = 0
    BY <1>1, <1>4, FS_EmptySet DEF With
  <2>3. /\ Cardinality(AtStep("insert record"))' \in Nat
        /\ Cardinality(AtStep("insert record"))' <= Cardinality(Workers)
    BY AtMostWorkers DEF AtStep
  <2>4. NoFault' => NoFault
    BY <2>1 DEF Well, NoFault
  <2>5. Cardinality(With("live"))' + Cardinality(AtStep("insert record"))' <= Cardinality(Workers)
    <3>1. \A a, c \in Nat : a <= c => 0 + a <= c
      OBVIOUS
    <3>2. QED
      BY <2>2, <2>3, <3>1, FS_CardinalityType, WorkersAssumption
  <2>6. Cardinality(With("live"))' <= 1
    BY <2>2
  <2>7. items' = [i \in ItemIds |-> items'[i]] /\ pc'[w] \in RecordSteps \cup {"idle"}
    BY <1>1, <2>1 DEF RecordSteps
  <2> QED
    BY <1>1, <2>1, <2>4, <2>5, <2>6, <2>7, UpsertStep
<1>5. QED
  BY <1>2, <1>3, <1>4 DEF Upsert

LEMMA InsertRecordKeeps ==
  ASSUME UpsertInv, NEW w \in Workers, InsertRecord(w), section' = section,
         section \in UpsertSections
  PROVE  UpsertInv'
<1>1. items = [i \in ItemIds |-> items[i]] /\ Serving
  BY DEF UpsertInv
<1>2. Serving' /\ Alone(w) /\ Well /\ pc[w] = "insert record" /\ pc'[w] = "idle"
  BY <1>1, ProceedMoves DEF InsertRecord
<1>3. Cardinality(AtStep("insert record"))' = Cardinality(AtStep("insert record")) - 1
  BY <1>2, StepCounts
<1>4. NoFault' => NoFault
  BY <1>2 DEF Well, NoFault
<1>5. /\ Cardinality(With("live")) \in Nat /\ Cardinality(AtStep("insert record")) \in Nat
      /\ Cardinality(Workers) \in Nat
  BY Counts
<1>6. CASE At("profile") /\ With("live") # {} /\ UNCHANGED items
  <2>1. Cardinality(With("live"))' = Cardinality(With("live")) /\ ~At("inventory")
    BY <1>6 DEF With, At
  <2>2. QED
    BY <1>1, <1>2, <1>4, <1>6, <2>1, UpsertStep DEF UpsertInv
<1>7. CASE At("profile") /\ With("live") = {} /\ NewItem
  <2>1. Cardinality(With("live")) = 0 /\ ~At("inventory")
    BY <1>7, FS_EmptySet DEF At
  <2>2. /\ items' = [i \in ItemIds |-> items'[i]]
        /\ Cardinality(With("live"))' = Cardinality(With("live")) + 1
    BY <1>1, <1>7, NewItemCounts
  <2>3. Cardinality(With("live"))' <= 1
    BY <2>1, <2>2
  <2>4. QED
    BY <1>2, <1>4, <2>1, <2>2, <2>3, UpsertStep
<1>8. CASE ~At("profile") /\ NewItem
  <2>1. /\ items' = [i \in ItemIds |-> items'[i]]
        /\ Cardinality(With("live"))' = Cardinality(With("live")) + 1
    BY <1>1, <1>8, NewItemCounts
  <2>2. ASSUME NoFault', At("inventory")
        PROVE  Cardinality(With("live"))' + Cardinality(AtStep("insert record"))' <= Cardinality(Workers)
    <3>1. Cardinality(With("live")) + Cardinality(AtStep("insert record")) <= Cardinality(Workers)
      BY <1>4, <2>2 DEF UpsertInv
    <3>2. QED
      BY <1>3, <1>5, <2>1, <3>1, Sums
  <2>3. QED
    BY <1>2, <1>4, <1>8, <2>1, <2>2, UpsertStep
<1>9. QED
  BY <1>6, <1>7, <1>8 DEF InsertRecord

LEMMA SaveRecordKeeps ==
  ASSUME UpsertInv, NEW w \in Workers, SaveRecord(w)
  PROVE  UpsertInv'
<1>1. UNCHANGED <<items, section>> /\ items = [i \in ItemIds |-> items[i]] /\ Serving
  BY DEF SaveRecord, marketVars, UpsertInv
<1>2. Serving' /\ Alone(w) /\ Well /\ pc[w] = "save record" /\ pc'[w] = "idle"
  BY <1>1, ProceedMoves DEF SaveRecord
<1>3. Cardinality(AtStep("insert record"))' = Cardinality(AtStep("insert record"))
  BY <1>2, StepCounts
<1>4. (NoFault' => NoFault) /\ Cardinality(With("live"))' = Cardinality(With("live"))
  BY <1>1, <1>2 DEF Well, NoFault, With
<1>5. QED
  BY <1>1, <1>2, <1>3, <1>4, UpsertStep DEF UpsertInv

LEMMA UpsertAtRest ==
  ASSUME UpsertInv, UNCHANGED marketVars, UNCHANGED requestVars \/ CrashRequests
  PROVE  UpsertInv'
<1>1. UNCHANGED <<items, section>> /\ Serving
  BY DEF marketVars, UpsertInv
<1>2. Cardinality(With("live"))' = Cardinality(With("live"))
  BY <1>1 DEF With
<1>3. CASE UNCHANGED requestVars
  BY <1>1, <1>2, <1>3 DEF requestVars, UpsertInv, Serving, NoFault, At, AtStep
<1>4. CASE CrashRequests
  <2>1. /\ Serving' /\ (NoFault' => NoFault)
        /\ \A w \in Workers : pc'[w] = "idle"
    BY <1>1, <1>4, CrashMoves DEF NoFault
  <2>2. Cardinality(AtStep("insert record"))' = 0
    <3>1. AtStep("insert record")' = {}
      BY <2>1 DEF AtStep
    <3>2. QED
      BY <3>1, FS_EmptySet
  <2>3. /\ Cardinality(With("live")) \in Nat /\ Cardinality(AtStep("insert record")) \in Nat
        /\ Cardinality(Workers) \in Nat
    BY Counts
  <2>4. ASSUME NoFault', At("inventory")
        PROVE  Cardinality(With("live"))' + Cardinality(AtStep("insert record"))' <= Cardinality(Workers)
    <3>1. Cardinality(With("live")) + Cardinality(AtStep("insert record")) <= Cardinality(Workers)
      BY <2>1, <2>4 DEF UpsertInv
    <3>2. QED
      BY <1>2, <2>2, <2>3, <3>1, Sums
  <2>5. QED
    BY <1>1, <1>2, <2>1, <2>4 DEF UpsertInv, At
<1>5. QED
  BY <1>3, <1>4

LEMMA UpsertKept ==
  ASSUME UpsertInv, section \in UpsertSections, MarketNext
  PROVE  UpsertInv'
<1>1. PICK w \in Workers : GoodsNext(w) \/ AppNext(w) \/ RecordNext(w)
  BY SectionSteps
<1>2. pc[w] \in RecordSteps \/ pc[w] = "idle"
  BY DEF UpsertInv
<1>3. ~GoodsNext(w) /\ ~AppNext(w)
  BY <1>2, GoodsOnly, AppOnly DEF AppSteps, GoodsSteps, RecordSteps, UpsertSections
<1>4. RecordNext(w) /\ section' = section
  BY <1>1, <1>3, SectionKept
<1>5. QED
  BY <1>4, UpsertKeeps, InsertRecordKeeps, SaveRecordKeeps DEF RecordNext

-----------------------------------------------------------------------------
(* The counters of a store.  A creation is inserted before it is counted,  *)
(* a deletion happens before it is uncounted: what is between the two is   *)
(* part of the sum.                                                        *)

HeldItem(w) ==
  pc[w] # "idle" =>
    /\ pc[w] \in GoodsSteps
    /\ pc[w] \in {"delete", "uncount"} => At("products")
    /\ pc[w] \in {"delete", "save"} => req[w].id \in ItemIds
    /\ pc[w] = "save" =>
         IF At("products") THEN req[w].row # "completed"
         ELSE req[w].row = "completed" /\ items[req[w].id] \in {"live", "completed"}
    /\ pc[w] = "save store" => req[w].row \in [products : Nat, orders : Nat]

Balanced ==
  /\ At("products") =>
       /\ With("moved") = {}
       /\ store.products + Cardinality(AtStep("count")) =
            Cardinality(With("live")) +
            IF driver = "sqlite" THEN Cardinality(AtStep("uncount")) ELSE Cardinality(With("deleted"))
  /\ At("orders") =>
       store.orders + Cardinality(AtStep("count")) =
         Cardinality(With("live")) + Cardinality(With("completed"))

Undisturbed == NoFault /\ NoCrash /\ drift = {}

CounterInv ==
  /\ Serving /\ section \in {"products", "orders"}
  /\ items = [i \in ItemIds |-> items[i]]
  /\ store \in [products : Nat, orders : Nat]
  /\ \A w \in Workers : HeldItem(w)
  /\ At("products") => With("completed") = {}
  /\ At("orders") => With("moved") = {}
  /\ Undisturbed => Balanced

LEMMA CounterTells ==
  ASSUME CounterInv
  PROVE  CounterExact
<1>1. SUFFICES ASSUME Quiet, Undisturbed
               PROVE  CounterExact
  BY DEF CounterExact, Undisturbed
<1>2. \A p \in GoodsSteps : Cardinality(AtStep(p)) = 0
  <2>1. \A p \in GoodsSteps : AtStep(p) = {}
    BY <1>1 DEF Quiet, AtStep, GoodsSteps
  <2>2. QED
    BY <2>1, FS_EmptySet
<1>3. /\ Cardinality(AtStep("count")) = 0 /\ Cardinality(AtStep("uncount")) = 0
      /\ store.products \in Nat /\ store.orders \in Nat
  BY <1>2 DEF GoodsSteps, CounterInv
<1>4. /\ Cardinality(With("live")) \in Nat /\ Cardinality(With("deleted")) \in Nat
      /\ Cardinality(With("completed")) \in Nat
  BY Counts
<1>5. Balanced
  BY <1>1 DEF CounterInv
<1>6. \A a \in Nat : a + 0 = a
  OBVIOUS
<1>7. At("products") =>
        store.products = Stats.products +
                         (IF driver = "sqlite" THEN 0 ELSE Cardinality(With("deleted")))
  BY <1>3, <1>4, <1>5, <1>6 DEF Balanced, Stats
<1>8. At("orders") => store.orders = Stats.orders
  BY <1>3, <1>4, <1>5, <1>6 DEF Balanced, Stats
<1>9. QED
  BY <1>7, <1>8 DEF CounterExact

\* What a statement must do, that the counters stay exact.
LEMMA CounterStep ==
  ASSUME CounterInv, NEW w \in Workers, Alone(w), Serving', UNCHANGED <<section, driver>>,
         items' = [i \in ItemIds |-> items'[i]],
         store' \in [products : Nat, orders : Nat],
         HeldItem(w)',
         At("orders") => \A i \in ItemIds :
                           items[i] \in {"live", "completed"} => items'[i] \in {"live", "completed"},
         At("products") => With("completed")' = {},
         At("orders") => With("moved")' = {},
         Undisturbed' => Balanced'
  PROVE  CounterInv'
<1>1. ASSUME NEW v \in Workers \ {w}
      PROVE  HeldItem(v)'
  <2>1. HeldItem(v) /\ pc'[v] = pc[v] /\ req'[v] = req[v]
    BY DEF CounterInv, Alone
  <2>2. At("products") \/ At("orders")
    BY DEF CounterInv, At
  <2>3. QED
    BY <2>1, <2>2 DEF HeldItem, At
<1>2. QED
  BY <1>1 DEF CounterInv, At

\* A statement that writes nothing and is not next to a counter.
LEMMA SameCounters ==
  ASSUME CounterInv, NEW w \in Workers, Alone(w), Serving', UNCHANGED marketVars, HeldItem(w)',
         \/ ~NoFault'
         \/ Well /\ pc[w] \notin {"count", "uncount"} /\ pc'[w] \notin {"count", "uncount"}
  PROVE  CounterInv'
<1>1. /\ UNCHANGED <<section, driver, items, store, drift>>
      /\ items' = [i \in ItemIds |-> items'[i]]
      /\ store' \in [products : Nat, orders : Nat]
  BY DEF marketVars, CounterInv
<1>2. UNCHANGED <<With("live"), With("completed"), With("moved"), With("deleted")>>
  BY <1>1 DEF With
<1>3. ASSUME Undisturbed'
      PROVE  Balanced'
  <2>1. Well /\ pc[w] \notin {"count", "uncount"} /\ pc'[w] \notin {"count", "uncount"}
    BY <1>3 DEF Undisturbed
  <2>2. Balanced
    BY <1>1, <1>3, <2>1 DEF Undisturbed, CounterInv, Well, NoFault, NoCrash
  <2>3. /\ Cardinality(AtStep("count"))' = Cardinality(AtStep("count"))
        /\ Cardinality(AtStep("uncount"))' = Cardinality(AtStep("uncount"))
    BY <2>1, StepCounts
  <2>4. QED
    BY <1>1, <1>2, <2>2, <2>3 DEF Balanced, At
<1>4. QED
  BY <1>1, <1>2, <1>3, CounterStep DEF CounterInv

\* The requests that start.
LEMMA StartCounters ==
  ASSUME CounterInv, NEW w \in Workers, NEW p \in {"insert", "delete", "save", "save store"}, NEW r,
         Start(w, p, r) \/ StartFailed(w, p, r), UNCHANGED marketVars,
         p = "delete" => At("products"),
         p \in {"delete", "save"} => r.id \in ItemIds,
         p = "save" => IF At("products") THEN r.row # "completed"
                       ELSE r.row = "completed" /\ items[r.id] \in {"live", "completed"},
         p = "save store" => r.row \in [products : Nat, orders : Nat]
  PROVE  CounterInv'
<1>1. UNCHANGED <<section, items>>
  BY DEF marketVars
<1>2. Serving
  BY DEF CounterInv
<1>3. /\ Serving' /\ Alone(w) /\ pc[w] = "idle" /\ pc'[w] = p /\ req'[w] = r
      /\ Well \/ ~NoFault'
  BY <1>2, StartMoves, StartFailedMoves, IllFaults
<1>4. HeldItem(w)'
  BY <1>1, <1>3 DEF HeldItem, GoodsSteps, At
<1>5. QED
  BY <1>3, <1>4, SameCounters

LEMMA GoodsStart ==
  ASSUME CounterInv, NEW w \in Workers,
         \/ CreateProduct(w) \/ CreateOrder(w) \/ UpdateStore(w)
         \/ \E i \in ItemIds : DeleteProduct(w, i) \/ UpdateProduct(w, i) \/ UpdateOrderStatus(w, i)
  PROVE  CounterInv'
<1>1. CASE CreateProduct(w) \/ CreateOrder(w)
  BY <1>1, StartCounters DEF CreateProduct, CreateOrder
<1>2. CASE UpdateStore(w)
  <2>1. PICK row \in {store, [products |-> 0, orders |-> 0]} :
          Start(w, "save store", ItemRequest("UpdateStore", 0, row, TRUE)) /\ UNCHANGED marketVars
    BY <1>2 DEF UpdateStore
  <2>2. row \in [products : Nat, orders : Nat]
    BY DEF CounterInv
  <2>3. PICK r : r = ItemRequest("UpdateStore", 0, row, TRUE)
    OBVIOUS
  <2>4. r.row = row
    BY <2>3 DEF ItemRequest
  <2>5. QED
    BY <2>1, <2>2, <2>3, <2>4, StartCounters
<1>3. ASSUME NEW i \in ItemIds, DeleteProduct(w, i)
      PROVE  CounterInv'
  <2>1. \/ Start(w, "delete", ItemRequest("DeleteProduct", i, items[i], items[i] \in InStock))
        \/ StartFailed(w, "delete", ItemRequest("DeleteProduct", i, items[i], FALSE))
    BY <1>3 DEF DeleteProduct
  <2>2. \A found : ItemRequest("DeleteProduct", i, items[i], found).id = i
    BY DEF ItemRequest
  <2>3. At("products") /\ UNCHANGED marketVars
    BY <1>3 DEF DeleteProduct
  <2>4. CASE Start(w, "delete", ItemRequest("DeleteProduct", i, items[i], items[i] \in InStock))
    <3>1. PICK r : r = ItemRequest("DeleteProduct", i, items[i], items[i] \in InStock)
      OBVIOUS
    <3>2. Start(w, "delete", r) /\ r.id = i
      BY <2>2, <2>4, <3>1
    <3>3. QED
      BY <2>3, <3>2, StartCounters
  <2>5. CASE StartFailed(w, "delete", ItemRequest("DeleteProduct", i, items[i], FALSE))
    <3>1. PICK r : r = ItemRequest("DeleteProduct", i, items[i], FALSE)
      OBVIOUS
    <3>2. StartFailed(w, "delete", r) /\ r.id = i
      BY <2>2, <2>5, <3>1
    <3>3. QED
      BY <2>3, <3>2, StartCounters
  <2>6. QED
    BY <2>1, <2>4, <2>5
<1>4. ASSUME NEW i \in ItemIds, UpdateProduct(w, i)
      PROVE  CounterInv'
  <2>1. PICK row \in {items[i], "moved"} :
          Start(w, "save", ItemRequest("UpdateProduct", i, row, TRUE))
    BY <1>4 DEF UpdateProduct
  <2>2. At("products") /\ UNCHANGED marketVars
    BY <1>4 DEF UpdateProduct
  <2>3. row # "completed"
    BY <2>2 DEF CounterInv, With
  <2>4. PICK r : r = ItemRequest("UpdateProduct", i, row, TRUE)
    OBVIOUS
  <2>5. r.id = i /\ r.row = row
    BY <2>4 DEF ItemRequest
  <2>6. QED
    BY <2>1, <2>2, <2>3, <2>4, <2>5, StartCounters
<1>5. ASSUME NEW i \in ItemIds, UpdateOrderStatus(w, i)
      PROVE  CounterInv'
  <2>1. PICK r : r = ItemRequest("UpdateOrderStatus", i, "completed", TRUE)
    OBVIOUS
  <2>2. Start(w, "save", r) /\ At("orders") /\ UNCHANGED marketVars /\ items[i] \in InStock
    BY <1>5, <2>1 DEF UpdateOrderStatus
  <2>3. ~At("products") /\ With("moved") = {}
    BY <2>2 DEF At, CounterInv
  <2>4. items[i] \in {"live", "completed"}
    BY <2>2, <2>3 DEF InStock, With
  <2>5. r.id = i /\ r.row = "completed"
    BY <2>1 DEF ItemRequest
  <2>6. QED
    BY <2>2, <2>3, <2>4, <2>5, StartCounters
<1>6. QED
  BY <1>1, <1>2, <1>3, <1>4, <1>5

\* The statements that fail.
LEMMA GoodsFails ==
  ASSUME CounterInv, NEW w \in Workers,
         InsertFails(w) \/ CountFails(w) \/ DeleteItemFails(w) \/ UncountFails(w)
  PROVE  CounterInv'
<1>1. Serving /\ HeldItem(w)
  BY DEF CounterInv
<1>2. PICK p \in GoodsSteps, q \in {"count", "uncount", "idle"} :
        /\ ProceedFailed(w, p, q) /\ UNCHANGED marketVars
        /\ q = "uncount" => p = "delete"
  BY DEF InsertFails, CountFails, DeleteItemFails, UncountFails, GoodsSteps
<1>3. Serving' /\ Alone(w) /\ Ill /\ pc[w] = p /\ pc'[w] = q
  BY <1>1, <1>2, ProceedFailedMoves
<1>4. ~NoFault'
  BY <1>1, <1>3, IllFaults
<1>5. UNCHANGED section
  BY <1>2 DEF marketVars
<1>6. HeldItem(w)'
  BY <1>1, <1>2, <1>3, <1>5 DEF HeldItem, GoodsSteps, At
<1>7. QED
  BY <1>2, <1>3, <1>4, <1>6, SameCounters

\* What a history that stays empty tells.
LEMMA DriftsTell ==
  ASSUME NEW c \in BOOLEAN, NEW x, Drifts(c, x), drift' = {}
  PROVE  ~c /\ drift = {}
BY DEF Drifts

LEMMA BalancedBefore ==
  ASSUME CounterInv, Well, drift' = {} => drift = {}, Undisturbed'
  PROVE  Balanced
BY DEF CounterInv, Well, Undisturbed, NoFault, NoCrash

\* The sums are of naturals.
LEMMA Naturals ==
  ASSUME CounterInv
  PROVE  /\ \A p : Cardinality(AtStep(p)) \in Nat
         /\ \A s : Cardinality(With(s)) \in Nat
         /\ store.products \in Nat /\ store.orders \in Nat
BY Counts DEF CounterInv

LEMMA Balances ==
  \A a, b, c, d \in Nat :
    a + b = c + d => /\ a + (b + 1) = (c + 1) + d
                     /\ (a + 1) + (b - 1) = c + d
                     /\ a + b = (c - 1) + (d + 1)
                     /\ a > 0 => (a - 1) + b = c + (d - 1)
OBVIOUS

LEMMA InsertItemCounters ==
  ASSUME CounterInv, NEW w \in Workers, InsertItem(w)
  PROVE  CounterInv'
<1>1. Serving /\ items = [i \in ItemIds |-> items[i]]
  BY DEF CounterInv
<1>2. Serving' /\ Alone(w) /\ Well /\ pc[w] = "insert" /\ pc'[w] = "count"
  BY <1>1, ProceedMoves DEF InsertItem
<1>3. /\ items' = [i \in ItemIds |-> items'[i]]
      /\ Cardinality(With("live"))' = Cardinality(With("live")) + 1
      /\ Cardinality(With("deleted"))' = Cardinality(With("deleted"))
      /\ Cardinality(With("completed"))' = Cardinality(With("completed"))
      /\ With("moved")' = With("moved") /\ With("completed")' = With("completed")
      /\ \A i \in ItemIds : items[i] # "none" => items'[i] = items[i]
  BY <1>1, NewItemCounts DEF InsertItem
<1>4. UNCHANGED <<section, driver, store, drift>>
  BY DEF InsertItem, KeepForItems
<1>5. /\ Cardinality(AtStep("count"))' = Cardinality(AtStep("count")) + 1
      /\ Cardinality(AtStep("uncount"))' = Cardinality(AtStep("uncount"))
  BY <1>2, StepCounts
<1>6. ASSUME Undisturbed'
      PROVE  Balanced'
  <2>1. Balanced
    BY <1>2, <1>4, <1>6, BalancedBefore
  <2>2. QED
    BY <1>3, <1>4, <1>5, <2>1, Naturals, Balances DEF Balanced, At
<1>7. HeldItem(w)'
  BY <1>2 DEF HeldItem, GoodsSteps
<1>8. store' \in [products : Nat, orders : Nat]
  BY <1>4 DEF CounterInv
<1>9. QED
  BY <1>2, <1>3, <1>4, <1>6, <1>7, <1>8, CounterStep DEF CounterInv

LEMMA InsertRefusedCounters ==
  ASSUME CounterInv, NEW w \in Workers, InsertRefused(w)
  PROVE  CounterInv'
<1>1. Serving' /\ Alone(w) /\ pc'[w] = "count"
  BY ProceedMoves DEF InsertRefused, CounterInv
<1>2. UNCHANGED <<section, driver, store, items>> /\ drift' # {}
  BY DEF InsertRefused, KeepForItems, Drifts
<1>3. HeldItem(w)'
  BY <1>1 DEF HeldItem, GoodsSteps
<1>4. ~Undisturbed' /\ UNCHANGED <<With("completed"), With("moved")>>
  BY <1>2 DEF Undisturbed, With
<1>5. QED
  BY <1>1, <1>2, <1>3, <1>4, CounterStep DEF CounterInv

LEMMA CountCounters ==
  ASSUME CounterInv, NEW w \in Workers, Count(w)
  PROVE  CounterInv'
<1>1. Serving' /\ Alone(w) /\ Well /\ pc[w] = "count" /\ pc'[w] = "idle"
  BY ProceedMoves DEF Count, CounterInv
<1>2. UNCHANGED <<section, driver, items, drift>>
  BY DEF Count, KeepForStore
<1>3. store = [products |-> store.products, orders |-> store.orders]
  BY DEF CounterInv
<1>4. store' = IF At("products") THEN [products |-> store.products + 1, orders |-> store.orders]
               ELSE [products |-> store.products, orders |-> store.orders + 1]
  BY <1>3 DEF Count
<1>5. /\ store' \in [products : Nat, orders : Nat]
      /\ At("products") => store'.products = store.products + 1
      /\ At("orders") => store'.orders = store.orders + 1
  BY <1>4, Naturals DEF At
<1>6. /\ Cardinality(AtStep("count"))' = Cardinality(AtStep("count")) - 1
      /\ Cardinality(AtStep("uncount"))' = Cardinality(AtStep("uncount"))
  BY <1>1, StepCounts
<1>7. UNCHANGED <<With("live"), With("completed"), With("moved"), With("deleted")>>
  BY <1>2 DEF With
<1>8. ASSUME Undisturbed'
      PROVE  Balanced'
  <2>1. Balanced
    BY <1>1, <1>2, <1>8, BalancedBefore
  <2>2. QED
    BY <1>2, <1>5, <1>6, <1>7, <2>1, Naturals, Balances DEF Balanced, At
<1>9. HeldItem(w)'
  BY <1>1 DEF HeldItem
<1>10. QED
  BY <1>1, <1>2, <1>5, <1>7, <1>8, <1>9, CounterStep DEF CounterInv

LEMMA UncountCounters ==
  ASSUME CounterInv, NEW w \in Workers, Uncount(w)
  PROVE  CounterInv'
<1>1. Serving' /\ Alone(w) /\ Well /\ pc[w] = "uncount" /\ pc'[w] = "idle"
  BY ProceedMoves DEF Uncount, CounterInv
<1>2. UNCHANGED <<section, driver, items>> /\ At("products")
  BY <1>1 DEF Uncount, KeepForStore, CounterInv, HeldItem
<1>3. store = [products |-> store.products, orders |-> store.orders]
  BY DEF CounterInv
<1>4. store' = IF driver = "sqlite" /\ store.products > 0
               THEN [products |-> store.products - 1, orders |-> store.orders] ELSE store
  <2>1. store' = IF driver = "sqlite" /\ store.products > 0
                 THEN [store EXCEPT !.products = store.products - 1] ELSE store
    BY DEF Uncount
  <2>2. [store EXCEPT !.products = store.products - 1] =
          [products |-> store.products - 1, orders |-> store.orders]
    BY <1>3
  <2>3. QED
    BY <2>1, <2>2
<1>5. store' \in [products : Nat, orders : Nat]
  BY <1>4, Naturals DEF CounterInv
<1>6. /\ Cardinality(AtStep("count"))' = Cardinality(AtStep("count"))
      /\ Cardinality(AtStep("uncount"))' = Cardinality(AtStep("uncount")) - 1
  BY <1>1, StepCounts
<1>7. UNCHANGED <<With("live"), With("completed"), With("moved"), With("deleted")>>
  BY <1>2 DEF With
<1>8. ASSUME Undisturbed'
      PROVE  Balanced'
  <2>1. drift = {} /\ ~(driver = "sqlite" /\ store.products = 0)
    BY <1>8, DriftsTell DEF Undisturbed, Uncount
  <2>2. Balanced
    BY <1>1, <1>8, <2>1, BalancedBefore
  <2>3. CASE driver = "sqlite"
    <3>1. store'.products = store.products - 1 /\ store.products > 0
      BY <1>4, <2>1, <2>3, Naturals
    <3>2. QED
      BY <1>2, <1>6, <1>7, <2>2, <2>3, <3>1, Naturals, Balances DEF Balanced, At
  <2>4. CASE driver # "sqlite"
    <3>1. store' = store
      BY <1>4, <2>4
    <3>2. QED
      BY <1>2, <1>6, <1>7, <2>2, <2>4, <3>1 DEF Balanced, At
  <2>5. QED
    BY <2>3, <2>4
<1>9. HeldItem(w)'
  BY <1>1 DEF HeldItem
<1>10. QED
  BY <1>1, <1>2, <1>5, <1>7, <1>8, <1>9, CounterStep DEF CounterInv

\* One product that is live is deleted: it is still to be uncounted.
LEMMA DeleteCounters ==
  ASSUME CounterInv, NEW w \in Workers, DeleteItem(w)
  PROVE  CounterInv'
<1> DEFINE i == req[w].id
           counted == req[w].found /\ req[w].row = "live"
           q == IF counted THEN "uncount" ELSE "idle"
           s == IF items[i] \in InStock THEN "deleted" ELSE items[i]
<1>1. pc[w] = "delete" /\ i \in ItemIds /\ At("products")
  BY DEF DeleteItem, CounterInv, HeldItem
<1>2. /\ items' = [items EXCEPT ![i] = s]
      /\ Drifts(counted # (items[i] = "live"), "deleted twice, or moved between")
      /\ Proceed(w, "delete", q) /\ UNCHANGED <<section, driver, store>>
  BY DEF DeleteItem, KeepForItems
<1>3. Serving' /\ Alone(w) /\ Well /\ pc'[w] = q
  BY <1>2, ProceedMoves DEF CounterInv
<1>4. items = [j \in ItemIds |-> items[j]] /\ items' = [j \in ItemIds |-> items'[j]]
  BY <1>2 DEF CounterInv
<1>5. items'[i] = s /\ \A j \in ItemIds : j # i => items'[j] = items[j]
  BY <1>1, <1>2, <1>4
<1>6. ~At("orders") /\ With("completed") = {}
  BY <1>1 DEF At, CounterInv
<1>7. With("completed")' = {}
  BY <1>5, <1>6 DEF With, InStock
<1>8. Cardinality(AtStep("count"))' = Cardinality(AtStep("count"))
  BY <1>1, <1>3, StepCounts
<1>9. ASSUME Undisturbed'
      PROVE  Balanced'
  <2>1. drift = {} /\ (counted <=> (items[i] = "live"))
    <3>1. drift' = {}
      BY <1>9 DEF Undisturbed
    <3>2. QED
      BY <1>2, <3>1 DEF Drifts
  <2>2. Balanced
    BY <1>3, <1>9, <2>1, BalancedBefore
  <2>3. With("moved") = {}
    BY <1>1, <2>2 DEF Balanced
  <2>4. CASE items[i] = "live"
    <3>1. s = "deleted" /\ q = "uncount"
      BY <2>1, <2>4 DEF InStock
    <3>2. /\ Cardinality(With("live"))' = Cardinality(With("live")) - 1
          /\ Cardinality(With("deleted"))' = Cardinality(With("deleted")) + 1
      <4>1. items' = [items EXCEPT ![i] = "deleted"]
        BY <1>2, <3>1
      <4> HIDE DEF i, s
      <4>2. Cardinality(With("live"))' = Cardinality(With("live")) - 1
        BY <1>1, <1>4, <2>4, <4>1, ItemCounts
      <4>3. Cardinality(With("deleted"))' = Cardinality(With("deleted")) + 1
        BY <1>1, <1>4, <2>4, <4>1, ItemCounts
      <4>4. QED
        BY <4>2, <4>3
    <3>3. With("moved")' = {}
      BY <1>5, <2>3, <3>1 DEF With
    <3>4. Cardinality(AtStep("uncount"))' = Cardinality(AtStep("uncount")) + 1
      BY <1>1, <1>3, <3>1, StepCounts
    <3>5. Cardinality(With("live"))' +
            (IF driver = "sqlite" THEN Cardinality(AtStep("uncount"))' ELSE Cardinality(With("deleted"))')
          = store.products + Cardinality(AtStep("count"))
      <4> DEFINE d == IF driver = "sqlite" THEN Cardinality(AtStep("uncount")) ELSE Cardinality(With("deleted"))
      <4>1. store.products + Cardinality(AtStep("count")) = Cardinality(With("live")) + d
        BY <1>1, <2>2 DEF Balanced
      <4>2. /\ d \in Nat /\ Cardinality(With("live")) \in Nat
            /\ Cardinality(AtStep("count")) \in Nat /\ store.products \in Nat
        BY Naturals
      <4>3. store.products + Cardinality(AtStep("count")) = (Cardinality(With("live")) - 1) + (d + 1)
        BY <4>1, <4>2, Balances
      <4>4. QED
        BY <3>2, <3>4, <4>3
    <3>6. QED
      BY <1>2, <1>6, <1>8, <3>3, <3>5 DEF Balanced, At
  <2>5. CASE items[i] # "live"
    <3>1. s = items[i] /\ q = "idle"
      BY <1>1, <1>6, <2>1, <2>3, <2>5 DEF InStock, With
    <3>2. UNCHANGED <<With("live"), With("deleted"), With("moved")>>
      BY <1>5, <3>1 DEF With
    <3>3. Cardinality(AtStep("uncount"))' = Cardinality(AtStep("uncount"))
      BY <1>1, <1>3, <3>1, StepCounts
    <3>4. QED
      BY <1>2, <1>6, <1>8, <2>2, <3>2, <3>3 DEF Balanced, At
  <2>6. QED
    BY <2>4, <2>5
<1>10. HeldItem(w)'
  BY <1>1, <1>2, <1>3 DEF HeldItem, GoodsSteps, At
<1>11. store' \in [products : Nat, orders : Nat]
  BY <1>2 DEF CounterInv
<1> HIDE DEF i, counted, q, s
<1>12. QED
  BY <1>2, <1>3, <1>4, <1>6, <1>7, <1>9, <1>10, <1>11, CounterStep

\* An order is completed; a product is written as it is, or drifts.
LEMMA SaveCounters ==
  ASSUME CounterInv, NEW w \in Workers, SaveItem(w)
  PROVE  CounterInv'
<1> DEFINE i == req[w].id
           row == req[w].row
<1>1. Serving' /\ Alone(w) /\ Well /\ pc[w] = "save" /\ pc'[w] = "idle"
  BY ProceedMoves DEF SaveItem, CounterInv
<1>2. /\ i \in ItemIds
      /\ At("products") => row # "completed"
      /\ At("orders") => row = "completed" /\ items[i] \in {"live", "completed"}
  BY <1>1 DEF CounterInv, HeldItem, At
<1>3. /\ items' = [items EXCEPT ![i] = row] /\ UNCHANGED <<section, driver, store>>
      /\ Drifts(At("products") /\ items[i] # row, "moved or brought back")
  BY DEF SaveItem, KeepForItems
<1>4. items = [j \in ItemIds |-> items[j]] /\ items' = [j \in ItemIds |-> items'[j]]
  BY <1>3 DEF CounterInv
<1>5. items'[i] = row /\ \A j \in ItemIds : j # i => items'[j] = items[j]
  BY <1>2, <1>3, <1>4
<1>6. /\ Cardinality(AtStep("count"))' = Cardinality(AtStep("count"))
      /\ Cardinality(AtStep("uncount"))' = Cardinality(AtStep("uncount"))
  BY <1>1, StepCounts
<1>7. /\ At("products") => With("completed")' = {}
      /\ At("orders") => With("moved")' = {}
  BY <1>2, <1>5 DEF With, CounterInv
<1>8. ASSUME Undisturbed'
      PROVE  Balanced'
  <2>1. drift = {} /\ ~(At("products") /\ items[i] # row)
    <3>1. drift' = {}
      BY <1>8 DEF Undisturbed
    <3>2. QED
      BY <1>3, <3>1 DEF Drifts
  <2>2. Balanced
    BY <1>1, <1>8, <2>1, BalancedBefore
  <2>3. CASE items[i] = row
    <3>1. UNCHANGED <<With("live"), With("completed"), With("moved"), With("deleted")>>
      BY <1>5, <2>3 DEF With
    <3>2. QED
      BY <1>3, <1>6, <2>2, <3>1 DEF Balanced, At
  <2>4. CASE items[i] # row
    <3>1. At("orders") /\ ~At("products") /\ row = "completed" /\ items[i] = "live"
      BY <1>2, <2>1, <2>4 DEF At, CounterInv
    <3>2. /\ Cardinality(With("live"))' = Cardinality(With("live")) - 1
          /\ Cardinality(With("completed"))' = Cardinality(With("completed")) + 1
      BY <1>2, <1>3, <1>4, <3>1, ItemCounts
    <3>3. store.orders + Cardinality(AtStep("count")) =
            Cardinality(With("live")) + Cardinality(With("completed"))
      BY <2>2, <3>1 DEF Balanced
    <3>4. store.orders + Cardinality(AtStep("count")) =
            (Cardinality(With("live")) - 1) + (Cardinality(With("completed")) + 1)
      BY <3>3, Naturals, Balances
    <3>5. store'.orders + Cardinality(AtStep("count"))' =
            Cardinality(With("live"))' + Cardinality(With("completed"))'
      BY <1>3, <1>6, <3>2, <3>4
    <3>6. QED
      BY <1>3, <3>1, <3>5 DEF Balanced, At
  <2>5. QED
    BY <2>3, <2>4
<1>9. HeldItem(w)'
  BY <1>1 DEF HeldItem
<1>10. At("orders") => \A j \in ItemIds :
                         items[j] \in {"live", "completed"} => items'[j] \in {"live", "completed"}
  BY <1>2, <1>5
<1>11. store' \in [products : Nat, orders : Nat]
  BY <1>3 DEF CounterInv
<1> HIDE DEF i, row
<1>12. QED
  BY <1>1, <1>3, <1>4, <1>7, <1>8, <1>9, <1>10, <1>11, CounterStep

LEMMA SaveStoreCounters ==
  ASSUME CounterInv, NEW w \in Workers, SaveStore(w)
  PROVE  CounterInv'
<1>1. Serving' /\ Alone(w) /\ Well /\ pc[w] = "save store" /\ pc'[w] = "idle"
  BY ProceedMoves DEF SaveStore, CounterInv
<1>2. /\ UNCHANGED <<section, driver, items>> /\ store' = req[w].row
      /\ Drifts(store # req[w].row, "saved over")
  BY DEF SaveStore, KeepForStore
<1>3. store' \in [products : Nat, orders : Nat]
  BY <1>1, <1>2 DEF CounterInv, HeldItem
<1>4. /\ Cardinality(AtStep("count"))' = Cardinality(AtStep("count"))
      /\ Cardinality(AtStep("uncount"))' = Cardinality(AtStep("uncount"))
  BY <1>1, StepCounts
<1>5. UNCHANGED <<With("live"), With("completed"), With("moved"), With("deleted")>>
  BY <1>2 DEF With
<1>6. ASSUME Undisturbed'
      PROVE  Balanced'
  <2>1. drift = {} /\ store' = store
    <3>1. drift' = {}
      BY <1>6 DEF Undisturbed
    <3>2. QED
      BY <1>2, <3>1 DEF Drifts
  <2>2. Balanced
    BY <1>1, <1>6, <2>1, BalancedBefore
  <2>3. QED
    BY <1>2, <1>4, <1>5, <2>1, <2>2 DEF Balanced, At
<1>7. HeldItem(w)'
  BY <1>1 DEF HeldItem
<1>8. QED
  BY <1>1, <1>2, <1>3, <1>5, <1>6, <1>7, CounterStep DEF CounterInv

LEMMA CounterAtRest ==
  ASSUME CounterInv, UNCHANGED marketVars, UNCHANGED requestVars \/ CrashRequests
  PROVE  CounterInv'
<1>1. UNCHANGED <<section, driver, items, store, drift>> /\ Serving
  BY DEF marketVars, CounterInv
<1>2. UNCHANGED <<With("live"), With("completed"), With("moved"), With("deleted")>>
  BY <1>1 DEF With
<1>3. CASE UNCHANGED requestVars
  <2>1. UNCHANGED <<AtStep("count"), AtStep("uncount"), pc, req, budget>>
    BY <1>3 DEF requestVars, AtStep
  <2>2. (Undisturbed' => Undisturbed) /\ (Balanced => Balanced') /\ Serving'
    BY <1>1, <1>2, <2>1 DEF Undisturbed, NoFault, NoCrash, Balanced, At, Serving
  <2>3. \A w \in Workers : HeldItem(w)'
    BY <1>1, <2>1 DEF CounterInv, HeldItem, At
  <2>4. QED
    BY <1>1, <1>2, <2>2, <2>3 DEF CounterInv, At
<1>4. CASE CrashRequests
  <2>1. Serving' /\ ~NoCrash' /\ \A w \in Workers : pc'[w] = "idle"
    BY <1>1, <1>4, CrashMoves, CrashCounted
  <2>2. QED
    BY <1>1, <1>2, <2>1 DEF CounterInv, HeldItem, At, Undisturbed
<1>5. QED
  BY <1>3, <1>4

LEMMA CounterKept ==
  ASSUME CounterInv, MarketNext
  PROVE  CounterInv'
<1>1. PICK w \in Workers : GoodsNext(w) \/ AppNext(w) \/ RecordNext(w)
  BY SectionSteps
<1>2. pc[w] \in GoodsSteps \/ pc[w] = "idle"
  BY DEF CounterInv, HeldItem
<1>3. ~AppNext(w) /\ ~RecordNext(w)
  BY <1>2, AppOnly, RecordOnly DEF CounterInv, AppSteps, GoodsSteps, RecordSteps, UpsertSections
<1>4. GoodsNext(w)
  BY <1>1, <1>3
<1>5. QED
  BY <1>4, GoodsStart, GoodsFails, InsertItemCounters, InsertRefusedCounters, CountCounters,
     UncountCounters, DeleteCounters, SaveCounters, SaveStoreCounters DEF GoodsNext

-----------------------------------------------------------------------------
(* The market as a whole: the section that is exercised keeps its          *)
(* invariant, and the applications are left alone by the others.           *)

AppsUnused == (\A i \in ItemIds : apps[i] = NoApp) /\ opened = {}

MarketUnused ==
  /\ AppsUnused
  /\ \A i \in ItemIds : items[i] = "none"
  /\ store = [products |-> 0, orders |-> 0]

SectionInv ==
  /\ section \in Sections
  /\ section = "applications" => AppsInv
  /\ section \in UpsertSections => UpsertInv
  /\ section \in {"products", "orders"} => CounterInv
  /\ section # "applications" => AppsUnused

MarketInv == IF area = "market" THEN SectionInv ELSE MarketUnused

LEMMA MarketInvStarts == Init => MarketInv
<1>1. SUFFICES ASSUME Init
               PROVE  MarketInv
  OBVIOUS
<1>2. /\ \A w \in Workers : pc[w] = "idle"
      /\ section \in Sections
      /\ items = [i \in ItemIds |-> "none"] /\ store = [products |-> 0, orders |-> 0]
      /\ apps = [i \in ItemIds |-> NoApp] /\ opened = {}
  BY <1>1 DEF Init, RequestsInit, MarketInit
<1>3. Serving
  BY <1>1, RequestBoundsAssumption DEF Init, RequestsInit, Serving
<1>4. MarketUnused
  BY <1>2 DEF MarketUnused, AppsUnused
<1>5. AppsInv
  <2>1. NoApp = [status |-> NoApp.status, store |-> NoApp.store] /\ NoApp.status # "approved"
    BY DEF NoApp
  <2>2. QED
    BY <1>2, <1>3, <2>1 DEF AppsInv, HeldApp, IsApp, Linked
<1>6. /\ \A s : s # "none" => Cardinality(With(s)) = 0 /\ With(s) = {}
      /\ \A p : p # "idle" => Cardinality(AtStep(p)) = 0
  <2>1. /\ \A s : s # "none" => With(s) = {}
        /\ \A p : p # "idle" => AtStep(p) = {}
    BY <1>2 DEF With, AtStep
  <2>2. QED
    BY <2>1, FS_EmptySet
<1>7. UpsertInv
  <2>1. Cardinality(With("live")) = 0 /\ Cardinality(AtStep("insert record")) = 0
    BY <1>6
  <2>2. Cardinality(With("live")) <= 1
    <3>1. 0 <= 1
      OBVIOUS
    <3>2. QED
      BY <2>1, <3>1
  <2>3. Cardinality(With("live")) + Cardinality(AtStep("insert record")) <= Cardinality(Workers)
    <3>1. \A c \in Nat : 0 + 0 <= c
      OBVIOUS
    <3>2. Cardinality(Workers) \in Nat
      BY FS_CardinalityType, WorkersAssumption
    <3>3. QED
      BY <2>1, <3>1, <3>2
  <2>4. QED
    BY <1>2, <1>3, <2>2, <2>3 DEF UpsertInv
<1>8. ASSUME section \in {"products", "orders"}
      PROVE  CounterInv
  <2>1. Balanced
    <3>1. store.products = 0 /\ store.orders = 0
      BY <1>2
    <3>2. QED
      BY <1>6, <3>1 DEF Balanced
  <2>2. QED
    BY <1>2, <1>3, <1>6, <1>8, <2>1 DEF CounterInv, HeldItem
<1>9. QED
  BY <1>2, <1>4, <1>5, <1>7, <1>8 DEF MarketInv, SectionInv, MarketUnused

LEMMA AppsLeftAlone ==
  ASSUME NEW w \in Workers, GoodsNext(w) \/ RecordNext(w)
  PROVE  UNCHANGED <<apps, opened>>
<1> USE DEF marketVars, KeepForItems, KeepForStore
<1>1. CASE \/ CreateProduct(w) \/ CreateOrder(w) \/ InsertItem(w) \/ InsertRefused(w)
           \/ InsertFails(w) \/ Count(w) \/ CountFails(w) \/ DeleteItem(w) \/ DeleteItemFails(w)
  BY <1>1 DEF CreateProduct, CreateOrder, InsertItem, InsertRefused, InsertFails, Count,
     CountFails, DeleteItem, DeleteItemFails
<1>2. CASE \/ Uncount(w) \/ UncountFails(w) \/ SaveItem(w) \/ UpdateStore(w) \/ SaveStore(w)
           \/ \E i \in ItemIds : DeleteProduct(w, i) \/ UpdateProduct(w, i) \/ UpdateOrderStatus(w, i)
  BY <1>2 DEF Uncount, UncountFails, SaveItem, UpdateStore, SaveStore, DeleteProduct,
     UpdateProduct, UpdateOrderStatus
<1>3. CASE RecordNext(w)
  BY <1>3 DEF RecordNext, Upsert, InsertRecord, SaveRecord
<1>4. QED
  BY <1>1, <1>2, <1>3 DEF GoodsNext

LEMMA SectionInvKept ==
  ASSUME SectionInv, MarketNext
  PROVE  SectionInv'
<1>1. UNCHANGED <<section, driver>>
  BY SectionKept
<1>2. section = "applications" => AppsInv'
  BY AppsKept DEF SectionInv
<1>3. section \in UpsertSections => UpsertInv'
  BY UpsertKept DEF SectionInv
<1>4. section \in {"products", "orders"} => CounterInv'
  BY CounterKept DEF SectionInv
<1>5. ASSUME section # "applications"
      PROVE  AppsUnused'
  <2>1. PICK w \in Workers : GoodsNext(w) \/ AppNext(w) \/ RecordNext(w)
    BY SectionSteps
  <2>2. section \in UpsertSections \cup {"products", "orders"}
    BY <1>5, SectionsAssumption DEF SectionInv, UpsertSections
  <2>3. pc[w] \in GoodsSteps \cup RecordSteps \cup {"idle"}
    BY <2>2 DEF SectionInv, UpsertInv, CounterInv, HeldItem
  <2>4. ~AppNext(w)
    BY <1>5, <2>3, AppOnly DEF AppSteps, GoodsSteps, RecordSteps
  <2>5. UNCHANGED <<apps, opened>>
    BY <2>1, <2>4, AppsLeftAlone
  <2>6. QED
    BY <1>5, <2>5 DEF SectionInv, AppsUnused
<1>6. QED
  BY <1>1, <1>2, <1>3, <1>4, <1>5 DEF SectionInv

LEMMA MarketSteps ==
  ASSUME [Next]_processVars
  PROVE  /\ area' = area
         /\ area = "market" =>
              \/ MarketNext
              \/ UNCHANGED marketVars /\ (UNCHANGED requestVars \/ CrashRequests)
         /\ area # "market" => UNCHANGED marketVars
<1>1. CASE Rows \/ Bus \/ Cache
  BY <1>1 DEF Rows, Bus, Cache
<1>2. CASE Market
  BY <1>2 DEF Market
<1>3. CASE Crash
  BY <1>3 DEF Crash
<1>4. CASE UNCHANGED processVars
  BY <1>4 DEF processVars
<1>5. QED
  BY <1>1, <1>2, <1>3, <1>4 DEF Next

LEMMA MarketInvKept == MarketInv /\ [Next]_processVars => MarketInv'
<1>1. SUFFICES ASSUME MarketInv, [Next]_processVars
               PROVE  MarketInv'
  OBVIOUS
<1>2. area' = area
  BY <1>1, MarketSteps
<1>3. CASE area = "market" /\ MarketNext
  BY <1>1, <1>2, <1>3, SectionInvKept DEF MarketInv
<1>4. CASE /\ area = "market" /\ UNCHANGED marketVars
           /\ UNCHANGED requestVars \/ CrashRequests
  <2>1. SectionInv
    BY <1>1, <1>4 DEF MarketInv
  <2>2. UNCHANGED <<section, apps, opened>>
    BY <1>4 DEF marketVars
  <2>3. SectionInv'
    BY <1>4, <2>1, <2>2, AppsAtRest, UpsertAtRest, CounterAtRest DEF SectionInv, AppsUnused
  <2>4. QED
    BY <1>2, <1>4, <2>3 DEF MarketInv
<1>5. CASE area # "market" /\ UNCHANGED marketVars
  <2>1. UNCHANGED <<apps, opened, items, store>> /\ MarketUnused
    BY <1>1, <1>5 DEF marketVars, MarketInv
  <2>2. MarketUnused'
    BY <2>1 DEF MarketUnused, AppsUnused
  <2>3. QED
    BY <1>2, <1>5, <2>2 DEF MarketInv
<1>6. QED
  BY <1>1, <1>3, <1>4, <1>5, MarketSteps

\* The invariant of the market holds throughout.
THEOREM MarketInvHolds == Spec => []MarketInv
<1>1. QED
  BY MarketInvStarts, MarketInvKept, PTL DEF Spec

LEMMA NoAppsTell ==
  ASSUME AppsUnused
  PROVE  StoreTraceable
BY DEF AppsUnused, NoApp, StoreTraceable

LEMMA NoItemsTell ==
  ASSUME MarketUnused
  PROVE  CounterExact /\ UpsertBound
<1>1. \A s : s # "none" => With(s) = {}
  BY DEF MarketUnused, With
<1>2. /\ Cardinality(With("live")) = 0 /\ Cardinality(With("deleted")) = 0
      /\ Cardinality(With("completed")) = 0 /\ Cardinality(Workers) \in Nat
  BY <1>1, FS_EmptySet, Counts
<1>3. store.products = 0 /\ store.orders = 0
  BY DEF MarketUnused
<1>4. UpsertBound
  BY <1>2 DEF UpsertBound
<1>5. CounterExact
  BY <1>2, <1>3 DEF CounterExact, Stats
<1>6. QED
  BY <1>4, <1>5

\* An approved application names a store opened for it, through overlapping
\* reviews, failures of later statements and crashes; and every store was
\* opened by a review that was saved, once the requests are answered.
THEOREM StoreTraceableCorrect == Spec => []StoreTraceable
<1>1. MarketInv => StoreTraceable
  BY AppsTell, NoAppsTell DEF MarketInv, SectionInv, MarketUnused
<1>2. QED
  BY <1>1, MarketInvHolds, PTL

\* There is one profile however often it is upserted, and there are at most
\* as many inventory records of a key as requests served at once.
THEOREM UpsertBoundCorrect == Spec => []UpsertBound
<1>1. MarketInv => UpsertBound
  BY UpsertTells, NoItemsTell DEF MarketInv, SectionInv, UpsertBound, UpsertSections, At
<1>2. QED
  BY <1>1, MarketInvHolds, PTL

\* When nothing failed, crashed or raced in one of the ways the specification
\* names, a store's counters are the numbers of its products and orders, for
\* any number of requests and items.
THEOREM CounterExactCorrect == Spec => []CounterExact
<1>1. MarketInv => CounterExact
  BY CounterTells, NoItemsTell DEF MarketInv, SectionInv, CounterExact, At
<1>2. QED
  BY <1>1, MarketInvHolds, PTL

-----------------------------------------------------------------------------
(* The event bus: what EventsReach says in the end, as an invariant.       *)

\* An event of this process, for a handler of its topic, is with the goroutine
\* that publishes it, with one that delivers it, or received.
EventsAccounted ==
  \A e \in emitted, h \in Subscribers :
    <<e.topic, h>> \in subscribers => e \in outbox \/ <<e, h>> \in inflight \cup received

\* A handler receives what was emitted, of a topic it has subscribed to.
OnlyEmitted ==
  /\ outbox \subseteq emitted
  /\ \A d \in inflight \cup received :
       d[1] \in emitted /\ <<d[1].topic, d[2]>> \in subscribers

\* The process emits nothing before it has subscribed its handlers: while it
\* can subscribe no request has been served.
ServedLater ==
  area = "rows" =>
    /\ Serial <= MaxRequests
    /\ emitted # {} \/ ~Quiet => Serial < MaxRequests

BusInv == EventsAccounted /\ OnlyEmitted /\ ServedLater

\* Spending takes one of a bound and leaves the others.
LEMMA SpendsOne ==
  ASSUME Serving, NEW b \in {"requests", "faults", "crashes"}, Spend(b)
  PROVE  /\ Serial \in Nat /\ Serial' \in Nat
         /\ Serial' = IF b = "requests" THEN Serial - 1 ELSE Serial
<1>1. budget = [requests |-> budget.requests, faults |-> budget.faults, crashes |-> budget.crashes]
      /\ budget.requests \in Nat
  BY DEF Serving
<1>2. CASE b = "requests"
  <2>1. budget' = [budget EXCEPT !.requests = @ - 1] /\ budget.requests > 0
    BY <1>2 DEF Spend
  <2>2. budget'.requests = budget.requests - 1
    BY <1>1, <2>1
  <2>3. QED BY <1>1, <1>2, <2>1, <2>2 DEF Serial
<1>3. CASE b # "requests"
  <2>1. budget'.requests = budget.requests
    BY <1>1, <1>3 DEF Spend
  <2>2. QED BY <1>1, <1>3, <2>1 DEF Serial
<1>4. QED BY <1>2, <1>3

\* A statement belongs to a request that is being served, or is its first.
LEMMA RowsServe ==
  ASSUME RowsBase, RowsNext
  PROVE  /\ Serial \in Nat /\ Serial' \in Nat
         /\ Serial' < Serial \/ (~Quiet /\ Serial' <= Serial)
         /\ UNCHANGED busVars \/ \E e : Emit(e)
<1>1. Serving /\ Serial \in Nat
  BY DEF RowsBase, Serving, Serial
<1>2. ASSUME NEW w \in Workers, NEW p, NEW r, Start(w, p, r) \/ StartAndAnswer(w)
      PROVE  Serial' \in Nat /\ Serial' < Serial
  BY <1>1, <1>2, SpendsOne DEF Start, StartAndAnswer
<1>3. ASSUME NEW w \in Workers, NEW p \in {"save", "trail", "record"}, NEW n,
             Proceed(w, p, n) \/ ProceedFailed(w, p, n)
      PROVE  Serial' \in Nat /\ ~Quiet /\ Serial' <= Serial
  <2>1. ~Quiet
    BY <1>3 DEF Proceed, ProceedFailed, Goto, Quiet
  <2>2. CASE Proceed(w, p, n)
    BY <1>1, <2>1, <2>2 DEF Proceed, Serial
  <2>3. CASE ProceedFailed(w, p, n)
    BY <1>1, <2>1, <2>3, SpendsOne DEF ProceedFailed
  <2>4. QED BY <1>3, <2>2, <2>3
<1>4. ASSUME NEW w \in Workers, NEW h, NEW i, NEW s,
             Insert(w, h, s) \/ Read(w, h, i, s) \/ ReadMissing(w, h, i, s)
             \/ UpdateColumn(w, h, i, s) \/ Delete(w, h, i)
      PROVE  Serial' \in Nat /\ Serial' < Serial /\ UNCHANGED busVars
  <2>1. (\E p, r : Start(w, p, r)) \/ StartAndAnswer(w)
    <3>1. CASE Insert(w, h, s)
      BY <3>1 DEF Insert
    <3>2. CASE Read(w, h, i, s) \/ ReadMissing(w, h, i, s)
      BY <3>2 DEF Read, ReadMissing
    <3>3. CASE UpdateColumn(w, h, i, s) \/ Delete(w, h, i)
      BY <3>3 DEF UpdateColumn, Delete
    <3>4. QED BY <1>4, <3>1, <3>2, <3>3
  <2>2. UNCHANGED busVars
    BY <1>4 DEF Insert, Read, ReadMissing, UpdateColumn, Delete
  <2>3. QED BY <1>2, <2>1, <2>2
<1>5. ASSUME NEW w \in Workers,
             Save(w) \/ SaveEmpty(w) \/ SaveFails(w) \/ Record(w) \/ RecordFails(w)
      PROVE  Serial' \in Nat /\ ~Quiet /\ Serial' <= Serial /\ UNCHANGED busVars
  <2>1. \E p \in {"save", "record"} : \E n : Proceed(w, p, n) \/ ProceedFailed(w, p, n)
    BY <1>5 DEF Save, SaveEmpty, SaveFails, Record, RecordFails
  <2>2. UNCHANGED busVars
    BY <1>5 DEF Save, SaveEmpty, SaveFails, Record, RecordFails
  <2>3. QED BY <1>3, <2>1, <2>2
<1>6. ASSUME NEW w \in Workers, Trail(w) \/ TrailFails(w)
      PROVE  /\ Serial' \in Nat /\ ~Quiet /\ Serial' <= Serial
             /\ UNCHANGED busVars \/ \E e : Emit(e)
  <2>1. Announce(w) /\ \E n : Proceed(w, "trail", n) \/ ProceedFailed(w, "trail", n)
    BY <1>6 DEF Trail, TrailFails
  <2>2. UNCHANGED busVars \/ \E e : Emit(e)
    BY <2>1 DEF Announce
  <2>3. QED BY <1>3, <2>1, <2>2
<1>7. \/ \E w \in Workers : \E h, i, s :
           \/ Insert(w, h, s) \/ Read(w, h, i, s) \/ ReadMissing(w, h, i, s)
           \/ UpdateColumn(w, h, i, s) \/ Delete(w, h, i)
      \/ \E w \in Workers : Save(w) \/ SaveEmpty(w) \/ SaveFails(w) \/ Record(w) \/ RecordFails(w)
      \/ \E w \in Workers : Trail(w) \/ TrailFails(w)
  BY Zenon DEF RowsNext
<1>8. QED
  BY <1>1, <1>4, <1>5, <1>6, <1>7

\* Emitting puts the event where its publisher finds it.
LEMMA EmitAccounted ==
  ASSUME EventsAccounted, OnlyEmitted, NEW e, Emit(e)
  PROVE  EventsAccounted' /\ OnlyEmitted'
<1>1. outbox' = outbox \cup {e} /\ emitted' = emitted \cup {e}
      /\ UNCHANGED <<subscribers, inflight, received>>
  BY DEF Emit
<1>2. EventsAccounted'
  BY <1>1 DEF EventsAccounted
<1>3. OnlyEmitted'
  BY <1>1 DEF OnlyEmitted
<1>4. QED BY <1>2, <1>3

\* The goroutines of the bus hand events on and drop none.
LEMMA BusAccounted ==
  ASSUME RowsBase, BusInv, area = "rows", BusNext
  PROVE  EventsAccounted' /\ OnlyEmitted' /\ emitted' = emitted
<1>1. ASSUME Serial = MaxRequests, NEW t \in Topics, NEW h \in Subscribers, Subscribe(t, h)
      PROVE  EventsAccounted' /\ OnlyEmitted' /\ emitted' = emitted
  <2>1. subscribers \subseteq subscribers' /\ UNCHANGED <<outbox, inflight, emitted, received>>
    BY <1>1 DEF Subscribe
  <2>2. Serial \in Nat
    BY DEF RowsBase, Serving, Serial
  <2>3. emitted = {}
    BY <1>1, <2>2 DEF BusInv, ServedLater
  <2>4. EventsAccounted'
    BY <2>1, <2>3 DEF EventsAccounted
  <2>5. OnlyEmitted'
    BY <2>1 DEF BusInv, OnlyEmitted
  <2>6. QED BY <2>1, <2>4, <2>5
<1>2. ASSUME NEW e \in outbox, Publish(e)
      PROVE  EventsAccounted' /\ OnlyEmitted' /\ emitted' = emitted
  <2> DEFINE sent == {<<e, h>> : h \in {h \in Subscribers : <<e.topic, h>> \in subscribers}}
  <2>1. /\ outbox' = outbox \ {e} /\ inflight' = inflight \cup sent
        /\ UNCHANGED <<subscribers, emitted, received>>
    BY <1>2 DEF Publish
  <2>2. \A h \in Subscribers : <<e.topic, h>> \in subscribers => <<e, h>> \in sent
    OBVIOUS
  <2>3. \A d \in sent : d[1] = e /\ <<e.topic, d[2]>> \in subscribers
    <3>1. ASSUME NEW h \in Subscribers PROVE <<e, h>>[1] = e /\ <<e, h>>[2] = h
      OBVIOUS
    <3>2. QED BY <3>1
  <2> HIDE DEF sent
  <2>4. EventsAccounted'
    BY <2>1, <2>2 DEF BusInv, EventsAccounted
  <2>5. OnlyEmitted'
    BY <1>2, <2>1, <2>3 DEF BusInv, OnlyEmitted
  <2>6. QED BY <2>1, <2>4, <2>5
<1>3. ASSUME NEW d \in inflight, Deliver(d)
      PROVE  EventsAccounted' /\ OnlyEmitted' /\ emitted' = emitted
  <2>1. inflight' \cup received' = inflight \cup received /\ UNCHANGED <<subscribers, outbox, emitted>>
    BY <1>3 DEF Deliver
  <2>2. QED BY <2>1 DEF BusInv, EventsAccounted, OnlyEmitted
<1>4. QED BY <1>1, <1>2, <1>3 DEF BusNext

LEMMA BusInvKept == RowsInv /\ BusInv /\ [Next]_processVars => BusInv'
<1> SUFFICES ASSUME RowsInv, BusInv, [Next]_processVars PROVE BusInv'
  OBVIOUS
<1>1. area' = area
  BY RowsSteps
<1>2. CASE Rows
  <2>1. area = "rows" /\ RowsBase /\ RowsNext
    BY <1>2 DEF Rows, RowsInv
  <2>2. /\ Serial \in Nat /\ Serial' \in Nat
        /\ Serial' < Serial \/ (~Quiet /\ Serial' <= Serial)
        /\ UNCHANGED busVars \/ \E e : Emit(e)
    BY <2>1, RowsServe
  <2>3. ServedLater'
    <3>1. Serial <= MaxRequests /\ MaxRequests \in Nat /\ (~Quiet => Serial < MaxRequests)
      BY <2>1, RequestBoundsAssumption DEF BusInv, ServedLater
    <3>2. CASE Serial' < Serial
      <4>1. Serial' < MaxRequests /\ Serial' <= MaxRequests
        BY <2>2, <3>1, <3>2
      <4>2. QED BY <4>1 DEF ServedLater
    <3>3. CASE ~Quiet /\ Serial' <= Serial
      <4>1. Serial < MaxRequests
        BY <3>1, <3>3
      <4>2. Serial' < MaxRequests /\ Serial' <= MaxRequests
        BY <2>2, <3>1, <3>3, <4>1
      <4>3. QED BY <4>2 DEF ServedLater
    <3>4. QED BY <2>2, <3>2, <3>3
  <2>4. EventsAccounted' /\ OnlyEmitted'
    <3>1. CASE UNCHANGED busVars
      BY <3>1 DEF busVars, BusInv, EventsAccounted, OnlyEmitted
    <3>2. CASE \E e : Emit(e)
      BY <3>2, EmitAccounted DEF BusInv
    <3>3. QED BY <2>2, <3>1, <3>2
  <2>5. QED BY <2>3, <2>4 DEF BusInv
<1>3. CASE Bus
  <2>1. area = "rows" /\ RowsBase /\ BusNext
    BY <1>3 DEF Bus, RowsInv
  <2>2. EventsAccounted' /\ OnlyEmitted' /\ emitted' = emitted
    BY <2>1, BusAccounted
  <2>3. UNCHANGED <<pc, budget>>
    BY <2>1 DEF BusNext, requestVars
  <2>4. ServedLater'
    BY <1>1, <2>2, <2>3 DEF BusInv, ServedLater, Quiet, Serial
  <2>5. QED BY <2>2, <2>4 DEF BusInv
<1>4. CASE Market \/ Cache
  <2>1. area # "rows" /\ UNCHANGED busVars
    BY <1>4 DEF Market, Cache
  <2>2. EventsAccounted' /\ OnlyEmitted'
    BY <2>1 DEF busVars, BusInv, EventsAccounted, OnlyEmitted
  <2>3. ServedLater'
    BY <1>1, <2>1 DEF ServedLater
  <2>4. QED BY <2>2, <2>3 DEF BusInv
<1>5. CASE Crash
  <2>1. /\ outbox' = {} /\ inflight' = {} /\ emitted' = {} /\ received' = {}
        /\ CrashRequests
    BY <1>5 DEF Crash, RowsCrash, BusCrash
  <2>2. EventsAccounted' /\ OnlyEmitted'
    BY <2>1 DEF EventsAccounted, OnlyEmitted
  <2>3. Quiet'
    BY <2>1 DEF CrashRequests, Quiet
  <2>4. area = "rows" => Serial' = Serial
    <3> SUFFICES ASSUME area = "rows" PROVE Serial' = Serial
      OBVIOUS
    <3>1. Serving
      BY DEF RowsInv, RowsBase
    <3>2. QED BY <2>1, <3>1, SpendsOne DEF CrashRequests
  <2>5. ServedLater'
    BY <1>1, <2>1, <2>3, <2>4 DEF BusInv, ServedLater
  <2>6. QED BY <2>2, <2>5 DEF BusInv
<1>6. CASE UNCHANGED processVars
  BY <1>6 DEF processVars, busVars, requestVars, BusInv, EventsAccounted, OnlyEmitted, ServedLater, Quiet, Serial
<1>7. QED BY <1>2, <1>3, <1>4, <1>5, <1>6 DEF Next

\* The safety half of EventsReach: until the process crashes no event is lost
\* on its way from the handler that emits it to those that subscribed, and none
\* arrives where it was not sent, for any number of topics, handlers of them,
\* events and goroutines.  What is left to the scheduler is that they run.
THEOREM EventsAccountedCorrect == Spec => [](EventsAccounted /\ OnlyEmitted)
<1>1. Init => BusInv
  <2> SUFFICES ASSUME Init PROVE BusInv
    OBVIOUS
  <2>1. /\ outbox = {} /\ inflight = {} /\ emitted = {} /\ received = {}
        /\ \A w \in Workers : pc[w] = "idle"
        /\ Serial = MaxRequests
    BY DEF Init, BusInit, RequestsInit, Serial
  <2>2. QED
    BY <2>1, RequestBoundsAssumption DEF BusInv, EventsAccounted, OnlyEmitted, ServedLater, Quiet
<1>2. BusInv => EventsAccounted /\ OnlyEmitted
  BY DEF BusInv
<1>3. QED
  BY <1>1, <1>2, BusInvKept, RowsInvHolds, PTL DEF Spec
=============================================================================
