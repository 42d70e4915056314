--------------------------- MODULE OAuthCodeProofs ---------------------------
(***************************************************************************)
(* How often a code can be exchanged, and how often a client that has been *)
(* withdrawn can still get tokens, for any number of clients, codes and    *)
(* requests.  Both count: what has been issued, plus the exchanges that    *)
(* can still issue, stays within what there was to begin with.             *)
(***************************************************************************)
EXTENDS OAuthCode, FiniteSetTheorems, TLAPS

ExchangeSteps == {"code", "mark", "issue"}

\* A request names a client while it is under way, and an authorization also
\* a user and a URI.
Carries(w) ==
  /\ pc[w] \in ExchangeSteps => req[w].client \in Clients
  /\ pc[w] = "create" =>
       req[w].client \in Clients /\ req[w].user \in Users /\ req[w].uri \in Uris

Base == TypeOK /\ \A w \in Workers : Carries(w)

-----------------------------------------------------------------------------
\* The stand-ins have their types, whatever CHOOSE picks.
LEMMA StandIns == NoCode \in AuthorizationCode /\ NoRequest \in Request
<1>1. (CHOOSE c \in Codes : TRUE) \in Codes
  <2>1. \E c \in Codes : TRUE
    BY NamesAssumption
  <2> QED
    BY <2>1
<1>2. NoRequest \in Request
  BY <1>1 DEF NoRequest, Request
<1> QED
  BY <1>2 DEF NoCode, AuthorizationCode

\* A step that spends leaves a typed budget, and never fewer faults.
LEMMA SpendTyped ==
  ASSUME TypeOK, NEW b \in {"requests", "changes", "faults", "crashes"}, Spend(b)
  PROVE  /\ budget' \in [{"requests", "changes", "faults", "crashes"} -> Nat]
         /\ FaultsSoFar' = IF b = "faults" THEN FaultsSoFar + 1 ELSE FaultsSoFar
<1>1. budget[b] \in Nat /\ budget[b] > 0
  BY DEF TypeOK, Spend
<1>2. budget' = [budget EXCEPT ![b] = budget[b] - 1]
  BY DEF Spend
<1>3. budget["faults"] \in Nat /\ MaxFaults \in Nat
  BY BoundsAssumption DEF TypeOK
<1>4. budget' \in [{"requests", "changes", "faults", "crashes"} -> Nat]
  BY <1>1, <1>2 DEF TypeOK
<1>5. budget'["faults"] = IF b = "faults" THEN budget["faults"] - 1 ELSE budget["faults"]
  BY <1>2 DEF TypeOK
<1>6. FaultsSoFar' = MaxFaults - budget'["faults"] /\ FaultsSoFar = MaxFaults - budget["faults"]
  BY DEF FaultsSoFar
<1> QED
  BY <1>3, <1>4, <1>5, <1>6

\* A request that ends carries nothing.
LEMMA FreeBase ==
  ASSUME Base, NEW w \in Workers, Free(w)
  PROVE  /\ pc' \in [Workers -> {"idle", "create", "code", "mark", "issue"}]
         /\ req' \in [Workers -> Request]
         /\ \A v \in Workers : Carries(v)'
<1>1. /\ pc' = [pc EXCEPT ![w] = "idle"] /\ req' = [req EXCEPT ![w] = NoRequest]
      /\ pc \in [Workers -> {"idle", "create", "code", "mark", "issue"}]
      /\ req \in [Workers -> Request]
  BY DEF Free, Base, TypeOK
<1>2. ASSUME NEW v \in Workers PROVE Carries(v)'
  <2>1. CASE v = w
    BY <2>1, <1>1 DEF Carries, ExchangeSteps
  <2>2. CASE v # w
    BY <2>2, <1>1 DEF Carries, Base
  <2> QED
    BY <2>1, <2>2
<1> QED
  BY <1>1, <1>2, StandIns

\* A request that goes on keeps what it carries, or carries what it should.
LEMMA MoveBase ==
  ASSUME Base, NEW w \in Workers,
         NEW at \in {"create", "code", "mark", "issue"}, NEW r \in Request,
         pc' = [pc EXCEPT ![w] = at], req' = [req EXCEPT ![w] = r],
         r.client \in Clients,
         at = "create" => r.user \in Users /\ r.uri \in Uris
  PROVE  /\ pc' \in [Workers -> {"idle", "create", "code", "mark", "issue"}]
         /\ req' \in [Workers -> Request]
         /\ \A v \in Workers : Carries(v)'
<1>1. /\ pc \in [Workers -> {"idle", "create", "code", "mark", "issue"}]
      /\ req \in [Workers -> Request]
  BY DEF Base, TypeOK
<1>2. ASSUME NEW v \in Workers PROVE Carries(v)'
  <2>1. CASE v = w
    <3>1. pc'[v] = at /\ req'[v] = r
      BY <2>1, <1>1
    <3> QED
      BY <3>1 DEF Carries
  <2>2. CASE v # w
    <3>1. pc'[v] = pc[v] /\ req'[v] = req[v]
      BY <2>2, <1>1
    <3> QED
      BY <3>1 DEF Carries, Base
  <2> QED
    BY <2>1, <2>2
<1> QED
  BY <1>1, <1>2

\* The table after a restart is a table of clients.
LEMMA SeededTyped ==
  ASSUME NEW table \in [Clients -> OAuthClient]
  PROVE  Seeded(table) \in [Clients -> OAuthClient]
<1>1. [status |-> "active", uris |-> Uris, secret |-> 0] \in OAuthClient
  BY DEF OAuthClient
<1> QED
  BY <1>1 DEF Seeded

LEMMA InitBase == Init => Base
<1> SUFFICES ASSUME Init PROVE Base
  OBVIOUS
<1>1. [status |-> "none", uris |-> {}, secret |-> 0] \in OAuthClient
  BY DEF OAuthClient
<1>2. clients \in [Clients -> OAuthClient]
  BY <1>1, SeededTyped DEF Init
<1>3. budget \in [{"requests", "changes", "faults", "crashes"} -> Nat]
  BY BoundsAssumption DEF Init
<1>4. /\ codes \in [Codes -> AuthorizationCode] /\ req \in [Workers -> Request]
      /\ pc \in [Workers -> {"idle", "create", "code", "mark", "issue"}]
  BY StandIns DEF Init
<1>5. /\ issued \in [Codes -> Nat] /\ holders \in [Codes -> Nat] /\ owed \in [Clients -> Int]
      /\ users \subseteq Users /\ now \in Nat
      /\ tokens \subseteq Request /\ consents \subseteq Users \X Clients \X Uris
  BY DEF Init
<1>6. TypeOK
  BY <1>2, <1>3, <1>4, <1>5 DEF TypeOK
<1>7. \A w \in Workers : Carries(w)
  BY DEF Init, Carries, ExchangeSteps
<1> QED
  BY <1>6, <1>7 DEF Base

-----------------------------------------------------------------------------
\* The steps of AuthorizeCode keep the types and what requests carry.
LEMMA AuthorizationBase ==
  ASSUME Base, NEW w \in Workers, Authorization(w)
  PROVE  Base'
<1> USE DEF Base
<1>1. ASSUME NEW u \in Users, NEW cl \in Clients, NEW uri \in Uris,
             AuthorizeCode(w, u, cl, uri)
      PROVE  Base'
  <2> DEFINE r == [req[w] EXCEPT !.client = cl, !.user = u, !.uri = uri]
  <2>1. req[w] \in Request /\ req \in [Workers -> Request]
    BY DEF TypeOK
  <2>2. r \in Request /\ r.client = cl /\ r.user = u /\ r.uri = uri
    BY <2>1 DEF Request
  <2>3. req' = [req EXCEPT ![w] = r] /\ pc' = [pc EXCEPT ![w] = "create"]
    BY <1>1 DEF AuthorizeCode
  <2> HIDE DEF r
  <2>4. /\ pc' \in [Workers -> {"idle", "create", "code", "mark", "issue"}]
        /\ req' \in [Workers -> Request] /\ \A v \in Workers : Carries(v)'
    BY <2>2, <2>3, MoveBase
  <2>5. consents' \subseteq Users \X Clients \X Uris
    BY <1>1 DEF AuthorizeCode, TypeOK
  <2>6. budget' \in [{"requests", "changes", "faults", "crashes"} -> Nat]
    BY <1>1, SpendTyped DEF AuthorizeCode
  <2> QED
    BY <1>1, <2>4, <2>5, <2>6 DEF AuthorizeCode, TypeOK
<1>2. ASSUME NEW c \in Codes, AuthorizeCode_Create(w, c) PROVE Base'
  <2> DEFINE code == [client |-> req[w].client, user |-> req[w].user, uri |-> req[w].uri,
                      expires |-> now + CodeLife, used |-> FALSE]
  <2>1. code \in AuthorizationCode
    <3>1. now + CodeLife \in Nat
      BY BoundsAssumption DEF TypeOK
    <3> QED
      BY <1>2, <3>1 DEF AuthorizeCode_Create, Carries, AuthorizationCode
  <2>2. codes' = [codes EXCEPT ![c] = code]
    BY <1>2 DEF AuthorizeCode_Create
  <2> HIDE DEF code
  <2>3. codes' \in [Codes -> AuthorizationCode]
    BY <2>1, <2>2 DEF TypeOK
  <2> QED
    BY <1>2, <2>3, FreeBase DEF AuthorizeCode_Create, TypeOK
<1>3. CASE AuthorizeCode_CreateFails(w)
  <2>1. budget' \in [{"requests", "changes", "faults", "crashes"} -> Nat]
    BY <1>3, SpendTyped DEF AuthorizeCode_CreateFails
  <2> QED
    BY <1>3, <2>1, FreeBase DEF AuthorizeCode_CreateFails, TypeOK
<1> QED
  BY <1>1, <1>2, <1>3 DEF Authorization

\* Marking a code used leaves its other columns alone.
LEMMA MarkedCode ==
  ASSUME Base, NEW w \in Workers, OAuthToken_Mark(w)
  PROVE  /\ codes' \in [Codes -> AuthorizationCode]
         /\ \A c \in Codes :
              /\ codes'[c].client = codes[c].client /\ codes'[c].user = codes[c].user
              /\ codes'[c].uri = codes[c].uri /\ codes'[c].expires = codes[c].expires
              /\ codes'[c].used = (IF c = req[w].code THEN TRUE ELSE codes[c].used)
<1> DEFINE d == req[w].code
           code == [codes[d] EXCEPT !.used = TRUE]
<1>1. d \in Codes /\ codes \in [Codes -> AuthorizationCode]
  BY DEF Base, TypeOK, Request
<1>2. codes' = [codes EXCEPT ![d] = code]
  BY DEF OAuthToken_Mark
<1>3. codes[d] \in AuthorizationCode
  BY <1>1
<1>4. /\ code \in AuthorizationCode /\ code.client = codes[d].client /\ code.user = codes[d].user
      /\ code.uri = codes[d].uri /\ code.expires = codes[d].expires /\ code.used = TRUE
  BY <1>3 DEF AuthorizationCode
<1> HIDE DEF code, d
<1>5. codes' \in [Codes -> AuthorizationCode]
  BY <1>1, <1>2, <1>4
<1>6. \A c \in Codes : codes'[c] = IF c = d THEN code ELSE codes[c]
  BY <1>1, <1>2
<1>7. ASSUME NEW c \in Codes
      PROVE /\ codes'[c].client = codes[c].client /\ codes'[c].user = codes[c].user
            /\ codes'[c].uri = codes[c].uri /\ codes'[c].expires = codes[c].expires
            /\ codes'[c].used = (IF c = d THEN TRUE ELSE codes[c].used)
  <2>1. CASE c = d
    BY <2>1, <1>4, <1>6
  <2>2. CASE c # d
    BY <2>2, <1>6
  <2> QED
    BY <2>1, <2>2
<1> QED
  BY <1>5, <1>7 DEF d

\* The steps of OAuthToken keep the types and what requests carry.
LEMMA ExchangeBase ==
  ASSUME Base, NEW w \in Workers, Exchange(w)
  PROVE  Base'
<1> USE DEF Base
<1>0. req[w] \in Request /\ req \in [Workers -> Request] /\ pc \in [Workers -> {"idle", "create", "code", "mark", "issue"}]
  BY DEF TypeOK
<1>1. ASSUME NEW cl \in Clients, NEW c \in Codes, NEW uri \in Uris, OAuthToken(w, cl, c, uri)
      PROVE  Base'
  <2> DEFINE r == [req[w] EXCEPT !.client = cl, !.uri = uri, !.code = c,
                                 !.secret = clients[cl].secret]
  <2>1. clients[cl].secret \in Nat
    BY DEF TypeOK, OAuthClient
  <2>2. r \in Request /\ r.client = cl
    BY <1>0, <2>1 DEF Request
  <2>3. req' = [req EXCEPT ![w] = r] /\ pc' = [pc EXCEPT ![w] = "code"]
    BY <1>1 DEF OAuthToken
  <2> HIDE DEF r
  <2>4. /\ pc' \in [Workers -> {"idle", "create", "code", "mark", "issue"}]
        /\ req' \in [Workers -> Request] /\ \A v \in Workers : Carries(v)'
    BY <2>2, <2>3, MoveBase
  <2>5. budget' \in [{"requests", "changes", "faults", "crashes"} -> Nat]
    BY <1>1, SpendTyped DEF OAuthToken
  <2> QED
    BY <1>1, <2>4, <2>5 DEF OAuthToken, TypeOK
<1>2. CASE OAuthToken_Code(w)
  <2> DEFINE r == [req[w] EXCEPT !.user = codes[req[w].code].user, !.at = now]
  <2>1. codes[req[w].code].user \in Users \cup {Nobody} /\ now \in Nat
    BY <1>0 DEF TypeOK, AuthorizationCode, Request
  <2>2. r \in Request /\ r.client = req[w].client
    BY <1>0, <2>1 DEF Request
  <2>3. req' = [req EXCEPT ![w] = r] /\ pc' = [pc EXCEPT ![w] = "mark"]
    BY <1>2 DEF OAuthToken_Code
  <2>4. req[w].client \in Clients
    BY <1>2 DEF OAuthToken_Code, Carries, ExchangeSteps
  <2> HIDE DEF r
  <2>5. /\ pc' \in [Workers -> {"idle", "create", "code", "mark", "issue"}]
        /\ req' \in [Workers -> Request] /\ \A v \in Workers : Carries(v)'
    BY <2>2, <2>3, <2>4, MoveBase
  <2> QED
    BY <1>2, <2>5 DEF OAuthToken_Code, TypeOK
<1>3. CASE OAuthToken_Refused(w)
  BY <1>3, FreeBase DEF OAuthToken_Refused, TypeOK
<1>4. CASE OAuthToken_Mark(w)
  <2>1. req[w].client \in Clients /\ req' = [req EXCEPT ![w] = req[w]] /\ pc' = [pc EXCEPT ![w] = "issue"]
    BY <1>0, <1>4 DEF OAuthToken_Mark, Carries, ExchangeSteps
  <2>2. /\ pc' \in [Workers -> {"idle", "create", "code", "mark", "issue"}]
        /\ req' \in [Workers -> Request] /\ \A v \in Workers : Carries(v)'
    BY <1>0, <2>1, MoveBase
  <2>3. Cardinality(Holding(req[w].code)) \in Nat
    BY WorkersAssumption, FS_Subset, FS_CardinalityType DEF Holding
  <2>4. holders' \in [Codes -> Nat]
    BY <1>4, <2>3 DEF OAuthToken_Mark, TypeOK
  <2> QED
    BY <1>4, <2>2, <2>4, MarkedCode DEF OAuthToken_Mark, TypeOK
<1>5. CASE OAuthToken_MarkFails(w)
  <2>1. req[w].client \in Clients /\ req' = [req EXCEPT ![w] = req[w]] /\ pc' = [pc EXCEPT ![w] = "issue"]
    BY <1>0, <1>5 DEF OAuthToken_MarkFails, Carries, ExchangeSteps
  <2>2. /\ pc' \in [Workers -> {"idle", "create", "code", "mark", "issue"}]
        /\ req' \in [Workers -> Request] /\ \A v \in Workers : Carries(v)'
    BY <1>0, <2>1, MoveBase
  <2>3. budget' \in [{"requests", "changes", "faults", "crashes"} -> Nat]
    BY <1>5, SpendTyped DEF OAuthToken_MarkFails
  <2> QED
    BY <1>5, <2>2, <2>3 DEF OAuthToken_MarkFails, TypeOK
<1>6. CASE OAuthToken_Issue(w)
  <2>1. issued' \in [Codes -> Nat]
    <3>1. issued \in [Codes -> Nat] /\ issued' = [issued EXCEPT ![req[w].code] = @ + 1]
      BY <1>6 DEF OAuthToken_Issue, TypeOK
    <3>2. req[w].code \in Codes
      BY <1>0 DEF Request
    <3>3. issued[req[w].code] + 1 \in Nat
      BY <3>1, <3>2
    <3> QED
      BY <3>1, <3>3
  <2>2. owed' \in [Clients -> Int]
    <3>1. /\ owed \in [Clients -> Int]
          /\ owed' = [owed EXCEPT ![req[w].client] = IF Withdrawn(w) THEN @ - 1 ELSE @]
      BY <1>6 DEF OAuthToken_Issue, TypeOK
    <3>2. req[w].client \in Clients
      BY <1>6 DEF OAuthToken_Issue, Carries, ExchangeSteps
    <3>3. owed[req[w].client] \in Int /\ owed[req[w].client] - 1 \in Int
      BY <3>1, <3>2
    <3> QED
      BY <3>1, <3>3
  <2>3. tokens' \subseteq Request
    BY <1>0, <1>6 DEF OAuthToken_Issue, TypeOK
  <2> QED
    BY <1>6, <2>1, <2>2, <2>3, FreeBase DEF OAuthToken_Issue, TypeOK
<1>7. CASE OAuthToken_NoUser(w)
  BY <1>7, FreeBase DEF OAuthToken_NoUser, TypeOK
<1> QED
  BY <1>1, <1>2, <1>3, <1>4, <1>5, <1>6, <1>7 DEF Exchange

\* The console changes no request.
LEMMA ConsoleBase ==
  ASSUME Base, Console
  PROVE  Base'
<1>0. clients \in [Clients -> OAuthClient]
  BY DEF Base, TypeOK
<1>1. ASSUME NEW cl \in Clients, NEW client \in OAuthClient, Change(cl, client),
             owed' = owed \/ owed' = [owed EXCEPT ![cl] = Cardinality(UnderWay(cl))]
      PROVE  Base'
  <2>1. budget' \in [{"requests", "changes", "faults", "crashes"} -> Nat]
    BY <1>1, SpendTyped DEF Change, Base
  <2>2. clients' \in [Clients -> OAuthClient]
    BY <1>0, <1>1 DEF Change
  <2>3. Cardinality(UnderWay(cl)) \in Nat
    BY WorkersAssumption, FS_Subset, FS_CardinalityType DEF UnderWay
  <2>4. owed' \in [Clients -> Int]
    BY <1>1, <2>3 DEF Base, TypeOK
  <2>5. TypeOK'
    BY <1>1, <2>1, <2>2, <2>4 DEF Change, Base, TypeOK
  <2>6. \A w \in Workers : Carries(w)'
    BY <1>1 DEF Change, Base, Carries
  <2> QED
    BY <2>5, <2>6 DEF Base
<1>2. ASSUME NEW cl \in Clients, NEW uris \in SUBSET Uris, CreateOAuthClient(cl, uris)
      PROVE  Base'
  <2>1. [status |-> "active", uris |-> uris, secret |-> 0] \in OAuthClient
    BY DEF OAuthClient
  <2> QED
    BY <1>1, <1>2, <2>1 DEF CreateOAuthClient
<1>3. ASSUME NEW cl \in Clients, NEW uris \in SUBSET Uris, UpdateOAuthClient(cl, uris)
      PROVE  Base'
  <2>1. [clients[cl] EXCEPT !.uris = uris] \in OAuthClient
    BY <1>0 DEF OAuthClient
  <2> QED
    BY <1>1, <1>3, <2>1 DEF UpdateOAuthClient
<1>4. ASSUME NEW cl \in Clients, RegenerateClientSecret(cl) PROVE Base'
  <2>1. [clients[cl] EXCEPT !.secret = @ + 1] \in OAuthClient
    BY <1>0 DEF OAuthClient
  <2> QED
    BY <1>1, <1>4, <2>1 DEF RegenerateClientSecret, Withdraw
<1>5. ASSUME NEW cl \in Clients, SuspendOAuthClient(cl) PROVE Base'
  <2>1. [clients[cl] EXCEPT !.status = "inactive"] \in OAuthClient
    BY <1>0 DEF OAuthClient
  <2> QED
    BY <1>1, <1>5, <2>1 DEF SuspendOAuthClient, Withdraw
<1>6. ASSUME NEW cl \in Clients, ActivateOAuthClient(cl) PROVE Base'
  <2>1. [clients[cl] EXCEPT !.status = "active"] \in OAuthClient
    BY <1>0 DEF OAuthClient
  <2> QED
    BY <1>1, <1>6, <2>1 DEF ActivateOAuthClient
<1>7. ASSUME NEW cl \in Clients, DeleteOAuthClient(cl) PROVE Base'
  <2>1. [clients[cl] EXCEPT !.status = "deleted"] \in OAuthClient
    BY <1>0 DEF OAuthClient
  <2> QED
    BY <1>1, <1>7, <2>1 DEF DeleteOAuthClient, Withdraw
<1>8. ASSUME NEW u \in Users, DeleteUser(u) PROVE Base'
  <2>1. budget' \in [{"requests", "changes", "faults", "crashes"} -> Nat]
    BY <1>8, SpendTyped DEF DeleteUser, Base
  <2>2. TypeOK'
    BY <1>8, <2>1 DEF DeleteUser, Base, TypeOK
  <2>3. \A w \in Workers : Carries(w)'
    BY <1>8 DEF DeleteUser, Base, Carries
  <2> QED
    BY <2>2, <2>3 DEF Base
<1> QED
  BY <1>2, <1>3, <1>4, <1>5, <1>6, <1>7, <1>8 DEF Console

\* A restart ends every request.
LEMMA RestartBase ==
  ASSUME Base, Restart
  PROVE  Base'
<1>1. budget' \in [{"requests", "changes", "faults", "crashes"} -> Nat]
  BY SpendTyped DEF Restart, Base
<1>2. clients' \in [Clients -> OAuthClient]
  BY SeededTyped DEF Restart, Base, TypeOK
<1>3. /\ pc' \in [Workers -> {"idle", "create", "code", "mark", "issue"}]
      /\ req' \in [Workers -> Request]
  BY StandIns DEF Restart
<1>4. TypeOK'
  BY <1>1, <1>2, <1>3 DEF Restart, Base, TypeOK
<1>5. \A w \in Workers : Carries(w)'
  BY DEF Restart, Carries, ExchangeSteps
<1> QED
  BY <1>4, <1>5 DEF Base

LEMMA NextBase == Base /\ [Next]_vars => Base'
<1> SUFFICES ASSUME Base, [Next]_vars PROVE Base'
  OBVIOUS
<1>1. CASE Tick
  <2>1. now' \in Nat
    BY <1>1 DEF Tick, Base, TypeOK
  <2>2. TypeOK'
    BY <1>1, <2>1 DEF Tick, Base, TypeOK
  <2>3. \A w \in Workers : Carries(w)'
    BY <1>1 DEF Tick, Base, Carries
  <2> QED
    BY <2>2, <2>3 DEF Base
<1>2. CASE UNCHANGED vars
  BY <1>2 DEF vars, Base, TypeOK, Carries
<1> QED
  BY <1>1, <1>2, AuthorizationBase, ExchangeBase, ConsoleBase, RestartBase DEF Next

-----------------------------------------------------------------------------
\* The state of the authorization-code flow keeps its types.
THEOREM TypeCorrect == Spec => []TypeOK
<1>1. Init => Base
  BY InitBase
<1>2. Base /\ [Next]_vars => Base'
  BY NextBase
<1>3. Base => TypeOK
  BY DEF Base
<1> QED
  BY <1>1, <1>2, <1>3, PTL DEF Spec

-----------------------------------------------------------------------------
(* How often a code is exchanged.                                          *)

\* The exchanges that are about to issue tokens on the code.
Issuing(c) == {w \in Workers : pc[w] = "issue" /\ req[w].code = c}

\* Until the code is marked, only failed marks let tokens out; from then on, the
\* exchanges that held it are all there are.
CodeCount(c) ==
  /\ ~codes[c].used => issued[c] + Cardinality(Issuing(c)) <= FaultsSoFar
  /\ codes[c].used => issued[c] + Cardinality(Holding(c)) <= holders[c] + FaultsSoFar

CountInv == Base /\ \A c \in Codes : CodeCount(c)

\* The sets that are counted are finite.
LEMMA Counts ==
  ASSUME NEW S \in SUBSET Workers
  PROVE  IsFiniteSet(S) /\ Cardinality(S) \in Nat
BY WorkersAssumption, FS_Subset, FS_CardinalityType

\* A set of requests that shrinks does not count more.
LEMMA Shrinks ==
  ASSUME NEW S \in SUBSET Workers, NEW T \in SUBSET S
  PROVE  Cardinality(T) <= Cardinality(S)
BY Counts, FS_Subset

\* Where the bounds are numbers.
LEMMA Numbers ==
  ASSUME Base, NEW c \in Codes
  PROVE  /\ issued[c] \in Nat /\ holders[c] \in Nat /\ FaultsSoFar \in Int
         /\ Holding(c) \in SUBSET Workers /\ Issuing(c) \in SUBSET Workers
         /\ Cardinality(Holding(c)) \in Nat /\ Cardinality(Issuing(c)) \in Nat
<1>1. issued[c] \in Nat /\ holders[c] \in Nat /\ budget["faults"] \in Nat
  BY DEF Base, TypeOK
<1>2. FaultsSoFar \in Int
  BY <1>1, BoundsAssumption DEF FaultsSoFar
<1>3. Holding(c) \in SUBSET Workers /\ Issuing(c) \in SUBSET Workers
  BY DEF Holding, Issuing
<1> QED
  BY <1>1, <1>2, <1>3, Counts

\* A step that issues nothing, marks nothing and lets no exchange advance.
LEMMA QuietCount ==
  ASSUME Base, Base', NEW c \in Codes, CodeCount(c),
         issued'[c] = issued[c], holders'[c] = holders[c], codes'[c].used = codes[c].used,
         Holding(c)' \subseteq Holding(c), Issuing(c)' \subseteq Issuing(c),
         FaultsSoFar' >= FaultsSoFar
  PROVE  CodeCount(c)'
<1>1. /\ issued[c] \in Nat /\ holders[c] \in Nat /\ FaultsSoFar \in Int
      /\ Cardinality(Holding(c)) \in Nat /\ Cardinality(Issuing(c)) \in Nat
      /\ Holding(c) \in SUBSET Workers /\ Issuing(c) \in SUBSET Workers
  BY Numbers
<1>2. FaultsSoFar' \in Int
  <2>1. budget'["faults"] \in Nat
    BY DEF Base, TypeOK
  <2> QED
    BY <2>1, BoundsAssumption DEF FaultsSoFar
<1>3. /\ Cardinality(Holding(c)') <= Cardinality(Holding(c))
      /\ Cardinality(Issuing(c)') <= Cardinality(Issuing(c))
  BY <1>1, Shrinks
<1>4. Cardinality(Holding(c)') \in Nat /\ Cardinality(Issuing(c)') \in Nat
  BY <1>1, Counts
<1>5. /\ ~codes[c].used => issued[c] + Cardinality(Issuing(c)) <= FaultsSoFar
      /\ codes[c].used => issued[c] + Cardinality(Holding(c)) <= holders[c] + FaultsSoFar
  BY DEF CodeCount
<1>6. ~codes[c].used => issued[c] + Cardinality(Issuing(c)') <= FaultsSoFar'
  BY <1>1, <1>2, <1>3, <1>4, <1>5
<1>7. codes[c].used => issued[c] + Cardinality(Holding(c)') <= holders[c] + FaultsSoFar'
  BY <1>1, <1>2, <1>3, <1>4, <1>5
<1> QED
  BY <1>6, <1>7 DEF CodeCount

\* A request that ends, or that has only looked its client up, holds no code.
LEMMA LeavesCount ==
  ASSUME Base, NEW w \in Workers, NEW c \in Codes,
         NEW at, at \notin {"mark", "issue"}, NEW r,
         pc' = [pc EXCEPT ![w] = at], req' = [req EXCEPT ![w] = r]
  PROVE  Holding(c)' \subseteq Holding(c) \ {w} /\ Issuing(c)' \subseteq Issuing(c) \ {w}
<1>1. \A v \in Workers : /\ pc'[v] = (IF v = w THEN at ELSE pc[v])
                         /\ req'[v] = (IF v = w THEN r ELSE req[v])
  BY DEF Base, TypeOK
<1> QED
  BY <1>1 DEF Holding, Issuing

LEMMA InitCount == Init => CountInv
<1> SUFFICES ASSUME Init PROVE CountInv
  OBVIOUS
<1>1. ASSUME NEW c \in Codes PROVE CodeCount(c)
  <2>1. codes[c].used = FALSE /\ issued[c] = 0
    BY DEF Init, NoCode
  <2>2. Issuing(c) = {}
    BY DEF Init, Issuing
  <2>3. FaultsSoFar = 0
    BY BoundsAssumption DEF Init, FaultsSoFar
  <2> QED
    BY <2>1, <2>2, <2>3, FS_EmptySet DEF CodeCount
<1> QED
  BY <1>1, InitBase DEF CountInv

\* The steps of AuthorizeCode hold no code and mark none.
LEMMA AuthorizationCount ==
  ASSUME CountInv, Base', NEW w \in Workers, Authorization(w), NEW c \in Codes
  PROVE  CodeCount(c)'
<1>1. /\ CodeCount(c) /\ Base /\ issued' = issued /\ holders' = holders
  BY DEF CountInv, Authorization, AuthorizeCode, AuthorizeCode_Create, AuthorizeCode_CreateFails
<1>2. Holding(c)' \subseteq Holding(c) /\ Issuing(c)' \subseteq Issuing(c)
  <2>1. \E at \in {"idle", "create"}, r \in {req'[w]} :
          pc' = [pc EXCEPT ![w] = at] /\ req' = [req EXCEPT ![w] = r]
    <3>1. w \in DOMAIN req
      BY <1>1 DEF Base, TypeOK
    <3> QED
      BY <3>1 DEF Authorization, AuthorizeCode, AuthorizeCode_Create, AuthorizeCode_CreateFails, Free
  <2> QED
    BY <1>1, <2>1, LeavesCount
<1>3. codes'[c].used = codes[c].used
  <2>1. ASSUME NEW d \in Codes, AuthorizeCode_Create(w, d)
        PROVE  codes'[c].used = codes[c].used
    <3> DEFINE code == [client |-> req[w].client, user |-> req[w].user, uri |-> req[w].uri,
                        expires |-> now + CodeLife, used |-> FALSE]
    <3>1. codes' = [codes EXCEPT ![d] = code] /\ codes[d].used = FALSE
      BY <2>1 DEF AuthorizeCode_Create, NoCode
    <3>2. code.used = FALSE
      OBVIOUS
    <3>3. c \in DOMAIN codes
      BY <1>1 DEF Base, TypeOK
    <3> HIDE DEF code
    <3>4. codes'[c] = IF c = d THEN code ELSE codes[c]
      BY <3>1, <3>3
    <3> QED
      BY <3>1, <3>2, <3>4
  <2> QED
    BY <2>1 DEF Authorization, AuthorizeCode, AuthorizeCode_CreateFails
<1>4. FaultsSoFar' >= FaultsSoFar
  <2>1. FaultsSoFar \in Int
    BY <1>1, Numbers
  <2>2. CASE \E u \in Users, cl \in Clients, uri \in Uris : AuthorizeCode(w, u, cl, uri)
    BY <1>1, <2>1, <2>2, SpendTyped DEF AuthorizeCode, Base
  <2>3. CASE \E d \in Codes : AuthorizeCode_Create(w, d)
    BY <2>1, <2>3 DEF AuthorizeCode_Create, FaultsSoFar
  <2>4. CASE AuthorizeCode_CreateFails(w)
    BY <1>1, <2>1, <2>4, SpendTyped DEF AuthorizeCode_CreateFails, Base
  <2> QED
    BY <2>2, <2>3, <2>4 DEF Authorization
<1> QED
  BY <1>1, <1>2, <1>3, <1>4, QuietCount

\* Marking: what held the code is what may still issue on it.
LEMMA MarkCount ==
  ASSUME CountInv, Base', NEW w \in Workers, OAuthToken_Mark(w), NEW c \in Codes
  PROVE  CodeCount(c)'
<1> DEFINE d == req[w].code
<1>1. /\ CodeCount(c) /\ Base /\ issued' = issued /\ req' = req /\ budget' = budget
      /\ pc[w] = "mark" /\ pc' = [pc EXCEPT ![w] = "issue"]
      /\ holders' = [holders EXCEPT ![d] = IF codes[d].used THEN @ ELSE Cardinality(Holding(d))]
  BY DEF CountInv, OAuthToken_Mark
<1>2. /\ issued[c] \in Nat /\ holders[c] \in Nat /\ FaultsSoFar \in Int
      /\ Cardinality(Holding(c)) \in Nat /\ Cardinality(Issuing(c)) \in Nat
  BY <1>1, Numbers
<1>3. FaultsSoFar' = FaultsSoFar
  BY <1>1 DEF FaultsSoFar
<1>4. \A v \in Workers : pc'[v] = IF v = w THEN "issue" ELSE pc[v]
  BY <1>1 DEF Base, TypeOK
<1>5. Holding(c)' = Holding(c)
  BY <1>1, <1>4 DEF Holding
<1>6. codes'[c].used = IF c = d THEN TRUE ELSE codes[c].used
  BY <1>1, MarkedCode
<1>7. c \in DOMAIN holders
  BY <1>1 DEF Base, TypeOK
<1>8. CASE c # d
  <2>1. Issuing(c)' = Issuing(c)
    BY <1>1, <1>4, <1>8 DEF Issuing
  <2>2. holders'[c] = holders[c]
    BY <1>1, <1>8
  <2> QED
    BY <1>1, <1>3, <1>5, <1>6, <1>8, <2>1, <2>2 DEF CodeCount
<1>9. CASE c = d /\ codes[c].used
  <2>1. holders'[c] = holders[c] /\ codes'[c].used
    BY <1>1, <1>6, <1>7, <1>9
  <2> QED
    BY <1>1, <1>3, <1>5, <1>9, <2>1 DEF CodeCount
<1>10. CASE c = d /\ ~codes[c].used
  <2>1. holders'[c] = Cardinality(Holding(c)) /\ codes'[c].used
    BY <1>1, <1>6, <1>7, <1>10
  <2>2. issued[c] + Cardinality(Issuing(c)) <= FaultsSoFar
    BY <1>1, <1>10 DEF CodeCount
  <2>3. issued[c] + Cardinality(Holding(c)) <= Cardinality(Holding(c)) + FaultsSoFar
    BY <1>2, <2>2
  <2> QED
    BY <1>1, <1>3, <1>5, <2>1, <2>3 DEF CodeCount
<1> QED
  BY <1>8, <1>9, <1>10

\* A mark that fails lets one more exchange out, at the price of one fault.
LEMMA MarkFailsCount ==
  ASSUME CountInv, Base', NEW w \in Workers, OAuthToken_MarkFails(w), NEW c \in Codes
  PROVE  CodeCount(c)'
<1>1. /\ CodeCount(c) /\ Base /\ issued' = issued /\ req' = req /\ holders' = holders
      /\ codes' = codes /\ pc[w] = "mark" /\ pc' = [pc EXCEPT ![w] = "issue"]
      /\ Spend("faults")
  BY DEF CountInv, OAuthToken_MarkFails
<1>2. /\ issued[c] \in Nat /\ holders[c] \in Nat /\ FaultsSoFar \in Int
      /\ Cardinality(Holding(c)) \in Nat /\ Cardinality(Issuing(c)) \in Nat
      /\ Issuing(c) \in SUBSET Workers
  BY <1>1, Numbers
<1>3. FaultsSoFar' = FaultsSoFar + 1
  BY <1>1, SpendTyped DEF Base
<1>4. \A v \in Workers : pc'[v] = IF v = w THEN "issue" ELSE pc[v]
  BY <1>1 DEF Base, TypeOK
<1>5. Holding(c)' = Holding(c)
  BY <1>1, <1>4 DEF Holding
<1>6. Issuing(c)' \subseteq Issuing(c) \cup {w}
  BY <1>1, <1>4 DEF Issuing
<1>7. /\ IsFiniteSet(Issuing(c) \cup {w})
      /\ Cardinality(Issuing(c) \cup {w}) \in Nat
      /\ Cardinality(Issuing(c) \cup {w}) <= Cardinality(Issuing(c)) + 1
  BY <1>2, Counts, FS_AddElement
<1>8. /\ Cardinality(Issuing(c)') \in Nat
      /\ Cardinality(Issuing(c)') <= Cardinality(Issuing(c) \cup {w})
  BY <1>6, <1>7, FS_Subset, FS_CardinalityType
<1>9. ASSUME ~codes[c].used PROVE issued[c] + Cardinality(Issuing(c)') <= FaultsSoFar + 1
  <2>1. issued[c] + Cardinality(Issuing(c)) <= FaultsSoFar
    BY <1>1, <1>9 DEF CodeCount
  <2> QED
    BY <1>2, <1>7, <1>8, <2>1
<1>10. ASSUME codes[c].used
       PROVE  issued[c] + Cardinality(Holding(c)) <= holders[c] + (FaultsSoFar + 1)
  <2>1. issued[c] + Cardinality(Holding(c)) <= holders[c] + FaultsSoFar
    BY <1>1, <1>10 DEF CodeCount
  <2> QED
    BY <1>2, <2>1
<1> QED
  BY <1>1, <1>3, <1>5, <1>9, <1>10 DEF CodeCount

\* Issuing: one more out, one less to come.
LEMMA IssueCount ==
  ASSUME CountInv, Base', NEW w \in Workers, OAuthToken_Issue(w), NEW c \in Codes
  PROVE  CodeCount(c)'
<1> DEFINE d == req[w].code
<1>1. /\ CodeCount(c) /\ Base /\ issued' = [issued EXCEPT ![d] = @ + 1]
      /\ holders' = holders /\ codes' = codes /\ budget' = budget
      /\ pc[w] = "issue" /\ pc' = [pc EXCEPT ![w] = "idle"] /\ req' = [req EXCEPT ![w] = NoRequest]
  BY DEF CountInv, OAuthToken_Issue, Free
<1>2. /\ issued[c] \in Nat /\ holders[c] \in Nat /\ FaultsSoFar \in Int
      /\ Cardinality(Holding(c)) \in Nat /\ Cardinality(Issuing(c)) \in Nat
      /\ Holding(c) \in SUBSET Workers /\ Issuing(c) \in SUBSET Workers
  BY <1>1, Numbers
<1>3. FaultsSoFar' = FaultsSoFar
  BY <1>1 DEF FaultsSoFar
<1>4. Holding(c)' \subseteq Holding(c) \ {w} /\ Issuing(c)' \subseteq Issuing(c) \ {w}
  BY <1>1, LeavesCount
<1>5. CASE c # d
  <2>1. issued'[c] = issued[c]
    BY <1>1, <1>5 DEF Base, TypeOK
  <2>2. FaultsSoFar' >= FaultsSoFar
    BY <1>2, <1>3
  <2> QED
    BY <1>1, <1>4, <2>1, <2>2, QuietCount
<1>6. CASE c = d
  <2>1. issued'[c] = issued[c] + 1
    BY <1>1, <1>6 DEF Base, TypeOK
  <2>2. w \in Holding(c) /\ w \in Issuing(c)
    BY <1>1, <1>6 DEF Holding, Issuing
  <2>3. /\ Cardinality(Holding(c) \ {w}) = Cardinality(Holding(c)) - 1
        /\ Cardinality(Issuing(c) \ {w}) = Cardinality(Issuing(c)) - 1
    BY <1>2, <2>2, Counts, FS_RemoveElement
  <2>4. /\ Cardinality(Holding(c)') \in Nat /\ Cardinality(Issuing(c)') \in Nat
        /\ Cardinality(Holding(c)') <= Cardinality(Holding(c) \ {w})
        /\ Cardinality(Issuing(c)') <= Cardinality(Issuing(c) \ {w})
    <3>1. Holding(c) \ {w} \in SUBSET Workers /\ Issuing(c) \ {w} \in SUBSET Workers
      BY <1>2
    <3>2. Holding(c)' \in SUBSET Workers /\ Issuing(c)' \in SUBSET Workers
      BY <1>4, <3>1
    <3> QED
      BY <1>4, <3>1, <3>2, Counts, Shrinks
  <2>5. ASSUME ~codes[c].used
        PROVE  (issued[c] + 1) + Cardinality(Issuing(c)') <= FaultsSoFar
    <3>1. issued[c] + Cardinality(Issuing(c)) <= FaultsSoFar
      BY <1>1, <2>5 DEF CodeCount
    <3> QED
      BY <1>2, <2>3, <2>4, <3>1
  <2>6. ASSUME codes[c].used
        PROVE  (issued[c] + 1) + Cardinality(Holding(c)') <= holders[c] + FaultsSoFar
    <3>1. issued[c] + Cardinality(Holding(c)) <= holders[c] + FaultsSoFar
      BY <1>1, <2>6 DEF CodeCount
    <3> QED
      BY <1>2, <2>3, <2>4, <3>1
  <2> QED
    BY <1>1, <1>3, <2>1, <2>5, <2>6 DEF CodeCount
<1> QED
  BY <1>5, <1>6

\* An exchange finds only a code that has not been marked.
LEMMA CodeStepCount ==
  ASSUME CountInv, Base', NEW w \in Workers, OAuthToken_Code(w), NEW c \in Codes
  PROVE  CodeCount(c)'
<1>1. /\ CodeCount(c) /\ Base /\ issued' = issued /\ holders' = holders /\ codes' = codes
      /\ budget' = budget /\ ~codes[req[w].code].used
      /\ pc[w] = "code" /\ pc' = [pc EXCEPT ![w] = "mark"]
  BY DEF CountInv, OAuthToken_Code, Exchangeable
<1>2. FaultsSoFar' = FaultsSoFar
  BY <1>1 DEF FaultsSoFar
<1>3. \A v \in Workers : pc'[v] = IF v = w THEN "mark" ELSE pc[v]
  BY <1>1 DEF Base, TypeOK
<1>4. \A v \in Workers : req'[v].code = req[v].code
  <2> DEFINE r == [req[w] EXCEPT !.user = codes[req[w].code].user, !.at = now]
  <2>1. req[w] \in Request /\ req \in [Workers -> Request]
    BY <1>1 DEF Base, TypeOK
  <2>2. r.code = req[w].code
    BY <2>1 DEF Request
  <2>3. req' = [req EXCEPT ![w] = r]
    BY DEF OAuthToken_Code
  <2> HIDE DEF r
  <2>4. \A v \in Workers : req'[v] = IF v = w THEN r ELSE req[v]
    BY <2>1, <2>3
  <2> QED
    BY <2>2, <2>4
<1>5. Issuing(c)' = Issuing(c)
  BY <1>1, <1>3, <1>4 DEF Issuing
<1>6. codes[c].used => Holding(c)' = Holding(c)
  BY <1>1, <1>3, <1>4 DEF Holding
<1> QED
  BY <1>1, <1>2, <1>5, <1>6 DEF CodeCount

\* The steps of OAuthToken keep the count.
LEMMA ExchangeCount ==
  ASSUME CountInv, Base', NEW w \in Workers, Exchange(w), NEW c \in Codes
  PROVE  CodeCount(c)'
<1>1. Base /\ CodeCount(c) /\ FaultsSoFar \in Int
  BY Numbers DEF CountInv
<1>2. ASSUME NEW cl \in Clients, NEW d \in Codes, NEW uri \in Uris, OAuthToken(w, cl, d, uri)
      PROVE  CodeCount(c)'
  <2>1. Holding(c)' \subseteq Holding(c) /\ Issuing(c)' \subseteq Issuing(c)
    <3> DEFINE r == [req[w] EXCEPT !.client = cl, !.uri = uri, !.code = d,
                                   !.secret = clients[cl].secret]
    <3>1. pc' = [pc EXCEPT ![w] = "code"] /\ req' = [req EXCEPT ![w] = r]
      BY <1>2 DEF OAuthToken
    <3> HIDE DEF r
    <3> QED
      BY <1>1, <3>1, LeavesCount
  <2>2. FaultsSoFar' >= FaultsSoFar
    BY <1>1, <1>2, SpendTyped DEF OAuthToken, Base
  <2> QED
    BY <1>1, <1>2, <2>1, <2>2, QuietCount DEF OAuthToken
<1>3. CASE OAuthToken_Refused(w) \/ OAuthToken_NoUser(w)
  <2>1. Holding(c)' \subseteq Holding(c) /\ Issuing(c)' \subseteq Issuing(c)
    BY <1>1, <1>3, LeavesCount DEF OAuthToken_Refused, OAuthToken_NoUser, Free
  <2>2. FaultsSoFar' >= FaultsSoFar
    BY <1>1, <1>3 DEF OAuthToken_Refused, OAuthToken_NoUser, FaultsSoFar
  <2> QED
    BY <1>1, <1>3, <2>1, <2>2, QuietCount DEF OAuthToken_Refused, OAuthToken_NoUser
<1> QED
  BY <1>2, <1>3, CodeStepCount, MarkCount, MarkFailsCount, IssueCount DEF Exchange

LEMMA NextCount == CountInv /\ [Next]_vars => CountInv'
<1> SUFFICES ASSUME CountInv, [Next]_vars, NEW c \in Codes PROVE CodeCount(c)'
  BY NextBase DEF CountInv
<1>1. Base' /\ Base /\ CodeCount(c) /\ FaultsSoFar \in Int
  BY NextBase, Numbers DEF CountInv
<1>2. CASE \E w \in Workers : Authorization(w) \/ Exchange(w)
  BY <1>1, <1>2, AuthorizationCount, ExchangeCount
<1>3. CASE Console
  <2>1. /\ pc' = pc /\ req' = req /\ issued' = issued /\ holders' = holders /\ codes' = codes
        /\ Spend("changes")
    BY <1>3 DEF Console, Change, Withdraw, CreateOAuthClient, UpdateOAuthClient,
                RegenerateClientSecret, SuspendOAuthClient, ActivateOAuthClient,
                DeleteOAuthClient, DeleteUser
  <2>2. FaultsSoFar' >= FaultsSoFar
    BY <1>1, <2>1, SpendTyped DEF Base
  <2> QED
    BY <1>1, <2>1, <2>2, QuietCount DEF Holding, Issuing
<1>4. CASE Restart
  <2>1. FaultsSoFar' >= FaultsSoFar
    BY <1>1, <1>4, SpendTyped DEF Restart, Base
  <2>2. Holding(c)' = {} /\ Issuing(c)' = {}
    BY <1>4 DEF Restart, Holding, Issuing
  <2> QED
    BY <1>1, <1>4, <2>1, <2>2, QuietCount DEF Restart
<1>5. CASE Tick \/ UNCHANGED vars
  BY <1>1, <1>5 DEF Tick, vars, CodeCount, Holding, Issuing, FaultsSoFar
<1> QED
  BY <1>2, <1>3, <1>4, <1>5 DEF Next

\* A code yields at most the token pairs of the exchanges that held it when it
\* was marked used, plus one for each failed statement, for any number of
\* requests at a time.
THEOREM SingleUseBoundCorrect == Spec => []SingleUseBound
<1>1. Init => CountInv
  BY InitCount
<1>2. CountInv /\ [Next]_vars => CountInv'
  BY NextCount
<1>3. CountInv => SingleUseBound
  <2> SUFFICES ASSUME CountInv, NEW c \in Codes PROVE issued[c] <= holders[c] + FaultsSoFar
    BY DEF SingleUseBound
  <2>1. CodeCount(c) /\ Base
    BY DEF CountInv
  <2>2. /\ issued[c] \in Nat /\ holders[c] \in Nat /\ FaultsSoFar \in Int
        /\ Cardinality(Holding(c)) \in Nat /\ Cardinality(Issuing(c)) \in Nat
    BY <2>1, Numbers
  <2> QED
    BY <2>1, <2>2 DEF CodeCount
<1> QED
  BY <1>1, <1>2, <1>3, PTL DEF Spec

\* Every code is held by one exchange at a time.
OneHolder == \A c \in Codes : \A v, w \in Holding(c) : v = w

\* No code yields more than one token pair, but for statements that failed.
UsedOnce == \A c \in Codes : issued[c] <= 1 + FaultsSoFar

\* What SingleUseBound leaves open is the exchanges that overlap on a code and
\* no more: if each exchange looked a code up and marked it before the next
\* one did, a code would be exchanged once, apart from failed statements.
THEOREM SerialisedUsedOnce == Spec /\ []OneHolder => []UsedOnce
<1> DEFINE OneHeld == \A c \in Codes : holders[c] <= 1
<1>1. Init => OneHeld
  BY DEF Init
<1>2. CountInv /\ OneHolder /\ OneHeld /\ [Next]_vars => OneHeld'
  <2> SUFFICES ASSUME CountInv, OneHolder, OneHeld, [Next]_vars, NEW c \in Codes
               PROVE  holders'[c] <= 1
    OBVIOUS
  <2>1. holders[c] <= 1 /\ holders \in [Codes -> Nat]
    BY DEF CountInv, Base, TypeOK
  <2>2. Cardinality(Holding(c)) <= 1
    <3>1. CASE Holding(c) = {}
      BY <3>1, FS_EmptySet
    <3>2. CASE Holding(c) # {}
      <4>1. PICK w \in Holding(c) : TRUE
        BY <3>2
      <4>2. Holding(c) = {w}
        BY <4>1 DEF OneHolder
      <4>3. Cardinality({w}) = 1
        BY FS_Singleton
      <4>4. QED BY <4>2, <4>3
    <3>3. QED BY <3>1, <3>2
  <2>3. ASSUME NEW w \in Workers, OAuthToken_Mark(w)
        PROVE  holders'[c] <= 1
    <3>1. \/ holders'[c] = holders[c]
          \/ holders'[c] = Cardinality(Holding(c))
      BY <2>1, <2>3 DEF OAuthToken_Mark
    <3>2. QED BY <2>1, <2>2, <3>1
  <2>4. CASE UNCHANGED holders
    BY <2>1, <2>4
  <2>5. (\E w \in Workers : OAuthToken_Mark(w)) \/ UNCHANGED holders
    <3>1. ASSUME NEW w \in Workers, Authorization(w)
          PROVE  UNCHANGED holders
      BY <3>1 DEF Authorization, AuthorizeCode, AuthorizeCode_Create, AuthorizeCode_CreateFails
    <3>2. ASSUME NEW w \in Workers, Exchange(w)
          PROVE  OAuthToken_Mark(w) \/ UNCHANGED holders
      BY <3>2 DEF Exchange, OAuthToken, OAuthToken_Code, OAuthToken_Refused,
         OAuthToken_MarkFails, OAuthToken_Issue, OAuthToken_NoUser
    <3>3. ASSUME Console
          PROVE  UNCHANGED holders
      BY <3>3 DEF Console, CreateOAuthClient, UpdateOAuthClient, RegenerateClientSecret,
         SuspendOAuthClient, ActivateOAuthClient, DeleteOAuthClient, DeleteUser, Change, Withdraw
    <3>4. CASE Restart \/ Tick \/ UNCHANGED vars
      BY <3>4 DEF Restart, Tick, vars
    <3>5. QED BY <3>1, <3>2, <3>3, <3>4 DEF Next
  <2>6. QED BY <2>3, <2>4, <2>5
<1>3. CountInv /\ SingleUseBound /\ OneHeld => UsedOnce
  <2> SUFFICES ASSUME CountInv, SingleUseBound, OneHeld, NEW c \in Codes
               PROVE  issued[c] <= 1 + FaultsSoFar
    BY DEF UsedOnce
  <2>1. issued[c] \in Nat /\ holders[c] \in Nat /\ FaultsSoFar \in Int
    BY Numbers DEF CountInv
  <2>2. issued[c] <= holders[c] + FaultsSoFar /\ holders[c] <= 1
    BY DEF SingleUseBound
  <2>3. QED BY <2>1, <2>2
<1>4. Spec => []CountInv
  BY InitCount, NextCount, PTL DEF Spec
<1> HIDE DEF OneHeld
<1>5. QED
  BY <1>1, <1>2, <1>3, <1>4, SingleUseBoundCorrect, PTL DEF Spec

-----------------------------------------------------------------------------
(* What a withdrawn client can still get.                                  *)

\* The exchanges under way on credentials that have been withdrawn.
Outdated(cl) == {w \in UnderWay(cl) : Withdrawn(w)}

OwedInv == Base /\ \A cl \in Clients : Cardinality(Outdated(cl)) <= owed[cl]

LEMMA InitOwed == Init => OwedInv
<1> SUFFICES ASSUME Init, NEW cl \in Clients PROVE Cardinality(Outdated(cl)) <= owed[cl]
  BY InitBase DEF OwedInv
<1>1. Outdated(cl) = {}
  BY DEF Init, Outdated, UnderWay
<1> QED
  BY <1>1, FS_EmptySet DEF Init

\* A step that issues nothing and adds no outdated exchange.
LEMMA QuietOwed ==
  ASSUME OwedInv, NEW cl \in Clients, owed'[cl] = owed[cl],
         Outdated(cl)' \subseteq Outdated(cl)
  PROVE  Cardinality(Outdated(cl)') <= owed'[cl]
<1>1. Outdated(cl) \in SUBSET Workers
  BY DEF Outdated, UnderWay
<1>2. Cardinality(Outdated(cl)') <= Cardinality(Outdated(cl))
  BY <1>1, Shrinks
<1>3. Cardinality(Outdated(cl)') \in Nat /\ Cardinality(Outdated(cl)) \in Nat
  BY <1>1, Counts
<1>4. owed[cl] \in Int /\ Cardinality(Outdated(cl)) <= owed[cl]
  BY DEF OwedInv, Base, TypeOK
<1> QED
  BY <1>2, <1>3, <1>4

\* A request that ends is no longer under way.
LEMMA EndsOwed ==
  ASSUME Base, NEW w \in Workers, NEW cl \in Clients, clients' = clients,
         NEW at, at \notin ExchangeSteps, NEW r,
         pc' = [pc EXCEPT ![w] = at], req' = [req EXCEPT ![w] = r]
  PROVE  Outdated(cl)' \subseteq Outdated(cl) \ {w}
<1>1. \A v \in Workers : /\ pc'[v] = (IF v = w THEN at ELSE pc[v])
                         /\ req'[v] = (IF v = w THEN r ELSE req[v])
  BY DEF Base, TypeOK
<1> QED
  BY <1>1 DEF Outdated, UnderWay, Withdrawn, ExchangeSteps

\* A request that stays under way with the credentials it has.
LEMMA AdvancesOwed ==
  ASSUME Base, NEW w \in Workers, NEW cl \in Clients, clients' = clients,
         NEW at \in ExchangeSteps, pc[w] \in ExchangeSteps, pc' = [pc EXCEPT ![w] = at],
         \A v \in Workers : req'[v].client = req[v].client /\ req'[v].secret = req[v].secret
  PROVE  Outdated(cl)' \subseteq Outdated(cl)
<1>1. \A v \in Workers : pc'[v] = (IF v = w THEN at ELSE pc[v])
  BY DEF Base, TypeOK
<1> QED
  BY <1>1 DEF Outdated, UnderWay, Withdrawn, ExchangeSteps

\* Only an exchange that issues on withdrawn credentials pays.
LEMMA IssueOwed ==
  ASSUME OwedInv, NEW w \in Workers, OAuthToken_Issue(w), NEW cl \in Clients
  PROVE  Cardinality(Outdated(cl)') <= owed'[cl]
<1> DEFINE d == req[w].client
<1>1. /\ Base /\ clients' = clients /\ pc[w] = "issue"
      /\ owed' = [owed EXCEPT ![d] = IF Withdrawn(w) THEN @ - 1 ELSE @]
      /\ pc' = [pc EXCEPT ![w] = "idle"] /\ req' = [req EXCEPT ![w] = NoRequest]
  BY DEF OwedInv, OAuthToken_Issue, Free
<1>2. Outdated(cl)' \subseteq Outdated(cl) \ {w}
  BY <1>1, EndsOwed DEF ExchangeSteps
<1>3. owed \in [Clients -> Int] /\ Outdated(cl) \in SUBSET Workers
  BY <1>1 DEF Base, TypeOK, Outdated, UnderWay
<1>4. CASE cl # d \/ ~Withdrawn(w)
  <2>1. owed'[cl] = owed[cl]
    BY <1>1, <1>3, <1>4
  <2> QED
    BY <1>2, <2>1, QuietOwed
<1>5. CASE cl = d /\ Withdrawn(w)
  <2>1. w \in Outdated(cl)
    BY <1>1, <1>5 DEF Outdated, UnderWay
  <2>2. owed'[cl] = owed[cl] - 1
    BY <1>1, <1>3, <1>5
  <2>3. Cardinality(Outdated(cl) \ {w}) = Cardinality(Outdated(cl)) - 1
    BY <1>3, <2>1, Counts, FS_RemoveElement
  <2>4. Outdated(cl) \ {w} \in SUBSET Workers /\ Outdated(cl)' \in SUBSET Workers
    BY <1>2, <1>3
  <2>5. /\ Cardinality(Outdated(cl)') <= Cardinality(Outdated(cl) \ {w})
        /\ Cardinality(Outdated(cl)') \in Nat /\ Cardinality(Outdated(cl)) \in Nat
    BY <1>2, <1>3, <2>4, Counts, Shrinks
  <2>6. Cardinality(Outdated(cl)) <= owed[cl] /\ owed[cl] \in Int
    BY <1>3 DEF OwedInv
  <2> QED
    BY <2>2, <2>3, <2>5, <2>6
<1> QED
  BY <1>4, <1>5

\* The requests' steps.
LEMMA RequestOwed ==
  ASSUME OwedInv, NEW w \in Workers, Authorization(w) \/ Exchange(w), NEW cl \in Clients
  PROVE  Cardinality(Outdated(cl)') <= owed'[cl]
<1>1. Base /\ req \in [Workers -> Request]
  BY DEF OwedInv, Base, TypeOK
<1>2. CASE Authorization(w)
  <2>1. \E at \in {"idle", "create"}, r \in {req'[w]} :
          pc' = [pc EXCEPT ![w] = at] /\ req' = [req EXCEPT ![w] = r]
    BY <1>1, <1>2 DEF Authorization, AuthorizeCode, AuthorizeCode_Create,
                      AuthorizeCode_CreateFails, Free
  <2>2. clients' = clients /\ owed' = owed
    BY <1>2 DEF Authorization, AuthorizeCode, AuthorizeCode_Create, AuthorizeCode_CreateFails
  <2>3. Outdated(cl)' \subseteq Outdated(cl) \ {w}
    BY <1>1, <2>1, <2>2, EndsOwed DEF ExchangeSteps
  <2> QED
    BY <2>2, <2>3, QuietOwed
<1>3. ASSUME NEW d \in Clients, NEW c \in Codes, NEW uri \in Uris, OAuthToken(w, d, c, uri)
      PROVE  Cardinality(Outdated(cl)') <= owed'[cl]
  <2> DEFINE r == [req[w] EXCEPT !.client = d, !.uri = uri, !.code = c,
                                 !.secret = clients[d].secret]
  <2>1. r.client = d /\ r.secret = clients[d].secret
    BY <1>1 DEF Request
  <2>2. req' = [req EXCEPT ![w] = r] /\ clients' = clients /\ owed' = owed
        /\ clients[d].status = "active" /\ pc' = [pc EXCEPT ![w] = "code"] /\ pc[w] = "idle"
    BY <1>3 DEF OAuthToken
  <2> HIDE DEF r
  <2>3. \A v \in Workers : /\ req'[v] = (IF v = w THEN r ELSE req[v])
                           /\ pc'[v] = (IF v = w THEN "code" ELSE pc[v])
    BY <1>1, <2>2 DEF Base, TypeOK
  <2>4. ~Withdrawn(w)'
    BY <2>1, <2>2, <2>3 DEF Withdrawn
  <2>5. Outdated(cl)' \subseteq Outdated(cl)
    BY <2>2, <2>3, <2>4 DEF Outdated, UnderWay, Withdrawn
  <2> QED
    BY <2>2, <2>5, QuietOwed
<1>4. CASE OAuthToken_Refused(w) \/ OAuthToken_NoUser(w)
  <2>1. Outdated(cl)' \subseteq Outdated(cl) \ {w}
    BY <1>1, <1>4, EndsOwed DEF OAuthToken_Refused, OAuthToken_NoUser, Free, ExchangeSteps
  <2> QED
    BY <1>4, <2>1, QuietOwed DEF OAuthToken_Refused, OAuthToken_NoUser
<1>5. CASE OAuthToken_Code(w)
  <2> DEFINE r == [req[w] EXCEPT !.user = codes[req[w].code].user, !.at = now]
  <2>1. r.client = req[w].client /\ r.secret = req[w].secret
    BY <1>1 DEF Request
  <2>2. req' = [req EXCEPT ![w] = r]
    BY <1>5 DEF OAuthToken_Code
  <2> HIDE DEF r
  <2>3. \A v \in Workers : req'[v].client = req[v].client /\ req'[v].secret = req[v].secret
    BY <1>1, <2>1, <2>2
  <2>4. Outdated(cl)' \subseteq Outdated(cl)
    BY <1>1, <1>5, <2>3, AdvancesOwed DEF OAuthToken_Code, ExchangeSteps
  <2> QED
    BY <1>5, <2>4, QuietOwed DEF OAuthToken_Code
<1>6. CASE OAuthToken_Mark(w) \/ OAuthToken_MarkFails(w)
  <2>1. Outdated(cl)' \subseteq Outdated(cl)
    BY <1>1, <1>6, AdvancesOwed DEF OAuthToken_Mark, OAuthToken_MarkFails, ExchangeSteps
  <2> QED
    BY <1>6, <2>1, QuietOwed DEF OAuthToken_Mark, OAuthToken_MarkFails
<1> QED
  BY <1>2, <1>3, <1>4, <1>5, <1>6, IssueOwed DEF Exchange

\* The console: what a withdrawal leaves under way is what is owed.
LEMMA ConsoleOwed ==
  ASSUME OwedInv, Console, NEW cl \in Clients
  PROVE  Cardinality(Outdated(cl)') <= owed'[cl]
<1>1. Base /\ clients \in [Clients -> OAuthClient] /\ owed \in [Clients -> Int]
  BY DEF OwedInv, Base, TypeOK
<1>2. ASSUME NEW d \in Clients, NEW client \in OAuthClient, Withdraw(d, client)
      PROVE  Cardinality(Outdated(cl)') <= owed'[cl]
  <2>1. /\ clients' = [clients EXCEPT ![d] = client] /\ pc' = pc /\ req' = req
        /\ owed' = [owed EXCEPT ![d] = Cardinality(UnderWay(d))]
    BY <1>2 DEF Withdraw, Change
  <2>2. CASE cl = d
    <3>1. Outdated(cl)' \subseteq UnderWay(cl) /\ UnderWay(cl) \in SUBSET Workers
      BY <2>1 DEF Outdated, UnderWay
    <3>2. Cardinality(Outdated(cl)') <= Cardinality(UnderWay(cl))
      BY <3>1, Shrinks
    <3> QED
      BY <1>1, <2>1, <2>2, <3>2
  <2>3. CASE cl # d
    <3>1. Outdated(cl)' = Outdated(cl)
      BY <1>1, <2>1, <2>3 DEF Outdated, UnderWay, Withdrawn
    <3> QED
      BY <2>1, <2>3, <3>1, QuietOwed
  <2> QED
    BY <2>2, <2>3
<1>3. ASSUME NEW d \in Clients, NEW client \in OAuthClient, Change(d, client), owed' = owed,
             \/ client.status = "active"
             \/ client.status = clients[d].status,
             client.secret = clients[d].secret \/ clients[d].status # "active"
      PROVE  Cardinality(Outdated(cl)') <= owed'[cl]
  <2>1. clients' = [clients EXCEPT ![d] = client] /\ pc' = pc /\ req' = req
    BY <1>3 DEF Change
  <2>2. Outdated(cl)' \subseteq Outdated(cl)
    <3>1. \A e \in Clients : clients'[e] = IF e = d THEN client ELSE clients[e]
      BY <1>1, <2>1
    <3>2. ASSUME NEW v \in UnderWay(cl), Withdrawn(v)' PROVE Withdrawn(v)
      BY <1>3, <2>1, <3>1, <3>2 DEF Withdrawn, UnderWay
    <3> QED
      BY <2>1, <3>2 DEF Outdated, UnderWay
  <2> QED
    BY <1>3, <2>2, QuietOwed
<1>4. ASSUME NEW d \in Clients, NEW uris \in SUBSET Uris, CreateOAuthClient(d, uris)
      PROVE  Cardinality(Outdated(cl)') <= owed'[cl]
  <2>1. [status |-> "active", uris |-> uris, secret |-> 0] \in OAuthClient
    BY DEF OAuthClient
  <2> QED
    BY <1>3, <1>4, <2>1 DEF CreateOAuthClient
<1>5. ASSUME NEW d \in Clients, NEW uris \in SUBSET Uris, UpdateOAuthClient(d, uris)
      PROVE  Cardinality(Outdated(cl)') <= owed'[cl]
  <2> DEFINE client == [clients[d] EXCEPT !.uris = uris]
  <2>1. /\ client \in OAuthClient /\ client.status = clients[d].status
        /\ client.secret = clients[d].secret
    BY <1>1 DEF OAuthClient
  <2>2. Change(d, client) /\ owed' = owed
    BY <1>5 DEF UpdateOAuthClient
  <2> HIDE DEF client
  <2> QED
    BY <1>3, <2>1, <2>2
<1>6. ASSUME NEW d \in Clients, ActivateOAuthClient(d)
      PROVE  Cardinality(Outdated(cl)') <= owed'[cl]
  <2> DEFINE client == [clients[d] EXCEPT !.status = "active"]
  <2>1. client \in OAuthClient /\ client.status = "active" /\ client.secret = clients[d].secret
    BY <1>1 DEF OAuthClient
  <2>2. Change(d, client) /\ owed' = owed
    BY <1>6 DEF ActivateOAuthClient
  <2> HIDE DEF client
  <2> QED
    BY <1>3, <2>1, <2>2
<1>7. ASSUME NEW d \in Clients,
             RegenerateClientSecret(d) \/ SuspendOAuthClient(d) \/ DeleteOAuthClient(d)
      PROVE  Cardinality(Outdated(cl)') <= owed'[cl]
  <2>1. /\ [clients[d] EXCEPT !.secret = @ + 1] \in OAuthClient
        /\ [clients[d] EXCEPT !.status = "inactive"] \in OAuthClient
        /\ [clients[d] EXCEPT !.status = "deleted"] \in OAuthClient
    BY <1>1 DEF OAuthClient
  <2> QED
    BY <1>2, <1>7, <2>1 DEF RegenerateClientSecret, SuspendOAuthClient, DeleteOAuthClient
<1>8. ASSUME NEW u \in Users, DeleteUser(u)
      PROVE  Cardinality(Outdated(cl)') <= owed'[cl]
  <2>1. owed' = owed /\ Outdated(cl)' = Outdated(cl)
    BY <1>8 DEF DeleteUser, Outdated, UnderWay, Withdrawn
  <2> QED
    BY <2>1, QuietOwed
<1> QED
  BY <1>4, <1>5, <1>6, <1>7, <1>8 DEF Console

LEMMA NextOwed == OwedInv /\ [Next]_vars => OwedInv'
<1> SUFFICES ASSUME OwedInv, [Next]_vars, NEW cl \in Clients
             PROVE  Cardinality(Outdated(cl)') <= owed'[cl]
  BY NextBase DEF OwedInv
<1>1. CASE Restart
  <2>1. owed' = owed /\ Outdated(cl)' = {}
    BY <1>1 DEF Restart, Outdated, UnderWay
  <2> QED
    BY <2>1, QuietOwed
<1>2. CASE Tick \/ UNCHANGED vars
  <2>1. owed' = owed /\ Outdated(cl)' = Outdated(cl)
    BY <1>2 DEF Tick, vars, Outdated, UnderWay, Withdrawn
  <2> QED
    BY <2>1, QuietOwed
<1> QED
  BY <1>1, <1>2, RequestOwed, ConsoleOwed DEF Next

\* A client whose registration or secret is withdrawn gets tokens for the
\* exchanges that were under way, one each, and for no other.
THEOREM WithdrawnBoundCorrect == Spec => []WithdrawnBound
<1>1. Init => OwedInv
  BY InitOwed
<1>2. OwedInv /\ [Next]_vars => OwedInv'
  BY NextOwed
<1>3. OwedInv => WithdrawnBound
  <2> SUFFICES ASSUME OwedInv, NEW cl \in Clients PROVE owed[cl] >= 0
    BY DEF WithdrawnBound
  <2>1. Outdated(cl) \in SUBSET Workers
    BY DEF Outdated, UnderWay
  <2>2. Cardinality(Outdated(cl)) \in Nat /\ owed[cl] \in Int
    BY <2>1, Counts DEF OwedInv, Base, TypeOK
  <2> QED
    BY <2>2 DEF OwedInv
<1> QED
  BY <1>1, <1>2, <1>3, PTL DEF Spec

-----------------------------------------------------------------------------
(* What tokens are issued on.                                              *)

Consented(t) == <<t.user, t.client, t.uri>> \in consents

\* A request or a token pair that agrees with the code it names.
Agrees(t) ==
  Consented(t) /\ codes[t.code].client = t.client /\ t.at <= codes[t.code].expires

GrantInv ==
  /\ Base
  /\ \A c \in Codes : codes[c].client # Nobody => Consented(codes[c])
  /\ \A w \in Workers : pc[w] = "create" => Consented(req[w])
  /\ \A w \in Workers : pc[w] \in {"mark", "issue"} => Agrees(req[w])
  /\ \A t \in tokens : Agrees(t)

LEMMA InitGrant == Init => GrantInv
<1> SUFFICES ASSUME Init PROVE GrantInv
  OBVIOUS
<1>1. \A c \in Codes : codes[c].client = Nobody
  BY DEF Init, NoCode
<1> QED
  BY <1>1, InitBase DEF Init, GrantInv

\* A step that leaves the codes, the consents and the tokens alone, and in which
\* no request gets to where it needs a code or a consent.
LEMMA QuietGrant ==
  ASSUME GrantInv, Base',
         \A c \in Codes : /\ codes'[c].client = codes[c].client
                          /\ codes'[c].user = codes[c].user /\ codes'[c].uri = codes[c].uri
                          /\ codes'[c].expires = codes[c].expires,
         consents \subseteq consents', tokens' = tokens,
         \A w \in Workers : pc'[w] = "create" => pc[w] = "create" /\ req'[w] = req[w],
         \A w \in Workers : pc'[w] \in {"mark", "issue"} =>
           pc[w] \in {"mark", "issue"} /\ req'[w] = req[w]
  PROVE  GrantInv'
<1>1. tokens \subseteq Request /\ req \in [Workers -> Request]
  BY DEF GrantInv, Base, TypeOK
<1>2. ASSUME NEW t \in Request, Agrees(t)
      PROVE  /\ <<t.user, t.client, t.uri>> \in consents'
             /\ codes'[t.code].client = t.client /\ t.at <= codes'[t.code].expires
  <2>1. t.code \in Codes
    BY DEF Request
  <2> QED
    BY <1>2, <2>1 DEF Agrees, Consented
<1>3. \A c \in Codes : codes'[c].client # Nobody =>
        <<codes'[c].user, codes'[c].client, codes'[c].uri>> \in consents'
  BY DEF GrantInv, Consented
<1>4. \A w \in Workers : pc'[w] = "create" =>
        <<req'[w].user, req'[w].client, req'[w].uri>> \in consents'
  BY DEF GrantInv, Consented
<1>5. \A w \in Workers : pc'[w] \in {"mark", "issue"} =>
        /\ <<req'[w].user, req'[w].client, req'[w].uri>> \in consents'
        /\ codes'[req'[w].code].client = req'[w].client
        /\ req'[w].at <= codes'[req'[w].code].expires
  BY <1>1, <1>2 DEF GrantInv
<1>6. \A t \in tokens' :
        /\ <<t.user, t.client, t.uri>> \in consents'
        /\ codes'[t.code].client = t.client /\ t.at <= codes'[t.code].expires
  BY <1>1, <1>2 DEF GrantInv
<1> QED
  BY <1>3, <1>4, <1>5, <1>6 DEF GrantInv, Agrees, Consented

\* The steps of AuthorizeCode: a code is created with what was consented to, in
\* a row that nothing refers to yet.
LEMMA AuthorizationGrant ==
  ASSUME GrantInv, Base', NEW w \in Workers, Authorization(w)
  PROVE  GrantInv'
<1>1. /\ Base /\ tokens \subseteq Request /\ req \in [Workers -> Request]
      /\ consents \subseteq Users \X Clients \X Uris
      /\ pc \in [Workers -> {"idle", "create", "code", "mark", "issue"}]
      /\ codes \in [Codes -> AuthorizationCode]
  BY DEF GrantInv, Base, TypeOK
<1>2. ASSUME NEW u \in Users, NEW cl \in Clients, NEW uri \in Uris,
             AuthorizeCode(w, u, cl, uri)
      PROVE  GrantInv'
  <2> DEFINE r == [req[w] EXCEPT !.client = cl, !.user = u, !.uri = uri]
  <2>1. r.client = cl /\ r.user = u /\ r.uri = uri
    BY <1>1 DEF Request
  <2>2. /\ req' = [req EXCEPT ![w] = r] /\ pc' = [pc EXCEPT ![w] = "create"]
        /\ codes' = codes /\ tokens' = tokens
    BY <1>2 DEF AuthorizeCode
  <2>3. consents \subseteq consents' /\ <<u, cl, uri>> \in consents'
    BY <1>2 DEF AuthorizeCode, MayAuthorize
  <2> HIDE DEF r
  <2>4. \A v \in Workers : /\ pc'[v] = (IF v = w THEN "create" ELSE pc[v])
                           /\ req'[v] = (IF v = w THEN r ELSE req[v])
    BY <1>1, <2>2
  <2>5. ASSUME NEW t \in Request, Agrees(t) PROVE Agrees(t)'
    BY <2>2, <2>3, <2>5 DEF Agrees, Consented
  <2>6. \A c \in Codes : codes'[c].client # Nobody => Consented(codes[c])'
    BY <2>2, <2>3 DEF GrantInv, Consented
  <2>7. ASSUME NEW v \in Workers, pc'[v] = "create"
        PROVE  <<req'[v].user, req'[v].client, req'[v].uri>> \in consents'
    BY <2>1, <2>3, <2>4, <2>7 DEF GrantInv, Consented
  <2>8. ASSUME NEW v \in Workers, pc'[v] \in {"mark", "issue"}
        PROVE  /\ <<req'[v].user, req'[v].client, req'[v].uri>> \in consents'
               /\ codes'[req'[v].code].client = req'[v].client
               /\ req'[v].at <= codes'[req'[v].code].expires
    BY <2>2, <2>3, <2>4, <2>8 DEF GrantInv, Agrees, Consented
  <2>9. \A t \in tokens' : Agrees(t)'
    BY <1>1, <2>2, <2>5 DEF GrantInv
  <2> QED
    BY <2>2, <2>6, <2>7, <2>8, <2>9 DEF GrantInv, Agrees, Consented
<1>3. ASSUME NEW c \in Codes, AuthorizeCode_Create(w, c) PROVE GrantInv'
  <2> DEFINE code == [client |-> req[w].client, user |-> req[w].user, uri |-> req[w].uri,
                      expires |-> now + CodeLife, used |-> FALSE]
  <2>1. /\ codes' = [codes EXCEPT ![c] = code] /\ codes[c].client = Nobody
        /\ pc[w] = "create" /\ pc' = [pc EXCEPT ![w] = "idle"]
        /\ req' = [req EXCEPT ![w] = NoRequest] /\ tokens' = tokens /\ consents' = consents
    BY <1>3 DEF AuthorizeCode_Create, Free, NoCode
  <2>2. <<code.user, code.client, code.uri>> \in consents
    BY <2>1 DEF GrantInv, Consented
  <2> HIDE DEF code
  <2>3. \A d \in Codes : codes'[d] = IF d = c THEN code ELSE codes[d]
    BY <1>1, <2>1
  <2>4. \A v \in Workers : /\ pc'[v] = (IF v = w THEN "idle" ELSE pc[v])
                           /\ req'[v] = (IF v = w THEN NoRequest ELSE req[v])
    BY <1>1, <2>1
  <2>5. ASSUME NEW t \in Request, Agrees(t)
        PROVE  codes'[t.code].client = t.client /\ t.at <= codes'[t.code].expires
    <3>1. t.code \in Codes /\ t.client \in Clients
      BY <1>1, <2>5 DEF Request, Agrees, Consented
    <3>2. t.code # c
      BY <2>1, <2>5, <3>1, NamesAssumption DEF Agrees
    <3> QED
      BY <2>3, <2>5, <3>1, <3>2 DEF Agrees
  <2>6. \A d \in Codes : codes'[d].client # Nobody =>
          <<codes'[d].user, codes'[d].client, codes'[d].uri>> \in consents'
    BY <2>1, <2>2, <2>3 DEF GrantInv, Consented
  <2>7. \A v \in Workers : pc'[v] = "create" =>
          <<req'[v].user, req'[v].client, req'[v].uri>> \in consents'
    BY <2>1, <2>4 DEF GrantInv, Consented
  <2>8. ASSUME NEW v \in Workers, pc'[v] \in {"mark", "issue"}
        PROVE  /\ <<req'[v].user, req'[v].client, req'[v].uri>> \in consents'
               /\ codes'[req'[v].code].client = req'[v].client
               /\ req'[v].at <= codes'[req'[v].code].expires
    <3>1. v # w /\ req'[v] = req[v] /\ Agrees(req[v]) /\ req[v] \in Request
      BY <1>1, <2>4, <2>8 DEF GrantInv
    <3> QED
      BY <2>1, <2>5, <3>1 DEF Agrees, Consented
  <2>9. \A t \in tokens' : /\ <<t.user, t.client, t.uri>> \in consents'
                           /\ codes'[t.code].client = t.client /\ t.at <= codes'[t.code].expires
    BY <1>1, <2>1, <2>5 DEF GrantInv, Agrees, Consented
  <2> QED
    BY <2>6, <2>7, <2>8, <2>9 DEF GrantInv, Agrees, Consented
<1>4. CASE AuthorizeCode_CreateFails(w)
  <2>1. \A v \in Workers : /\ pc'[v] = (IF v = w THEN "idle" ELSE pc[v])
                           /\ req'[v] = (IF v = w THEN NoRequest ELSE req[v])
    BY <1>1, <1>4 DEF AuthorizeCode_CreateFails, Free
  <2> QED
    BY <1>4, <2>1, QuietGrant DEF AuthorizeCode_CreateFails
<1> QED
  BY <1>2, <1>3, <1>4 DEF Authorization

\* The steps of OAuthToken: the code that is found has what the request carries.
LEMMA ExchangeGrant ==
  ASSUME GrantInv, Base', NEW w \in Workers, Exchange(w)
  PROVE  GrantInv'
<1>1. /\ Base /\ tokens \subseteq Request /\ req \in [Workers -> Request]
      /\ pc \in [Workers -> {"idle", "create", "code", "mark", "issue"}]
      /\ codes \in [Codes -> AuthorizationCode]
  BY DEF GrantInv, Base, TypeOK
<1>2. CASE (\E cl \in Clients, c \in Codes, uri \in Uris : OAuthToken(w, cl, c, uri))
           \/ OAuthToken_Refused(w) \/ OAuthToken_NoUser(w)
  <2>1. \E at \in {"idle", "code"}, r \in {req'[w]} :
          pc' = [pc EXCEPT ![w] = at] /\ req' = [req EXCEPT ![w] = r]
    BY <1>1, <1>2 DEF OAuthToken, OAuthToken_Refused, OAuthToken_NoUser, Free
  <2>2. \E at \in {"idle", "code"} : \A v \in Workers :
          pc'[v] = (IF v = w THEN at ELSE pc[v]) /\ (v # w => req'[v] = req[v])
    BY <1>1, <2>1
  <2>3. codes' = codes /\ consents' = consents /\ tokens' = tokens
    BY <1>2 DEF OAuthToken, OAuthToken_Refused, OAuthToken_NoUser
  <2> QED
    BY <2>2, <2>3, QuietGrant
<1>3. CASE OAuthToken_Mark(w) \/ OAuthToken_MarkFails(w)
  <2>1. /\ req' = req /\ consents' = consents /\ tokens' = tokens
        /\ pc[w] = "mark" /\ \A v \in Workers : pc'[v] = (IF v = w THEN "issue" ELSE pc[v])
    BY <1>1, <1>3 DEF OAuthToken_Mark, OAuthToken_MarkFails
  <2>2. \A c \in Codes : /\ codes'[c].client = codes[c].client
                         /\ codes'[c].user = codes[c].user /\ codes'[c].uri = codes[c].uri
                         /\ codes'[c].expires = codes[c].expires
    BY <1>1, <1>3, MarkedCode DEF OAuthToken_MarkFails
  <2> QED
    BY <2>1, <2>2, QuietGrant
<1>4. CASE OAuthToken_Code(w)
  <2> DEFINE r == [req[w] EXCEPT !.user = codes[req[w].code].user, !.at = now]
  <2>1. /\ r.user = codes[req[w].code].user /\ r.at = now /\ r.client = req[w].client
        /\ r.uri = req[w].uri /\ r.code = req[w].code /\ r.code \in Codes
    BY <1>1 DEF Request
  <2>2. /\ req' = [req EXCEPT ![w] = r] /\ pc' = [pc EXCEPT ![w] = "mark"] /\ pc[w] = "code"
        /\ codes' = codes /\ tokens' = tokens /\ consents' = consents
        /\ codes[req[w].code].client = req[w].client /\ codes[req[w].code].uri = req[w].uri
        /\ now <= codes[req[w].code].expires
    BY <1>4 DEF OAuthToken_Code, Exchangeable
  <2> HIDE DEF r
  <2>3. req[w].client # Nobody
    BY <1>1, <2>2, NamesAssumption DEF Base, Carries, ExchangeSteps
  <2>4. Agrees(r)
    BY <2>1, <2>2, <2>3 DEF GrantInv, Agrees, Consented
  <2>5. \A v \in Workers : /\ pc'[v] = (IF v = w THEN "mark" ELSE pc[v])
                           /\ req'[v] = (IF v = w THEN r ELSE req[v])
    BY <1>1, <2>2
  <2>6. ASSUME NEW v \in Workers, pc'[v] \in {"mark", "issue"} PROVE Agrees(req'[v])
    BY <2>4, <2>5, <2>6 DEF GrantInv
  <2>7. \A v \in Workers : pc'[v] = "create" => Consented(req'[v])
    BY <2>5 DEF GrantInv
  <2> QED
    BY <2>2, <2>6, <2>7 DEF GrantInv, Agrees, Consented
<1>5. CASE OAuthToken_Issue(w)
  <2>1. /\ codes' = codes /\ consents' = consents /\ pc[w] = "issue"
        /\ tokens' = tokens \cup {req[w]}
        /\ \A v \in Workers : /\ pc'[v] = (IF v = w THEN "idle" ELSE pc[v])
                              /\ req'[v] = (IF v = w THEN NoRequest ELSE req[v])
    BY <1>1, <1>5 DEF OAuthToken_Issue, Free
  <2>2. \A t \in tokens' : Agrees(t)
    BY <2>1 DEF GrantInv
  <2> QED
    BY <2>1, <2>2 DEF GrantInv, Agrees, Consented
<1> QED
  BY <1>2, <1>3, <1>4, <1>5 DEF Exchange

LEMMA NextGrant == GrantInv /\ [Next]_vars => GrantInv'
<1> SUFFICES ASSUME GrantInv, [Next]_vars PROVE GrantInv'
  OBVIOUS
<1>1. Base' /\ Base
  BY NextBase DEF GrantInv
<1>2. CASE Console \/ Tick \/ UNCHANGED vars
  <2>1. codes' = codes /\ consents' = consents /\ tokens' = tokens /\ pc' = pc /\ req' = req
    BY <1>2 DEF Console, Change, Withdraw, CreateOAuthClient, UpdateOAuthClient,
                RegenerateClientSecret, SuspendOAuthClient, ActivateOAuthClient,
                DeleteOAuthClient, DeleteUser, Tick, vars
  <2> QED
    BY <1>1, <2>1, QuietGrant
<1>3. CASE Restart
  <2>1. /\ codes' = codes /\ consents' = consents /\ tokens' = tokens
        /\ \A w \in Workers : pc'[w] = "idle"
    BY <1>3 DEF Restart
  <2> QED
    BY <1>1, <2>1, QuietGrant
<1> QED
  BY <1>1, <1>2, <1>3, AuthorizationGrant, ExchangeGrant DEF Next

\* Tokens go to the client, for the user and the redirect URI of an
\* authorization that was allowed when it was asked for, and in time.
THEOREM TokenMatchesGrantCorrect == Spec => []TokenMatchesGrant
<1>1. Init => GrantInv
  BY InitGrant
<1>2. GrantInv /\ [Next]_vars => GrantInv'
  BY NextGrant
<1>3. GrantInv => TokenMatchesGrant
  BY DEF GrantInv, TokenMatchesGrant, Agrees, Consented
<1> QED
  BY <1>1, <1>2, <1>3, PTL DEF Spec
=============================================================================
