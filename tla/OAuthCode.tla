------------------------------ MODULE OAuthCode ------------------------------
(***************************************************************************)
(* The authorization-code flow of OAS: AuthorizeCode stores a code for a   *)
(* user who is logged in, OAuthToken exchanges it for tokens, and the      *)
(* console changes the registered clients meanwhile.  Every statement of   *)
(* the two handlers that touches a table is a step: the client is looked   *)
(* up, the code is looked up, marked used, and the user is looked up, with *)
(* other requests in between.                                              *)
(***************************************************************************)
EXTENDS Integers, FiniteSets

CONSTANTS
  Clients,     \* client_ids that may ever be registered
  SeedClients, \* those SeedDefaultOAuthClients registers
  Users,       \* user_codes
  Uris,        \* redirect URIs
  Nobody,      \* the client, user and URI of a code that has not been created
  Codes,       \* primary keys of the authorization codes
  Workers,     \* concurrent requests
  CodeLife,    \* how long a code is valid (five minutes in the code)
  DevEnv,      \* whether the environment seeds clients (DEV and BETA)
  MaxTime,     \* bound: the clock
  MaxRequests, \* bound: authorizations and exchanges
  MaxChanges,  \* bound: changes made in the console
  MaxFaults,   \* bound: failed statements
  MaxCrashes   \* bound: restarts of OAS

ASSUME NamesAssumption ==
  /\ SeedClients \subseteq Clients /\ DevEnv \in BOOLEAN
  /\ Clients # {} /\ Users # {} /\ Uris # {} /\ Codes \subseteq Nat /\ Codes # {}
  /\ Nobody \notin Clients \cup Users \cup Uris
ASSUME WorkersAssumption == IsFiniteSet(Workers)
ASSUME BoundsAssumption ==
  /\ CodeLife \in Nat /\ MaxTime \in Nat /\ MaxRequests \in Nat
  /\ MaxChanges \in Nat /\ MaxFaults \in Nat /\ MaxCrashes \in Nat

VARIABLES
  clients,  \* oauth_clients: id -> [status, uris, secret]; secret counts the changes
  users,    \* the users that exist
  codes,    \* oauth_authorization_codes
  now,      \* the clock
  pc,       \* the statement each request is at
  req,      \* what each request carries
  issued,   \* history: how many token pairs each code has been exchanged for
  holders,  \* history: how many exchanges held each code when it was marked used
  owed,     \* history: how many exchanges of a client were under way when it was
            \*   last suspended, deleted or given a new secret, less the token
            \*   pairs it has got since then on what was withdrawn
  tokens,   \* history: what each token pair was issued on
  consents, \* history: the <<user, client, uri>> that could be authorized when asked
  budget    \* what is left of the bounds

vars == <<clients, users, codes, now, pc, req, issued, holders, owed, tokens, consents, budget>>

-----------------------------------------------------------------------------
OAuthClient ==
  [status : {"none", "active", "inactive", "deleted"}, uris : SUBSET Uris, secret : Nat]
AuthorizationCode ==
  [client : Clients \cup {Nobody}, user : Users \cup {Nobody}, uri : Uris \cup {Nobody},
   expires : Nat, used : BOOLEAN]
Request ==
  [client : Clients \cup {Nobody}, user : Users \cup {Nobody}, uri : Uris \cup {Nobody},
   code : Codes, secret : Nat, at : Nat]

NoCode == [client |-> Nobody, user |-> Nobody, uri |-> Nobody, expires |-> 0, used |-> FALSE]
NoRequest ==
  [client |-> Nobody, user |-> Nobody, uri |-> Nobody,
   code |-> CHOOSE c \in Codes : TRUE, secret |-> 0, at |-> 0]

Registered(cl) == clients[cl].status \in {"active", "inactive"}
MayAuthorize(cl, uri) == clients[cl].status = "active" /\ uri \in clients[cl].uris

Spend(b) == budget[b] > 0 /\ budget' = [budget EXCEPT ![b] = @ - 1]
Free(w) ==
  /\ pc' = [pc EXCEPT ![w] = "idle"]
  /\ req' = [req EXCEPT ![w] = NoRequest]

-----------------------------------------------------------------------------
(* AuthorizeCode.                                                          *)

\* The client and its URIs, then the user, are looked up; a user deleted
\* between the two ends the request as one deleted before them does.
AuthorizeCode(w, u, cl, uri) ==
  /\ pc[w] = "idle" /\ Spend("requests")
  /\ clients[cl].status = "active" /\ uri \in clients[cl].uris /\ u \in users
  /\ pc' = [pc EXCEPT ![w] = "create"]
  /\ req' = [req EXCEPT ![w].client = cl, ![w].user = u, ![w].uri = uri]
  /\ consents' = consents \cup {t \in {<<u, cl, uri>>} : MayAuthorize(cl, uri)}
  /\ UNCHANGED <<clients, users, codes, now, issued, holders, owed, tokens>>

\* Mutant: the code is stored without the URI it was asked for.
AuthorizeCode_Create_AnyUri(w, c) ==
  /\ pc[w] = "create" /\ codes[c] = NoCode /\ \A d \in Codes : codes[d] = NoCode => c <= d
  /\ \E uri \in Uris :
       codes' = [codes EXCEPT ![c] = [client |-> req[w].client, user |-> req[w].user,
                                      uri |-> uri, expires |-> now + CodeLife, used |-> FALSE]]
  /\ Free(w)
  /\ UNCHANGED <<clients, users, now, issued, holders, owed, tokens, consents, budget>>

AuthorizeCode_Create(w, c) ==
  /\ pc[w] = "create" /\ codes[c] = NoCode /\ \A d \in Codes : codes[d] = NoCode => c <= d
  /\ codes' = [codes EXCEPT ![c] = [client |-> req[w].client, user |-> req[w].user,
                                    uri |-> req[w].uri, expires |-> now + CodeLife,
                                    used |-> FALSE]]
  /\ Free(w)
  /\ UNCHANGED <<clients, users, now, issued, holders, owed, tokens, consents, budget>>

\* The INSERT fails, as it does when two codes of a user get the same name.
AuthorizeCode_CreateFails(w) ==
  /\ pc[w] = "create" /\ Spend("faults") /\ Free(w)
  /\ UNCHANGED <<clients, users, codes, now, issued, holders, owed, tokens, consents>>

-----------------------------------------------------------------------------
(* OAuthToken.                                                             *)

\* Mutant: the client's status is not part of the query.
OAuthToken_AnyStatus(w, cl, c, uri) ==
  /\ pc[w] = "idle" /\ Spend("requests")
  /\ Registered(cl)
  /\ pc' = [pc EXCEPT ![w] = "code"]
  /\ req' = [req EXCEPT ![w].client = cl, ![w].uri = uri, ![w].code = c,
                        ![w].secret = clients[cl].secret]
  /\ UNCHANGED <<clients, users, codes, now, issued, holders, owed, tokens, consents>>

\* The client is active and the secret presented is its current one.
OAuthToken(w, cl, c, uri) ==
  /\ pc[w] = "idle" /\ Spend("requests")
  /\ clients[cl].status = "active"
  /\ pc' = [pc EXCEPT ![w] = "code"]
  /\ req' = [req EXCEPT ![w].client = cl, ![w].uri = uri, ![w].code = c,
                        ![w].secret = clients[cl].secret]
  /\ UNCHANGED <<clients, users, codes, now, issued, holders, owed, tokens, consents>>

\* Mutant: a code that has been used is found as well.
Exchangeable_UsedToo(w) ==
  LET code == codes[req[w].code]
  IN code.client = req[w].client /\ now <= code.expires /\ code.uri = req[w].uri

\* The code exists for this client, is unused and has not expired, and the
\* redirect URI is the one it was created for.
Exchangeable(w) ==
  LET code == codes[req[w].code]
  IN /\ code.client = req[w].client /\ ~code.used
     /\ now <= code.expires /\ code.uri = req[w].uri

OAuthToken_Code(w) ==
  /\ pc[w] = "code" /\ Exchangeable(w)
  /\ pc' = [pc EXCEPT ![w] = "mark"]
  /\ req' = [req EXCEPT ![w].user = codes[req[w].code].user, ![w].at = now]
  /\ UNCHANGED <<clients, users, codes, now, issued, holders, owed, tokens, consents, budget>>

OAuthToken_Refused(w) ==
  /\ pc[w] = "code" /\ ~Exchangeable(w) /\ Free(w)
  /\ UNCHANGED <<clients, users, codes, now, issued, holders, owed, tokens, consents, budget>>

\* The exchanges that have found the code and are not finished.
Holding(c) == {w \in Workers : pc[w] \in {"mark", "issue"} /\ req[w].code = c}

OAuthToken_Mark(w) ==
  /\ pc[w] = "mark"
  /\ codes' = [codes EXCEPT ![req[w].code].used = TRUE]
  /\ holders' = [holders EXCEPT ![req[w].code] =
                   IF codes[req[w].code].used THEN @ ELSE Cardinality(Holding(req[w].code))]
  /\ pc' = [pc EXCEPT ![w] = "issue"]
  /\ UNCHANGED <<clients, users, now, req, issued, owed, tokens, consents, budget>>

\* The error of that UPDATE is not looked at.
OAuthToken_MarkFails(w) ==
  /\ pc[w] = "mark" /\ Spend("faults")
  /\ pc' = [pc EXCEPT ![w] = "issue"]
  /\ UNCHANGED <<clients, users, codes, now, req, issued, holders, owed, tokens, consents>>

\* The client of the exchange has been suspended, deleted or given another
\* secret since it was looked up.
Withdrawn(w) ==
  /\ req[w].client # Nobody
  /\ \/ clients[req[w].client].status # "active"
     \/ clients[req[w].client].secret # req[w].secret

OAuthToken_Issue(w) ==
  /\ pc[w] = "issue" /\ req[w].user \in users
  /\ issued' = [issued EXCEPT ![req[w].code] = @ + 1]
  /\ owed' = [owed EXCEPT ![req[w].client] = IF Withdrawn(w) THEN @ - 1 ELSE @]
  /\ tokens' = tokens \cup {req[w]}
  /\ Free(w)
  /\ UNCHANGED <<clients, users, codes, now, holders, consents, budget>>

\* The user has been deleted: the code is used up and there are no tokens.
OAuthToken_NoUser(w) ==
  /\ pc[w] = "issue" /\ req[w].user \notin users /\ Free(w)
  /\ UNCHANGED <<clients, users, codes, now, issued, holders, owed, tokens, consents, budget>>

-----------------------------------------------------------------------------
(* The console.  Each handler looks the row up and then writes columns     *)
(* that do not depend on what it read, WHERE the row still exists: one     *)
(* step.                                                                   *)

Change(cl, client) ==
  /\ Spend("changes")
  /\ clients' = [clients EXCEPT ![cl] = client]
  /\ UNCHANGED <<users, codes, now, pc, req, issued, holders, tokens, consents>>

\* The exchanges that have looked the client up and are not finished.
UnderWay(cl) == {w \in Workers : pc[w] \in {"code", "mark", "issue"} /\ req[w].client = cl}

Withdraw(cl, client) ==
  Change(cl, client) /\ owed' = [owed EXCEPT ![cl] = Cardinality(UnderWay(cl))]

CreateOAuthClient(cl, uris) ==
  /\ clients[cl].status = "none" /\ uris # {}
  /\ Change(cl, [status |-> "active", uris |-> uris, secret |-> 0]) /\ UNCHANGED owed

UpdateOAuthClient(cl, uris) ==
  /\ Registered(cl) /\ uris # {}
  /\ Change(cl, [clients[cl] EXCEPT !.uris = uris]) /\ UNCHANGED owed

RegenerateClientSecret(cl) ==
  /\ Registered(cl)
  /\ Withdraw(cl, [clients[cl] EXCEPT !.secret = @ + 1])

\* Mutant: the word of the audit log is stored as the status.
SuspendOAuthClient_Word(cl) ==
  /\ Registered(cl)
  /\ Withdraw(cl, [clients[cl] EXCEPT !.status = "suspended"])

SuspendOAuthClient(cl) ==
  /\ Registered(cl)
  /\ Withdraw(cl, [clients[cl] EXCEPT !.status = "inactive"])

ActivateOAuthClient(cl) ==
  /\ Registered(cl)
  /\ Change(cl, [clients[cl] EXCEPT !.status = "active"]) /\ UNCHANGED owed

DeleteOAuthClient(cl) ==
  /\ Registered(cl)
  /\ Withdraw(cl, [clients[cl] EXCEPT !.status = "deleted"])

DeleteUser(u) ==
  /\ u \in users /\ Spend("changes")
  /\ users' = users \ {u}
  /\ UNCHANGED <<clients, codes, now, pc, req, issued, holders, owed, tokens, consents>>

-----------------------------------------------------------------------------
\* SeedDefaultOAuthClients registers the defaults when no client is left; the
\* row of a deleted one still holds its client_id, and that INSERT fails.
Seeded(table) ==
  IF DevEnv /\ \A cl \in Clients : table[cl].status \in {"none", "deleted"}
  THEN [cl \in Clients |->
          IF cl \in SeedClients /\ table[cl].status = "none"
          THEN [status |-> "active", uris |-> Uris, secret |-> 0] ELSE table[cl]]
  ELSE table

\* OAS dies, with every request in it, and starts again.
Restart ==
  /\ Spend("crashes")
  /\ clients' = Seeded(clients)
  /\ pc' = [w \in Workers |-> "idle"] /\ req' = [w \in Workers |-> NoRequest]
  /\ UNCHANGED <<users, codes, now, issued, holders, owed, tokens, consents>>

Tick ==
  /\ now < MaxTime /\ now' = now + 1
  /\ UNCHANGED <<clients, users, codes, pc, req, issued, holders, owed, tokens, consents, budget>>

Init ==
  /\ clients = Seeded([cl \in Clients |-> [status |-> "none", uris |-> {}, secret |-> 0]])
  /\ users = Users /\ codes = [c \in Codes |-> NoCode] /\ now = 0
  /\ pc = [w \in Workers |-> "idle"] /\ req = [w \in Workers |-> NoRequest]
  /\ issued = [c \in Codes |-> 0] /\ holders = [c \in Codes |-> 0]
  /\ owed = [cl \in Clients |-> 0]
  /\ tokens = {} /\ consents = {}
  /\ budget = [requests |-> MaxRequests, changes |-> MaxChanges,
               faults |-> MaxFaults, crashes |-> MaxCrashes]

Authorization(w) ==
  \/ \E u \in Users, cl \in Clients, uri \in Uris : AuthorizeCode(w, u, cl, uri)
  \/ \E c \in Codes : AuthorizeCode_Create(w, c)
  \/ AuthorizeCode_CreateFails(w)

Exchange(w) ==
  \/ \E cl \in Clients, c \in Codes, uri \in Uris : OAuthToken(w, cl, c, uri)
  \/ OAuthToken_Code(w) \/ OAuthToken_Refused(w)
  \/ OAuthToken_Mark(w) \/ OAuthToken_MarkFails(w)
  \/ OAuthToken_Issue(w) \/ OAuthToken_NoUser(w)

Console ==
  \/ \E cl \in Clients, uris \in SUBSET Uris :
       CreateOAuthClient(cl, uris) \/ UpdateOAuthClient(cl, uris)
  \/ \E cl \in Clients :
       \/ RegenerateClientSecret(cl) \/ SuspendOAuthClient(cl)
       \/ ActivateOAuthClient(cl) \/ DeleteOAuthClient(cl)
  \/ \E u \in Users : DeleteUser(u)

Next ==
  \/ \E w \in Workers : Authorization(w) \/ Exchange(w)
  \/ Console \/ Restart \/ Tick

Spec == Init /\ [][Next]_vars

-----------------------------------------------------------------------------
(* Properties.                                                             *)

\* The type invariant of the authorization-code flow.
TypeOK ==
  /\ clients \in [Clients -> OAuthClient] /\ users \subseteq Users
  /\ codes \in [Codes -> AuthorizationCode] /\ now \in Nat
  /\ pc \in [Workers -> {"idle", "create", "code", "mark", "issue"}]
  /\ req \in [Workers -> Request]
  /\ issued \in [Codes -> Nat] /\ holders \in [Codes -> Nat] /\ owed \in [Clients -> Int]
  /\ tokens \subseteq Request /\ consents \subseteq Users \X Clients \X Uris
  /\ budget \in [{"requests", "changes", "faults", "crashes"} -> Nat]

FaultsSoFar == MaxFaults - budget.faults

\* A code yields no more token pairs than the exchanges that had found it when
\* the first of them marked it used, plus one for every statement that failed:
\* once it is marked, no exchange finds it again.
SingleUseBound == \A c \in Codes : issued[c] <= holders[c] + FaultsSoFar

\* A client that is suspended, deleted or given a new secret gets tokens only
\* for the exchanges that had looked it up before, one each at most.
WithdrawnBound == \A cl \in Clients : owed[cl] >= 0

\* Tokens are issued to the client, for the user and with the redirect URI of an
\* authorization that was allowed when it was asked for, and within the code's
\* life, whatever happened to the client's registration since.
TokenMatchesGrant ==
  \A t \in tokens :
    /\ <<t.user, t.client, t.uri>> \in consents
    /\ codes[t.code].client = t.client /\ t.at <= codes[t.code].expires
=============================================================================
