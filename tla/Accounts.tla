------------------------------ MODULE Accounts ------------------------------
(***************************************************************************)
(* Accounts: the tables users, roles and user_roles, the OAS console's     *)
(* handlers that change them, those of the service ams of the other        *)
(* process, which names the same tables, and the seeding at the boot of    *)
(* OAS.  A handler is a row of statements without a transaction around     *)
(* them, so each statement that touches a table another request changes is *)
(* a step.  A request is one that has passed the gates and the whitelists; *)
(* those refuse without changing anything.  Usernames and role codes are   *)
(* unique, and a deleted row keeps its own: an account is its username, a  *)
(* role its code.                                                          *)
(***************************************************************************)
EXTENDS Integers, FiniteSets

CONSTANTS
  Users,       \* usernames that may ever be used
  Roles,       \* role codes that may ever be used
  NoRole,      \* an empty role_code
  NoUser,      \* the account of an idle worker
  Governed,    \* the role_codes whose accounts can be enabled and disabled (OU, AU)
  Xam,         \* the frozen domain administrators' roles (TAM, HAM, YAM, VAM)
  AdminSeed,   \* role of each governance account that SeedTestUsers creates
  TestSeed,    \* role of each test account that SeedTestUsers creates
  Workers,     \* concurrent requests
  MaxRequests, \* bound: requests
  MaxFaults,   \* bound: failed statements
  MaxCrashes   \* bound: restarts of OAS

ASSUME NamesAssumption ==
  /\ NoRole \notin Roles /\ NoUser \notin Users
  /\ Governed \subseteq Roles /\ Xam \subseteq Roles
ASSUME SeedAssumption ==
  /\ DOMAIN AdminSeed \subseteq Users /\ \A a \in DOMAIN AdminSeed : AdminSeed[a] \in Roles
  /\ DOMAIN TestSeed \subseteq Users /\ \A a \in DOMAIN TestSeed : TestSeed[a] \in Roles
  /\ DOMAIN AdminSeed \cap DOMAIN TestSeed = {}
ASSUME BoundsAssumption == MaxRequests \in Nat /\ MaxFaults \in Nat /\ MaxCrashes \in Nat

VARIABLES
  users,  \* username -> [status, role]: users.status and users.role_code
  roles,  \* role code -> whether it exists
  grants, \* user_roles: <<username, role code>>
  pc,     \* the statement each request is at
  req,    \* what each request carries
  may,    \* history: the roles each account was last given, or is being given
  raced,  \* history: the assignments made while their role was being deleted
  out,    \* history: the accounts disabled or deleted, with nothing under way that
          \*   had read them before, and not ordered to be enabled since
  budget  \* what is left of the bounds

vars == <<users, roles, grants, pc, req, may, raced, out, budget>>

-----------------------------------------------------------------------------
Account == [status : {"none", "active", "disabled", "deleted"}, role : Roles \cup {NoRole}]
NoAccount == [status |-> "none", role |-> NoRole]
Request ==
  [user : Users \cup {NoUser}, row : Account, role : Roles \cup {NoRole}, todo : SUBSET Roles]
NoRequest == [user |-> NoUser, row |-> NoAccount, role |-> NoRole, todo |-> {}]

Live(u) == users[u].status \in {"active", "disabled"}
Assigned(u) == {r \in Roles : <<u, r>> \in grants}
Of(u) == {u} \X Roles

Spend(b) == budget[b] > 0 /\ budget' = [budget EXCEPT ![b] = @ - 1]
Accept(w) == pc[w] = "idle" /\ Spend("requests")
Goto(w, at) == pc' = [pc EXCEPT ![w] = at]
Free(w) == Goto(w, "idle") /\ req' = [req EXCEPT ![w] = NoRequest]

\* The roles other requests are about to give the account.
Pending(w, u) ==
  UNION {req[v].todo \cup ({req[v].role} \ {NoRole}) :
           v \in {x \in Workers \ {w} : pc[x] \in {"grant", "assign"} /\ req[x].user = u}}

\* No other request is about to save the account as active.
NotRevived(w, u) ==
  \A v \in Workers \ {w} :
    pc[v] \in {"save", "amsSave"} /\ req[v].user = u => req[v].row.status # "active"

TakenOut(w, u) == out' = IF NotRevived(w, u) THEN out \cup {u} ELSE out \ {u}

-----------------------------------------------------------------------------
(* Creating an account.                                                    *)

\* CreateUser: no account has the name, and role_code exists.  Without a list of
\* roles the account gets the one of role_code, which is not stored itself.
CreateUser(w, u, r, S) ==
  /\ Accept(w) /\ ~Live(u) /\ roles[r] = "live"
  /\ Goto(w, "insert")
  /\ req' = [req EXCEPT ![w].user = u, ![w].todo = IF S = {} THEN {r} ELSE S]
  /\ UNCHANGED <<users, roles, grants, may, raced, out>>

\* CreateAdminAccount: the role goes into role_code, and nothing is assigned.
CreateAdminAccount(w, u, r) ==
  /\ Accept(w) /\ ~Live(u) /\ r \in Governed
  /\ Goto(w, "insertAdmin")
  /\ req' = [req EXCEPT ![w].user = u, ![w].role = r]
  /\ UNCHANGED <<users, roles, grants, may, raced, out>>

CreateUser_Insert(w) ==
  LET u == req[w].user
  IN /\ pc[w] = "insert" /\ users[u].status = "none"
     /\ users' = [users EXCEPT ![u] = [status |-> "active", role |-> NoRole]]
     /\ may' = [may EXCEPT ![u] = @ \cup req[w].todo]
     /\ Goto(w, "grant")
     /\ UNCHANGED <<roles, grants, req, raced, out, budget>>

CreateAdminAccount_Insert(w) ==
  LET u == req[w].user
  IN /\ pc[w] = "insertAdmin" /\ users[u].status = "none"
     /\ users' = [users EXCEPT ![u] = [status |-> "active", role |-> req[w].role]]
     /\ Free(w)
     /\ UNCHANGED <<roles, grants, may, raced, out, budget>>

\* The name was taken in between, or is still held by a deleted account.
Create_Fails(w) ==
  /\ pc[w] \in {"insert", "insertAdmin"} /\ users[req[w].user].status # "none" /\ Free(w)
  /\ UNCHANGED <<users, roles, grants, may, raced, out, budget>>

\* ams: a new account is active, with an empty role_code and nothing assigned; the
\* INSERT of a name that is taken fails.
Register(w, u) ==
  /\ Accept(w) /\ users[u].status = "none"
  /\ users' = [users EXCEPT ![u].status = "active"]
  /\ UNCHANGED <<roles, grants, pc, req, may, raced, out>>

-----------------------------------------------------------------------------
(* Assigning roles.                                                        *)

\* Mutant: the roles assigned before are left in place.
UpdateUserRoles_Adds(w, u, S) ==
  /\ Accept(w)
  /\ may' = [may EXCEPT ![u] = S \cup Pending(w, u)]
  /\ Goto(w, "grant")
  /\ req' = [req EXCEPT ![w].user = u, ![w].todo = S]
  /\ UNCHANGED <<users, roles, grants, raced, out>>

\* UpdateUserRoles does not ask whether the account exists: the old assignments
\* are deleted, and then each role that exists is assigned.
UpdateUserRoles(w, u, S) ==
  /\ Accept(w)
  /\ grants' = grants \ Of(u)
  /\ may' = [may EXCEPT ![u] = S \cup Pending(w, u)]
  /\ Goto(w, "grant")
  /\ req' = [req EXCEPT ![w].user = u, ![w].todo = S]
  /\ UNCHANGED <<users, roles, raced, out>>

\* The error of that DELETE is not looked at.
UpdateUserRoles_DeleteFails(w, u, S) ==
  /\ pc[w] = "idle" /\ budget.requests > 0 /\ budget.faults > 0
  /\ budget' = [budget EXCEPT !.requests = @ - 1, !.faults = @ - 1]
  /\ may' = [may EXCEPT ![u] = @ \cup S]
  /\ Goto(w, "grant")
  /\ req' = [req EXCEPT ![w].user = u, ![w].todo = S]
  /\ UNCHANGED <<users, roles, grants, raced, out>>

\* The next role of the list is looked up; one that does not exist is passed over.
Grant_First(w, r) ==
  /\ pc[w] = "grant" /\ r \in req[w].todo
  /\ IF roles[r] = "live"
     THEN /\ Goto(w, "assign")
          /\ req' = [req EXCEPT ![w].todo = @ \ {r}, ![w].role = r]
     ELSE req' = [req EXCEPT ![w].todo = @ \ {r}] /\ UNCHANGED pc
  /\ UNCHANGED <<users, roles, grants, may, raced, out, budget>>

\* A request has counted the users of the role, or is past that, to delete it.
BeingDeleted(r) ==
  roles[r] = "deleted" \/ \E v \in Workers : pc[v] = "deleteRole" /\ req[v].role = r

Grant_Create(w) ==
  LET g == <<req[w].user, req[w].role>>
  IN /\ pc[w] = "assign"
     /\ grants' = grants \cup {g}
     /\ raced' = IF BeingDeleted(req[w].role) THEN raced \cup {g} ELSE raced
     /\ Goto(w, "grant") /\ req' = [req EXCEPT ![w].role = NoRole]
     /\ UNCHANGED <<users, roles, may, out, budget>>

\* The error of that INSERT is not looked at.
Grant_CreateFails(w) ==
  /\ pc[w] = "assign" /\ Spend("faults")
  /\ Goto(w, "grant") /\ req' = [req EXCEPT ![w].role = NoRole]
  /\ UNCHANGED <<users, roles, grants, may, raced, out>>

Grant_Done(w) ==
  /\ pc[w] = "grant" /\ req[w].todo = {} /\ Free(w)
  /\ UNCHANGED <<users, roles, grants, may, raced, out, budget>>

-----------------------------------------------------------------------------
(* Enabling, disabling, deleting.                                          *)

\* Mutant: disabling writes the word that the clients' table uses.
UpdateUserStatus_Word(w, u, st) ==
  /\ Accept(w) /\ Live(u)
  /\ users' = [users EXCEPT ![u].status = IF st = "active" THEN st ELSE "inactive"]
  /\ IF st = "disabled" THEN TakenOut(w, u) ELSE out' = out \ {u}
  /\ UNCHANGED <<roles, grants, pc, req, may, raced>>

\* UpdateUserStatus writes one column, and nothing if the account does not exist.
UpdateUserStatus(w, u, st) ==
  /\ Accept(w) /\ Live(u)
  /\ users' = [users EXCEPT ![u].status = st]
  /\ IF st = "disabled" THEN TakenOut(w, u) ELSE out' = out \ {u}
  /\ UNCHANGED <<roles, grants, pc, req, may, raced>>

\* A request reads the row of an account and holds it, with this status, to save it.
HoldRow(w, u, st, at) ==
  /\ Accept(w) /\ Live(u)
  /\ Goto(w, at)
  /\ req' = [req EXCEPT ![w].user = u, ![w].row = [status |-> st, role |-> users[u].role]]
  /\ UNCHANGED <<users, roles, grants, may, raced>>

\* The three requests on a governance account read its row and save it whole.
ReadRow(w, u, st) == users[u].role \in Governed /\ HoldRow(w, u, st, "save")

\* Mutant: a new password also unlocks the account.
ResetAdminPassword_Unlocks(w, u) == ReadRow(w, u, "active") /\ UNCHANGED out

ResetAdminPassword(w, u) == ReadRow(w, u, users[u].status) /\ UNCHANGED out
EnableAdminAccount(w, u) == ReadRow(w, u, "active") /\ out' = out \ {u}
DisableAdminAccount(w, u) == ReadRow(w, u, "disabled") /\ UNCHANGED out

\* Save writes every column, and inserts the row again if it has been deleted.
Save(w) ==
  LET u == req[w].user
  IN /\ pc[w] = "save"
     /\ users' = [users EXCEPT ![u] = req[w].row]
     /\ IF req[w].row.status = "disabled" THEN TakenOut(w, u) ELSE UNCHANGED out
     /\ Free(w)
     /\ UNCHANGED <<roles, grants, may, raced, budget>>

\* ams's UpdateUser takes any account, and the status of the body if it has one: a
\* body that says active is an order to enable the account.
UpdateUser(w, u, st) ==
  /\ HoldRow(w, u, st, "amsSave")
  /\ out' = IF st = "active" THEN out \ {u} ELSE out

\* Its Save writes every column that ams knows, which role_code is not, and brings
\* a row back that has been deleted.
UpdateUser_Save(w) ==
  LET u == req[w].user
  IN /\ pc[w] = "amsSave"
     /\ users' = [users EXCEPT ![u].status = req[w].row.status]
     /\ IF req[w].row.status = "disabled" THEN TakenOut(w, u) ELSE UNCHANGED out
     /\ Free(w)
     /\ UNCHANGED <<roles, grants, may, raced, budget>>

\* The Save fails, or the process of ams dies before it.
Save_Fails(w) ==
  /\ pc[w] \in {"save", "amsSave"} /\ Spend("faults") /\ Free(w)
  /\ UNCHANGED <<users, roles, grants, may, raced, out>>

\* DeleteUser looks the account up and deletes it; one that another request
\* deletes in between is left to that request.
DeleteUser(w, u) ==
  /\ Accept(w) /\ Live(u)
  /\ users' = [users EXCEPT ![u].status = "deleted"]
  /\ TakenOut(w, u)
  /\ Goto(w, "revoke") /\ req' = [req EXCEPT ![w].user = u]
  /\ UNCHANGED <<roles, grants, may, raced>>

DeleteUser_Revoke(w) ==
  LET u == req[w].user
  IN /\ pc[w] = "revoke"
     /\ grants' = grants \ Of(u)
     /\ may' = [may EXCEPT ![u] = Pending(w, u)]
     /\ Free(w)
     /\ UNCHANGED <<users, roles, raced, out, budget>>

\* The error of that DELETE is not looked at.
DeleteUser_RevokeFails(w) ==
  /\ pc[w] = "revoke" /\ Spend("faults") /\ Free(w)
  /\ UNCHANGED <<users, roles, grants, may, raced, out>>

-----------------------------------------------------------------------------
(* Roles.                                                                  *)

\* One INSERT, in OAS and in ams alike.
CreateRole(w, r) ==
  /\ Accept(w) /\ roles[r] = "none"
  /\ roles' = [roles EXCEPT ![r] = "live"]
  /\ UNCHANGED <<users, grants, pc, req, may, raced, out>>

\* Mutant: the users of the role are not counted.
DeleteRole_NoCount(w, r) ==
  /\ Accept(w) /\ roles[r] = "live"
  /\ Goto(w, "deleteRole") /\ req' = [req EXCEPT ![w].role = r]
  /\ UNCHANGED <<users, roles, grants, may, raced, out>>

\* DeleteRole looks the role up and counts its assignments; it refuses if there
\* are any.
DeleteRole(w, r) ==
  /\ Accept(w) /\ roles[r] = "live" /\ \A u \in Users : <<u, r>> \notin grants
  /\ Goto(w, "deleteRole") /\ req' = [req EXCEPT ![w].role = r]
  /\ UNCHANGED <<users, roles, grants, may, raced, out>>

\* The error of the count is not looked at: it stays zero.
DeleteRole_CountFails(w, r) ==
  /\ pc[w] = "idle" /\ budget.requests > 0 /\ budget.faults > 0 /\ roles[r] = "live"
  /\ budget' = [budget EXCEPT !.requests = @ - 1, !.faults = @ - 1]
  /\ raced' = raced \cup (grants \cap (Users \X {r}))
  /\ Goto(w, "deleteRole") /\ req' = [req EXCEPT ![w].role = r]
  /\ UNCHANGED <<users, roles, grants, may, out>>

DeleteRole_Delete(w) ==
  /\ pc[w] = "deleteRole"
  /\ roles' = [roles EXCEPT ![req[w].role] = "deleted"]
  /\ Free(w)
  /\ UNCHANGED <<users, grants, may, raced, out, budget>>

-----------------------------------------------------------------------------
(* SeedTestUsers, at each boot, before requests are served.                *)

Seeds == DOMAIN AdminSeed \cup DOMAIN TestSeed
SeedRole(a) == IF a \in DOMAIN AdminSeed THEN AdminSeed[a] ELSE TestSeed[a]

\* A missing role is created; the INSERT of one that has been deleted fails.
SeededRoles(R) ==
  [r \in Roles |-> IF R[r] = "none" /\ \E a \in Seeds : SeedRole(a) = r THEN "live" ELSE R[r]]

\* A seed account is made if its name was never used, and left out as long as its
\* role is deleted.
Made(a, U, R) == R[SeedRole(a)] = "live" /\ U[a].status = "none"
Kept(a, U, R) == R[SeedRole(a)] = "live" /\ U[a].status \in {"active", "disabled"}

\* The seeding assigns the role to a seed account with these assignments: when it
\* makes the account, to a test account that exists at every boot, and to a
\* governance account that exists if it has assignments, but none to its role.
Reassigned(a, A, U, R) ==
  \/ Made(a, U, R)
  \/ Kept(a, U, R) /\ (a \in DOMAIN TestSeed \/ (A # {} /\ SeedRole(a) \notin A))

\* A governance account that exists has its first assignment changed for that.
SeededAssigned(a, A, U, R, first) ==
  IF ~Reassigned(a, A, U, R) THEN A
  ELSE {SeedRole(a)} \cup
       IF a \in DOMAIN AdminSeed /\ Kept(a, U, R) THEN A \ {first[a]} ELSE A

SeededGrants(G, U, R, first) ==
  {g \in Users \X Roles :
     IF g[1] \in Seeds
     THEN g[2] \in SeededAssigned(g[1], {r \in Roles : <<g[1], r>> \in G}, U, R, first)
     ELSE g \in G}

\* Governance accounts get their role_code back; then every account with a frozen
\* role is disabled; then the test accounts are made.
Frozen(G, U, R, first) ==
  {u \in Users :
     /\ U[u].status \in {"active", "disabled"} \/ (u \in DOMAIN AdminSeed /\ Made(u, U, R))
     /\ \E r \in Xam : R[r] = "live" /\
          IF u \in DOMAIN AdminSeed THEN <<u, r>> \in SeededGrants(G, U, R, first)
                                    ELSE <<u, r>> \in G}

SeededUsers(G, U, R, first) ==
  [u \in Users |->
     [status |-> IF u \in Frozen(G, U, R, first) THEN "disabled"
                 ELSE IF u \in Seeds /\ Made(u, U, R) THEN "active" ELSE U[u].status,
      role |-> IF u \in Seeds /\ (Made(u, U, R) \/ (u \in DOMAIN AdminSeed /\ Kept(u, U, R)))
               THEN SeedRole(u) ELSE U[u].role]]

SeedTestUsers(G, U, R, first) ==
  /\ users' = SeededUsers(G, U, SeededRoles(R), first)
  /\ roles' = SeededRoles(R)
  /\ grants' = SeededGrants(G, U, SeededRoles(R), first)

\* OAS dies, with every request in it, and starts again; those of ams go on.  Which
\* assignment of a governance account is its first one is left open.  An account
\* may have again what the seeding assigns to it, whoever withdrew it before.
Restart ==
  LET R == SeededRoles(roles)
      ofAms == {w \in Workers : pc[w] = "amsSave"}
      revived == {req[w].user : w \in {v \in ofAms : req[v].row.status = "active"}}
  IN /\ Spend("crashes")
     /\ \E first \in [DOMAIN AdminSeed -> Roles] :
          /\ \A a \in DOMAIN AdminSeed : Assigned(a) # {} => first[a] \in Assigned(a)
          /\ SeedTestUsers(grants, users, roles, first)
          /\ out' = out \cup (Frozen(grants, users, R, first) \ revived)
     /\ pc' = [w \in Workers |-> IF w \in ofAms THEN "amsSave" ELSE "idle"]
     /\ req' = [w \in Workers |-> IF w \in ofAms THEN req[w] ELSE NoRequest]
     /\ may' = [u \in Users |->
                  may[u] \cup IF u \in Seeds /\ Reassigned(u, Assigned(u), users, R)
                             THEN {SeedRole(u)} ELSE {}]
     /\ UNCHANGED raced

Init ==
  LET U == [u \in Users |-> NoAccount]
      R == SeededRoles([r \in Roles |-> "none"])
      first == [a \in DOMAIN AdminSeed |-> AdminSeed[a]]
  IN /\ users = SeededUsers({}, U, R, first)
     /\ roles = R
     /\ grants = SeededGrants({}, U, R, first)
     /\ may = [u \in Users |-> IF u \in Seeds THEN {SeedRole(u)} ELSE {}]
     /\ pc = [w \in Workers |-> "idle"] /\ req = [w \in Workers |-> NoRequest]
     /\ raced = {} /\ out = {}
     /\ budget = [requests |-> MaxRequests, faults |-> MaxFaults, crashes |-> MaxCrashes]

Creation(w) ==
  \/ \E u \in Users, r \in Roles, S \in SUBSET Roles : CreateUser(w, u, r, S)
  \/ \E u \in Users, r \in Roles : CreateAdminAccount(w, u, r)
  \/ CreateUser_Insert(w) \/ CreateAdminAccount_Insert(w) \/ Create_Fails(w)
  \/ \E u \in Users : Register(w, u)

Assignment(w) ==
  \/ \E u \in Users, S \in SUBSET Roles :
       UpdateUserRoles(w, u, S) \/ UpdateUserRoles_DeleteFails(w, u, S)
  \/ \E r \in Roles : Grant_First(w, r)
  \/ Grant_Create(w) \/ Grant_CreateFails(w) \/ Grant_Done(w)

Status(w) ==
  \/ \E u \in Users :
       \/ \E st \in {"active", "disabled"} : UpdateUserStatus(w, u, st) \/ UpdateUser(w, u, st)
       \/ ResetAdminPassword(w, u) \/ EnableAdminAccount(w, u) \/ DisableAdminAccount(w, u)
       \/ DeleteUser(w, u)
  \/ Save(w) \/ UpdateUser_Save(w) \/ Save_Fails(w)
  \/ DeleteUser_Revoke(w) \/ DeleteUser_RevokeFails(w)

RoleTable(w) ==
  \/ \E r \in Roles : CreateRole(w, r) \/ DeleteRole(w, r) \/ DeleteRole_CountFails(w, r)
  \/ DeleteRole_Delete(w)

Next ==
  \/ \E w \in Workers : Creation(w) \/ Assignment(w) \/ Status(w) \/ RoleTable(w)
  \/ Restart

Spec == Init /\ [][Next]_vars

-----------------------------------------------------------------------------
(* Properties.                                                             *)

\* The type invariant of accounts, roles and assignments.
TypeOK ==
  /\ users \in [Users -> Account] /\ roles \in [Roles -> {"none", "live", "deleted"}]
  /\ grants \subseteq Users \X Roles /\ raced \subseteq Users \X Roles /\ out \subseteq Users
  /\ pc \in [Workers -> {"idle", "insert", "insertAdmin", "grant", "assign", "save", "amsSave",
                         "revoke", "deleteRole"}]
  /\ req \in [Workers -> Request]
  /\ may \in [Users -> SUBSET Roles]
  /\ budget \in [{"requests", "faults", "crashes"} -> Nat]

\* An assignment that was withdrawn stays withdrawn: once a request has replaced
\* or deleted the roles of an account, those assigned to it are only the ones that
\* this request gives it, that others still under way do, or that it was given
\* later, the seeding of a restart included.  The assignments are what ams puts
\* into its tokens, and OAS into those of accounts without a role_code.  The
\* role_code of an account that has one is in every OAS token, whatever its
\* assignments are; of that this says nothing.
WithdrawnRolesGone == \A u \in Users : Assigned(u) \subseteq may[u]

\* A role that is assigned to somebody is not deleted: an assignment to a role
\* that no longer exists was made while the role was being deleted.
AssignedRoleKept == \A g \in grants : roles[g[2]] = "live" \/ g \in raced

\* An account that is disabled or deleted, with no request under way that had read
\* it before, cannot log in again until somebody orders it to be enabled: no
\* password reset, change of roles, creation under its name or restart revives it.
StaysOut == \A u \in out : users[u].status # "active"
=============================================================================
