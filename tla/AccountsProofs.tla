--------------------------- MODULE AccountsProofs ---------------------------
(***************************************************************************)
(* Roles that are withdrawn are gone, roles that are assigned are kept,    *)
(* and accounts that are taken out stay out: for any number of accounts,   *)
(* roles and requests.                                                     *)
(***************************************************************************)
EXTENDS Accounts, TLAPS

Places == {"idle", "insert", "insertAdmin", "grant", "assign", "save", "amsSave", "revoke",
           "deleteRole"}
Saving == {"save", "amsSave"}
Budgets == {"requests", "faults", "crashes"}

\* What a request carries at each statement.
Carries(w) ==
  /\ pc[w] \in {"insert", "insertAdmin", "grant", "assign", "save", "amsSave", "revoke"} =>
       req[w].user \in Users
  /\ pc[w] \in {"insertAdmin", "assign", "deleteRole"} => req[w].role \in Roles
  /\ pc[w] \in {"idle", "insert", "grant"} => req[w].role = NoRole
  /\ pc[w] \in Saving => req[w].row.status \in {"active", "disabled"}

Base == TypeOK /\ \A w \in Workers : Carries(w)

-----------------------------------------------------------------------------
LEMMA Empty == NoAccount \in Account /\ NoRequest \in Request
BY DEF NoAccount, Account, NoRequest, Request

LEMMA SpendTyped ==
  ASSUME TypeOK, NEW b \in Budgets, Spend(b)
  PROVE  budget' \in [Budgets -> Nat]
<1>1. budget[b] \in Nat /\ budget[b] > 0 /\ budget' = [budget EXCEPT ![b] = budget[b] - 1]
  BY DEF TypeOK, Spend, Budgets
<1> QED
  BY <1>1 DEF TypeOK, Budgets

\* So does one that spends a request and a fault.
LEMMA SpendTwo ==
  ASSUME TypeOK, budget.requests > 0, budget.faults > 0,
         budget' = [budget EXCEPT !.requests = @ - 1, !.faults = @ - 1]
  PROVE  budget' \in [Budgets -> Nat]
<1>1. /\ budget["requests"] \in Nat /\ budget["requests"] > 0
      /\ budget["faults"] \in Nat /\ budget["faults"] > 0
  BY DEF TypeOK
<1>2. budget["requests"] - 1 \in Nat /\ budget["faults"] - 1 \in Nat
  BY <1>1
<1>3. budget \in [Budgets -> Nat]
  BY DEF TypeOK, Budgets
<1>4. budget' = [budget EXCEPT !["requests"] = budget["requests"] - 1,
                               !["faults"] = budget["faults"] - 1]
  BY <1>3 DEF Budgets
<1> QED
  BY <1>2, <1>3, <1>4 DEF Budgets

\* A request that goes on to another statement carries what it should there.
LEMMA MoveBase ==
  ASSUME Base, NEW w \in Workers, NEW at \in Places, NEW r \in Request,
         pc' = [pc EXCEPT ![w] = at], req' = [req EXCEPT ![w] = r],
         at \in {"insert", "insertAdmin", "grant", "assign", "save", "amsSave", "revoke"} =>
           r.user \in Users,
         at \in {"insertAdmin", "assign", "deleteRole"} => r.role \in Roles,
         at \in {"idle", "insert", "grant"} => r.role = NoRole,
         at \in Saving => r.row.status \in {"active", "disabled"}
  PROVE  /\ pc' \in [Workers -> Places] /\ req' \in [Workers -> Request]
         /\ \A v \in Workers : Carries(v)'
<1>1. pc \in [Workers -> Places] /\ req \in [Workers -> Request]
  BY DEF Base, TypeOK, Places
<1>2. ASSUME NEW v \in Workers PROVE Carries(v)'
  <2>1. CASE v = w
    <3>1. pc'[v] = at /\ req'[v] = r
      BY <2>1, <1>1
    <3> QED
      BY <3>1 DEF Carries
  <2>2. CASE v # w
    <3>1. pc'[v] = pc[v] /\ req'[v] = req[v]
      BY <2>2, <1>1
    <3> QED
      BY <3>1 DEF Carries, Base
  <2> QED
    BY <2>1, <2>2
<1> QED
  BY <1>1, <1>2

LEMMA FreeBase ==
  ASSUME Base, NEW w \in Workers, Free(w)
  PROVE  /\ pc' \in [Workers -> Places] /\ req' \in [Workers -> Request]
         /\ \A v \in Workers : Carries(v)'
<1>1. pc' = [pc EXCEPT ![w] = "idle"] /\ req' = [req EXCEPT ![w] = NoRequest]
  BY DEF Free, Goto
<1>2. NoRequest.role = NoRole /\ "idle" \in Places
  BY DEF NoRequest, Places
<1> QED
  BY <1>1, <1>2, Empty, MoveBase DEF Saving

\* A step that moves no request keeps what they carry.
LEMMA StayBase ==
  ASSUME Base, UNCHANGED <<pc, req>>
  PROVE  /\ pc' \in [Workers -> Places] /\ req' \in [Workers -> Request]
         /\ \A v \in Workers : Carries(v)'
BY DEF Base, TypeOK, Carries, Places

\* What the seeding leaves behind has the types of the tables.
LEMMA SeedTyped ==
  ASSUME NEW G, NEW U \in [Users -> Account], NEW R \in [Roles -> {"none", "live", "deleted"}],
         NEW first
  PROVE  /\ SeededRoles(R) \in [Roles -> {"none", "live", "deleted"}]
         /\ SeededUsers(G, U, R, first) \in [Users -> Account]
         /\ SeededGrants(G, U, R, first) \subseteq Users \X Roles
<1>1. SeededRoles(R) \in [Roles -> {"none", "live", "deleted"}]
  BY DEF SeededRoles
<1>2. \A a \in Seeds : SeedRole(a) \in Roles
  BY SeedAssumption DEF Seeds, SeedRole
<1>3. SeededUsers(G, U, R, first) \in [Users -> Account]
  BY <1>2 DEF SeededUsers, Account
<1>4. SeededGrants(G, U, R, first) \subseteq Users \X Roles
  BY DEF SeededGrants
<1> QED
  BY <1>1, <1>3, <1>4

LEMMA InitBase == Init => Base
<1> SUFFICES ASSUME Init PROVE Base
  OBVIOUS
<1> DEFINE U == [u \in Users |-> NoAccount]
           R0 == [r \in Roles |-> "none"]
           first == [a \in DOMAIN AdminSeed |-> AdminSeed[a]]
<1>1. U \in [Users -> Account] /\ R0 \in [Roles -> {"none", "live", "deleted"}]
  BY Empty
<1>2. SeededRoles(R0) \in [Roles -> {"none", "live", "deleted"}]
  BY <1>1, SeedTyped
<1>3. /\ users = SeededUsers({}, U, SeededRoles(R0), first) /\ roles = SeededRoles(R0)
      /\ grants = SeededGrants({}, U, SeededRoles(R0), first)
  BY DEF Init
<1>4. users \in [Users -> Account] /\ grants \subseteq Users \X Roles
  <2> HIDE DEF U, R0, first
  <2> QED
    BY <1>1, <1>2, <1>3, SeedTyped
<1>5. \A a \in Seeds : SeedRole(a) \in Roles
  BY SeedAssumption DEF Seeds, SeedRole
<1>6. may \in [Users -> SUBSET Roles]
  BY <1>5 DEF Init
<1>7. budget \in [Budgets -> Nat]
  BY BoundsAssumption DEF Init, Budgets
<1>8. pc \in [Workers -> Places] /\ req \in [Workers -> Request] /\ raced = {} /\ out = {}
  BY Empty DEF Init, Places
<1>9. TypeOK
  BY <1>2, <1>3, <1>4, <1>6, <1>7, <1>8 DEF TypeOK, Places, Budgets
<1>10. \A w \in Workers : Carries(w)
  BY DEF Init, Carries, NoRequest, Saving
<1> QED
  BY <1>9, <1>10 DEF Base

-----------------------------------------------------------------------------
\* The statements that create accounts keep the types and what requests carry.
LEMMA CreationBase ==
  ASSUME Base, NEW w \in Workers, Creation(w)
  PROVE  Base'
<1> USE DEF Base
<1>t. TypeOK /\ Carries(w)
  OBVIOUS
<1>i. pc[w] = "idle" => req[w] \in Request /\ req[w].role = NoRole
  BY <1>t DEF TypeOK, Carries
<1>r. req \in [Workers -> Request] /\ req[w] \in Request
  BY <1>t DEF TypeOK
<1>1. ASSUME NEW u \in Users, NEW r \in Roles, NEW S \in SUBSET Roles, CreateUser(w, u, r, S)
      PROVE  Base'
  <2> DEFINE q == [req[w] EXCEPT !.user = u, !.todo = IF S = {} THEN {r} ELSE S]
  <2>1. q \in Request /\ q.user = u /\ q.role = NoRole
    BY <1>1, <1>i DEF CreateUser, Accept, Request
  <2>2. pc' = [pc EXCEPT ![w] = "insert"] /\ req' = [req EXCEPT ![w] = q]
    BY <1>1, <1>r DEF CreateUser, Goto, Request
  <2>3. budget' \in [Budgets -> Nat]
    BY <1>1, SpendTyped DEF CreateUser, Accept, Budgets
  <2> HIDE DEF q
  <2>4. /\ pc' \in [Workers -> Places] /\ req' \in [Workers -> Request]
        /\ \A v \in Workers : Carries(v)'
    BY <2>1, <2>2, MoveBase DEF Places, Saving
  <2> QED
    BY <1>1, <2>3, <2>4 DEF CreateUser, TypeOK, Places, Budgets
<1>2. ASSUME NEW u \in Users, NEW r \in Roles, CreateAdminAccount(w, u, r)
      PROVE  Base'
  <2> DEFINE q == [req[w] EXCEPT !.user = u, !.role = r]
  <2>1. q \in Request /\ q.user = u /\ q.role = r
    BY <1>2, <1>i DEF CreateAdminAccount, Accept, Request
  <2>2. pc' = [pc EXCEPT ![w] = "insertAdmin"] /\ req' = [req EXCEPT ![w] = q]
    BY <1>2, <1>r DEF CreateAdminAccount, Goto, Request
  <2>3. budget' \in [Budgets -> Nat]
    BY <1>2, SpendTyped DEF CreateAdminAccount, Accept, Budgets
  <2> HIDE DEF q
  <2>4. /\ pc' \in [Workers -> Places] /\ req' \in [Workers -> Request]
        /\ \A v \in Workers : Carries(v)'
    BY <2>1, <2>2, MoveBase DEF Places, Saving
  <2> QED
    BY <1>2, <2>3, <2>4 DEF CreateAdminAccount, TypeOK, Places, Budgets
<1>3. CASE CreateUser_Insert(w)
  <2>1. pc[w] = "insert" /\ req[w].user \in Users /\ req[w].role = NoRole
    BY <1>3 DEF CreateUser_Insert, Carries
  <2>2. pc' = [pc EXCEPT ![w] = "grant"] /\ req' = [req EXCEPT ![w] = req[w]]
    BY <1>3, <1>r DEF CreateUser_Insert, Goto
  <2>3. /\ pc' \in [Workers -> Places] /\ req' \in [Workers -> Request]
        /\ \A v \in Workers : Carries(v)'
    BY <1>r, <2>1, <2>2, MoveBase DEF Places, Saving
  <2>4. users' \in [Users -> Account]
    BY <1>3 DEF CreateUser_Insert, TypeOK, Account
  <2>5. may' \in [Users -> SUBSET Roles]
    BY <1>3, <1>r DEF CreateUser_Insert, TypeOK, Request
  <2> QED
    BY <1>3, <2>3, <2>4, <2>5 DEF CreateUser_Insert, TypeOK, Places
<1>4. CASE CreateAdminAccount_Insert(w)
  <2>1. users' \in [Users -> Account]
    BY <1>4 DEF CreateAdminAccount_Insert, TypeOK, Account, Carries
  <2>2. /\ pc' \in [Workers -> Places] /\ req' \in [Workers -> Request]
        /\ \A v \in Workers : Carries(v)'
    BY <1>4, FreeBase DEF CreateAdminAccount_Insert
  <2> QED
    BY <1>4, <2>1, <2>2 DEF CreateAdminAccount_Insert, TypeOK, Places
<1>5. CASE Create_Fails(w)
  <2>1. /\ pc' \in [Workers -> Places] /\ req' \in [Workers -> Request]
        /\ \A v \in Workers : Carries(v)'
    BY <1>5, FreeBase DEF Create_Fails
  <2> QED
    BY <1>5, <2>1 DEF Create_Fails, TypeOK, Places
<1>6. ASSUME NEW u \in Users, Register(w, u)
      PROVE  Base'
  <2>1. users' \in [Users -> Account]
    BY <1>6 DEF Register, TypeOK, Account
  <2>2. budget' \in [Budgets -> Nat]
    BY <1>6, SpendTyped DEF Register, Accept, Budgets
  <2>3. /\ pc' \in [Workers -> Places] /\ req' \in [Workers -> Request]
        /\ \A v \in Workers : Carries(v)'
    BY <1>6, StayBase DEF Register
  <2> QED
    BY <1>6, <2>1, <2>2, <2>3 DEF Register, TypeOK, Places, Budgets
<1> QED
  BY <1>1, <1>2, <1>3, <1>4, <1>5, <1>6 DEF Creation

\* The roles of other requests are roles.
LEMMA PendingTyped ==
  ASSUME Base, NEW w \in Workers, NEW u \in Users
  PROVE  Pending(w, u) \subseteq Roles
<1>1. ASSUME NEW v \in Workers PROVE req[v].todo \cup ({req[v].role} \ {NoRole}) \subseteq Roles
  BY DEF Base, TypeOK, Request
<1> QED
  BY <1>1 DEF Pending

\* The statements that assign roles keep the types and what requests carry.
LEMMA AssignmentBase ==
  ASSUME Base, NEW w \in Workers, Assignment(w)
  PROVE  Base'
<1> USE DEF Base
<1>t. TypeOK /\ Carries(w)
  OBVIOUS
<1>r. req \in [Workers -> Request] /\ req[w] \in Request
  BY <1>t DEF TypeOK
<1>1. ASSUME NEW u \in Users, NEW S \in SUBSET Roles,
             UpdateUserRoles(w, u, S) \/ UpdateUserRoles_DeleteFails(w, u, S)
      PROVE  Base'
  <2> DEFINE q == [req[w] EXCEPT !.user = u, !.todo = S]
  <2>1. pc[w] = "idle"
    BY <1>1 DEF UpdateUserRoles, UpdateUserRoles_DeleteFails, Accept
  <2>2. q \in Request /\ q.user = u /\ q.role = NoRole
    BY <1>t, <1>r, <2>1 DEF Request, Carries
  <2>3. pc' = [pc EXCEPT ![w] = "grant"] /\ req' = [req EXCEPT ![w] = q]
    BY <1>1, <1>r DEF UpdateUserRoles, UpdateUserRoles_DeleteFails, Goto, Request
  <2>4. budget' \in [Budgets -> Nat]
    <3>1. CASE UpdateUserRoles(w, u, S)
      BY <3>1, SpendTyped DEF UpdateUserRoles, Accept, Budgets
    <3>2. CASE UpdateUserRoles_DeleteFails(w, u, S)
      BY <3>2, SpendTwo DEF UpdateUserRoles_DeleteFails
    <3> QED
      BY <1>1, <3>1, <3>2
  <2>5. may' \in [Users -> SUBSET Roles]
    BY <1>1, PendingTyped DEF UpdateUserRoles, UpdateUserRoles_DeleteFails, TypeOK
  <2> HIDE DEF q
  <2>6. /\ pc' \in [Workers -> Places] /\ req' \in [Workers -> Request]
        /\ \A v \in Workers : Carries(v)'
    BY <2>2, <2>3, MoveBase DEF Places, Saving
  <2> QED
    BY <1>1, <2>4, <2>5, <2>6
    DEF UpdateUserRoles, UpdateUserRoles_DeleteFails, TypeOK, Places, Budgets
<1>2. ASSUME NEW r \in Roles, Grant_First(w, r)
      PROVE  Base'
  <2>1. pc[w] = "grant" /\ req[w].user \in Users /\ req[w].role = NoRole
    BY <1>2 DEF Grant_First, Carries
  <2> DEFINE q == [req[w] EXCEPT !.todo = @ \ {r}]
             qr == [req[w] EXCEPT !.todo = @ \ {r}, !.role = r]
  <2>2. q \in Request /\ q.user \in Users /\ q.role = NoRole
    BY <1>r, <2>1 DEF Request
  <2>3. qr \in Request /\ qr.user \in Users /\ qr.role = r
    BY <1>r, <2>1 DEF Request
  <2>4. \/ pc' = [pc EXCEPT ![w] = "assign"] /\ req' = [req EXCEPT ![w] = qr]
        \/ pc' = [pc EXCEPT ![w] = "grant"] /\ req' = [req EXCEPT ![w] = q]
    BY <1>2, <1>r, <2>1 DEF Grant_First, Goto, TypeOK, Request
  <2> HIDE DEF q, qr
  <2>5. /\ pc' \in [Workers -> Places] /\ req' \in [Workers -> Request]
        /\ \A v \in Workers : Carries(v)'
    BY <2>2, <2>3, <2>4, MoveBase DEF Places, Saving
  <2> QED
    BY <1>2, <2>5 DEF Grant_First, TypeOK, Places
<1>3. CASE Grant_Create(w) \/ Grant_CreateFails(w)
  <2>1. pc[w] = "assign" /\ req[w].user \in Users /\ req[w].role \in Roles
    BY <1>3 DEF Grant_Create, Grant_CreateFails, Carries
  <2> DEFINE q == [req[w] EXCEPT !.role = NoRole]
  <2>2. q \in Request /\ q.user \in Users /\ q.role = NoRole
    BY <1>r, <2>1 DEF Request
  <2>3. pc' = [pc EXCEPT ![w] = "grant"] /\ req' = [req EXCEPT ![w] = q]
    BY <1>3, <1>r DEF Grant_Create, Grant_CreateFails, Goto, Request
  <2>4. grants' \subseteq Users \X Roles /\ raced' \subseteq Users \X Roles
    BY <1>3, <2>1 DEF Grant_Create, Grant_CreateFails, TypeOK
  <2>5. budget' \in [Budgets -> Nat]
    BY <1>3, SpendTyped DEF Grant_Create, Grant_CreateFails, TypeOK, Budgets
  <2> HIDE DEF q
  <2>6. /\ pc' \in [Workers -> Places] /\ req' \in [Workers -> Request]
        /\ \A v \in Workers : Carries(v)'
    BY <2>2, <2>3, MoveBase DEF Places, Saving
  <2> QED
    BY <1>3, <2>4, <2>5, <2>6 DEF Grant_Create, Grant_CreateFails, TypeOK, Places, Budgets
<1>4. CASE Grant_Done(w)
  <2>1. /\ pc' \in [Workers -> Places] /\ req' \in [Workers -> Request]
        /\ \A v \in Workers : Carries(v)'
    BY <1>4, FreeBase DEF Grant_Done
  <2> QED
    BY <1>4, <2>1 DEF Grant_Done, TypeOK, Places
<1> QED
  BY <1>1, <1>2, <1>3, <1>4 DEF Assignment

\* The statements on the status of an account keep the types and what requests carry.
LEMMA StatusBase ==
  ASSUME Base, NEW w \in Workers, Status(w)
  PROVE  Base'
<1> USE DEF Base
<1>t. TypeOK /\ Carries(w)
  OBVIOUS
<1>r. req \in [Workers -> Request] /\ req[w] \in Request
  BY <1>t DEF TypeOK
<1>1. ASSUME NEW u \in Users, NEW st \in {"active", "disabled"}, UpdateUserStatus(w, u, st)
      PROVE  Base'
  <2>1. users' \in [Users -> Account]
    BY <1>1 DEF UpdateUserStatus, TypeOK, Account
  <2>2. out' \subseteq Users
    BY <1>1 DEF UpdateUserStatus, TakenOut, TypeOK
  <2>3. budget' \in [Budgets -> Nat]
    BY <1>1, SpendTyped DEF UpdateUserStatus, Accept, Budgets
  <2>4. /\ pc' \in [Workers -> Places] /\ req' \in [Workers -> Request]
        /\ \A v \in Workers : Carries(v)'
    BY <1>1, StayBase DEF UpdateUserStatus
  <2> QED
    BY <1>1, <2>1, <2>2, <2>3, <2>4 DEF UpdateUserStatus, TypeOK, Places, Budgets
<1>2. ASSUME NEW u \in Users, NEW st \in {"active", "disabled"}, NEW at \in Saving,
             HoldRow(w, u, st, at), out' \subseteq Users
      PROVE  Base'
  <2> DEFINE q == [req[w] EXCEPT !.user = u, !.row = [status |-> st, role |-> users[u].role]]
  <2>1. [status |-> st, role |-> users[u].role] \in Account
    BY <1>t DEF TypeOK, Account
  <2>2. q \in Request /\ q.user = u /\ q.row.status = st
    BY <1>r, <2>1 DEF Request
  <2>3. pc' = [pc EXCEPT ![w] = at] /\ req' = [req EXCEPT ![w] = q]
    BY <1>2, <1>r DEF HoldRow, Goto, Request
  <2>4. budget' \in [Budgets -> Nat]
    BY <1>2, SpendTyped DEF HoldRow, Accept, Budgets
  <2> HIDE DEF q
  <2>5. /\ pc' \in [Workers -> Places] /\ req' \in [Workers -> Request]
        /\ \A v \in Workers : Carries(v)'
    BY <2>2, <2>3, MoveBase DEF Places, Saving
  <2> QED
    BY <1>2, <2>4, <2>5 DEF HoldRow, TypeOK, Places, Budgets
<1>3. ASSUME NEW u \in Users,
             \/ ResetAdminPassword(w, u) \/ EnableAdminAccount(w, u) \/ DisableAdminAccount(w, u)
             \/ \E st \in {"active", "disabled"} : UpdateUser(w, u, st)
      PROVE  Base'
  <2>1. out' \subseteq Users
    BY <1>3 DEF ResetAdminPassword, EnableAdminAccount, DisableAdminAccount, UpdateUser, TypeOK
  <2>2. \E st \in {"active", "disabled"}, at \in Saving : HoldRow(w, u, st, at)
    BY <1>3 DEF ResetAdminPassword, EnableAdminAccount, DisableAdminAccount, UpdateUser, ReadRow,
                HoldRow, Live, Saving
  <2> QED
    BY <1>2, <2>1, <2>2
<1>4. ASSUME NEW u \in Users, DeleteUser(w, u)
      PROVE  Base'
  <2> DEFINE q == [req[w] EXCEPT !.user = u]
  <2>1. q \in Request /\ q.user = u
    BY <1>r DEF Request
  <2>2. pc' = [pc EXCEPT ![w] = "revoke"] /\ req' = [req EXCEPT ![w] = q]
    BY <1>4, <1>r DEF DeleteUser, Goto, Request
  <2>3. budget' \in [Budgets -> Nat]
    BY <1>4, SpendTyped DEF DeleteUser, Accept, Budgets
  <2>4. users' \in [Users -> Account]
    BY <1>4 DEF DeleteUser, TypeOK, Account
  <2>5. out' \subseteq Users
    BY <1>4 DEF DeleteUser, TakenOut, TypeOK
  <2> HIDE DEF q
  <2>6. /\ pc' \in [Workers -> Places] /\ req' \in [Workers -> Request]
        /\ \A v \in Workers : Carries(v)'
    BY <2>1, <2>2, MoveBase DEF Places, Saving
  <2> QED
    BY <1>4, <2>3, <2>4, <2>5, <2>6 DEF DeleteUser, TypeOK, Places, Budgets
<1>5. CASE \/ Save(w) \/ UpdateUser_Save(w) \/ Save_Fails(w)
           \/ DeleteUser_Revoke(w) \/ DeleteUser_RevokeFails(w)
  <2>1. /\ Free(w) /\ req[w].user \in Users
        /\ UpdateUser_Save(w) => req[w].row.status \in {"active", "disabled"}
    BY <1>5
    DEF Saving, Save, UpdateUser_Save, Save_Fails, DeleteUser_Revoke, DeleteUser_RevokeFails, Carries
  <2>2. /\ pc' \in [Workers -> Places] /\ req' \in [Workers -> Request]
        /\ \A v \in Workers : Carries(v)'
    BY <2>1, FreeBase
  <2>3. users' \in [Users -> Account]
    <3>1. CASE UpdateUser_Save(w)
      BY <2>1, <3>1 DEF UpdateUser_Save, TypeOK, Account
    <3>2. CASE ~UpdateUser_Save(w)
      BY <1>5, <1>r, <2>1, <3>2
      DEF Save, Save_Fails, DeleteUser_Revoke, DeleteUser_RevokeFails, TypeOK, Request
    <3> QED
      BY <3>1, <3>2
  <2>4. may' \in [Users -> SUBSET Roles]
    BY <1>5, <2>1, PendingTyped
    DEF Save, UpdateUser_Save, Save_Fails, DeleteUser_Revoke, DeleteUser_RevokeFails, TypeOK
  <2>5. budget' \in [Budgets -> Nat]
    BY <1>5, SpendTyped
    DEF Save, UpdateUser_Save, Save_Fails, DeleteUser_Revoke, DeleteUser_RevokeFails, TypeOK,
        Budgets
  <2>6. out' \subseteq Users /\ grants' \subseteq Users \X Roles
    BY <1>5, <2>1
    DEF Save, UpdateUser_Save, Save_Fails, DeleteUser_Revoke, DeleteUser_RevokeFails, TypeOK,
        TakenOut
  <2> QED
    BY <1>5, <2>2, <2>3, <2>4, <2>5, <2>6
    DEF Save, UpdateUser_Save, Save_Fails, DeleteUser_Revoke, DeleteUser_RevokeFails, TypeOK,
        Places, Budgets
<1> QED
  BY <1>1, <1>3, <1>4, <1>5 DEF Status

\* The statements on the roles keep the types and what requests carry.
LEMMA RoleTableBase ==
  ASSUME Base, NEW w \in Workers, RoleTable(w)
  PROVE  Base'
<1> USE DEF Base
<1>t. TypeOK /\ Carries(w)
  OBVIOUS
<1>r. req \in [Workers -> Request] /\ req[w] \in Request
  BY <1>t DEF TypeOK
<1>1. ASSUME NEW r \in Roles, CreateRole(w, r)
      PROVE  Base'
  <2>1. budget' \in [Budgets -> Nat]
    BY <1>1, SpendTyped DEF CreateRole, Accept, Budgets
  <2>2. /\ pc' \in [Workers -> Places] /\ req' \in [Workers -> Request]
        /\ \A v \in Workers : Carries(v)'
    BY <1>1, StayBase DEF CreateRole
  <2> QED
    BY <1>1, <2>1, <2>2 DEF CreateRole, TypeOK, Places, Budgets
<1>2. ASSUME NEW r \in Roles, DeleteRole(w, r) \/ DeleteRole_CountFails(w, r)
      PROVE  Base'
  <2> DEFINE q == [req[w] EXCEPT !.role = r]
  <2>1. q \in Request /\ q.role = r
    BY <1>r DEF Request
  <2>2. pc' = [pc EXCEPT ![w] = "deleteRole"] /\ req' = [req EXCEPT ![w] = q]
    BY <1>2, <1>r DEF DeleteRole, DeleteRole_CountFails, Goto, Request
  <2>3. budget' \in [Budgets -> Nat]
    BY <1>2, SpendTyped, SpendTwo DEF DeleteRole, DeleteRole_CountFails, Accept, Budgets
  <2>4. raced' \subseteq Users \X Roles
    BY <1>2 DEF DeleteRole, DeleteRole_CountFails, TypeOK
  <2> HIDE DEF q
  <2>5. /\ pc' \in [Workers -> Places] /\ req' \in [Workers -> Request]
        /\ \A v \in Workers : Carries(v)'
    BY <2>1, <2>2, MoveBase DEF Places, Saving
  <2> QED
    BY <1>2, <2>3, <2>4, <2>5
    DEF DeleteRole, DeleteRole_CountFails, TypeOK, Places, Budgets
<1>3. CASE DeleteRole_Delete(w)
  <2>1. /\ pc' \in [Workers -> Places] /\ req' \in [Workers -> Request]
        /\ \A v \in Workers : Carries(v)'
    BY <1>3, FreeBase DEF DeleteRole_Delete
  <2> QED
    BY <1>3, <2>1 DEF DeleteRole_Delete, TypeOK, Places
<1> QED
  BY <1>1, <1>2, <1>3 DEF RoleTable

\* A restart leaves only the requests of ams under way.
LEMMA RestartKeeps ==
  ASSUME Restart, NEW w \in Workers
  PROVE  \/ pc'[w] = "idle" /\ req'[w] = NoRequest
         \/ pc'[w] = "amsSave" /\ pc[w] = "amsSave" /\ req'[w] = req[w]
BY DEF Restart

LEMMA RestartBase ==
  ASSUME Base, Restart
  PROVE  Base'
<1> USE DEF Base
<1>1. PICK first \in [DOMAIN AdminSeed -> Roles] :
        /\ SeedTestUsers(grants, users, roles, first)
        /\ out' \subseteq out \cup Frozen(grants, users, SeededRoles(roles), first)
  BY DEF Restart
<1>2. users \in [Users -> Account] /\ roles \in [Roles -> {"none", "live", "deleted"}]
  BY DEF TypeOK
<1>3. roles' \in [Roles -> {"none", "live", "deleted"}]
  BY <1>1, <1>2, SeedTyped DEF SeedTestUsers
<1>4. users' \in [Users -> Account] /\ grants' \subseteq Users \X Roles
  BY <1>1, <1>2, <1>3, SeedTyped DEF SeedTestUsers
<1>5. out' \subseteq Users
  BY <1>1 DEF Frozen, TypeOK
<1>6. may' \in [Users -> SUBSET Roles]
  <2>1. \A a \in Seeds : SeedRole(a) \in Roles
    BY SeedAssumption DEF Seeds, SeedRole
  <2> QED
    BY <2>1 DEF Restart, TypeOK
<1>7. budget' \in [Budgets -> Nat]
  BY SpendTyped DEF Restart, Budgets
<1>8. pc' \in [Workers -> Places] /\ req' \in [Workers -> Request]
  BY Empty DEF Restart, Places, TypeOK
<1>9. \A w \in Workers : Carries(w)'
  BY RestartKeeps DEF Carries, NoRequest, Saving
<1> QED
  BY <1>3, <1>4, <1>5, <1>6, <1>7, <1>8, <1>9 DEF Restart, TypeOK, Places, Budgets

LEMMA BaseStep == Base /\ [Next]_vars => Base'
<1> SUFFICES ASSUME Base, [Next]_vars PROVE Base'
  OBVIOUS
<1>1. CASE UNCHANGED vars
  BY <1>1 DEF vars, Base, TypeOK, Carries
<1> QED
  BY <1>1, CreationBase, AssignmentBase, StatusBase, RoleTableBase, RestartBase DEF Next

\* Users, roles, assignments and requests keep their types.
THEOREM TypeCorrect == Spec => []TypeOK
<1>1. Spec => []Base
  BY InitBase, BaseStep, PTL DEF Spec
<1>2. Base => TypeOK
  BY DEF Base
<1> QED
  BY <1>1, <1>2, PTL

-----------------------------------------------------------------------------
(* Accounts taken out.  An account in `out' is disabled or deleted, and no *)
(* row about to be saved would make it active.                             *)

OutInv ==
  /\ \A u \in out : users[u].status \in {"disabled", "deleted"}
  /\ \A w \in Workers :
       pc[w] \in Saving /\ req[w].user \in out => req[w].row.status = "disabled"

\* A step that takes no account out, makes none that is out active and has no new
\* row to save keeps the invariant.
LEMMA OutQuiet ==
  ASSUME Base, OutInv, out' \subseteq out,
         \A u \in out' : users'[u].status \in {"disabled", "deleted"},
         \A v \in Workers : pc'[v] \in Saving => pc'[v] = pc[v] /\ req'[v] = req[v]
  PROVE  OutInv'
BY DEF OutInv

\* A request that goes on to a place other than saving leaves the others alone.
LEMMA OutMoves ==
  ASSUME Base, NEW w \in Workers, NEW at \in Places \ Saving, NEW r,
         pc' = [pc EXCEPT ![w] = at], req' = [req EXCEPT ![w] = r]
  PROVE  \A v \in Workers : pc'[v] \in Saving => pc'[v] = pc[v] /\ req'[v] = req[v]
BY DEF Base, TypeOK

\* Taking an account out while its own request is not about to save keeps it.
LEMMA OutTaken ==
  ASSUME Base, OutInv, NEW w \in Workers, NEW u \in Users, TakenOut(w, u),
         users'[u].status \in {"disabled", "deleted"},
         \A x \in Users \ {u} : users'[x] = users[x],
         pc'[w] \notin Saving,
         \A v \in Workers \ {w} : pc'[v] = pc[v] /\ req'[v] = req[v]
  PROVE  OutInv'
<1>1. \A x \in out' : users'[x].status \in {"disabled", "deleted"}
  BY DEF TakenOut, OutInv, Base, TypeOK
<1>2. ASSUME NEW v \in Workers, pc'[v] \in Saving, req'[v].user \in out'
      PROVE  req'[v].row.status = "disabled"
  <2>1. v # w /\ pc[v] \in Saving /\ req'[v] = req[v]
    BY <1>2
  <2>2. req[v].row.status \in {"active", "disabled"}
    BY <2>1 DEF Base, Carries
  <2>3. CASE req[v].user = u
    <3>1. NotRevived(w, u)
      BY <1>2, <2>1, <2>3 DEF TakenOut
    <3>2. req[v].row.status # "active"
      BY <2>1, <2>3, <3>1 DEF NotRevived, Saving
    <3> QED
      BY <2>1, <2>2, <3>2
  <2>4. CASE req[v].user # u
    BY <1>2, <2>1, <2>4 DEF TakenOut, OutInv
  <2> QED
    BY <2>3, <2>4
<1> QED
  BY <1>1, <1>2 DEF OutInv

\* The accounts that a request of ams is about to make active.
Revived ==
  {req[w].user : w \in {v \in {x \in Workers : pc[x] = "amsSave"} : req[v].row.status = "active"}}

LEMMA OutStep == Base /\ OutInv /\ [Next]_vars => OutInv'
<1> SUFFICES ASSUME Base, OutInv, [Next]_vars PROVE OutInv'
  OBVIOUS
<1>t. TypeOK /\ req \in [Workers -> Request] /\ pc \in [Workers -> Places]
  BY DEF Base, TypeOK, Places
<1>o. \A u \in out : u \in Users /\ users[u].status \in {"disabled", "deleted"}
  BY DEF Base, TypeOK, OutInv
<1>1. CASE UNCHANGED vars
  BY <1>1, OutQuiet, <1>o DEF vars
<1>2. ASSUME NEW w \in Workers, Creation(w) PROVE OutInv'
  <2>1. /\ out' = out
        /\ \A u \in Users : users'[u] # users[u] => users[u].status = "none"
    BY <1>2, <1>t
    DEF Creation, Register, CreateUser, CreateAdminAccount, CreateUser_Insert,
        CreateAdminAccount_Insert, Create_Fails, TypeOK
  <2>2. \/ pc' = pc /\ req' = req
        \/ \E at \in Places \ Saving : \E r :
             pc' = [pc EXCEPT ![w] = at] /\ req' = [req EXCEPT ![w] = r]
    <3>1. CASE \E u \in Users, r \in Roles, S \in SUBSET Roles : CreateUser(w, u, r, S)
      <4>1. PICK u \in Users, r \in Roles, S \in SUBSET Roles : CreateUser(w, u, r, S)
        BY <3>1
      <4> DEFINE q == [req[w] EXCEPT !.user = u, !.todo = IF S = {} THEN {r} ELSE S]
      <4>2. pc' = [pc EXCEPT ![w] = "insert"] /\ req' = [req EXCEPT ![w] = q]
        BY <4>1, <1>t DEF CreateUser, Goto, Request
      <4> HIDE DEF q
      <4> QED
        BY <4>2 DEF Places, Saving
    <3>2. CASE \E u \in Users, r \in Roles : CreateAdminAccount(w, u, r)
      <4>1. PICK u \in Users, r \in Roles : CreateAdminAccount(w, u, r)
        BY <3>2
      <4> DEFINE q == [req[w] EXCEPT !.user = u, !.role = r]
      <4>2. pc' = [pc EXCEPT ![w] = "insertAdmin"] /\ req' = [req EXCEPT ![w] = q]
        BY <4>1, <1>t DEF CreateAdminAccount, Goto, Request
      <4> HIDE DEF q
      <4> QED
        BY <4>2 DEF Places, Saving
    <3>3. CASE CreateUser_Insert(w)
      <4>1. pc' = [pc EXCEPT ![w] = "grant"] /\ req' = [req EXCEPT ![w] = req[w]]
        BY <3>3, <1>t DEF CreateUser_Insert, Goto
      <4> QED
        BY <4>1 DEF Places, Saving
    <3>4. CASE CreateAdminAccount_Insert(w) \/ Create_Fails(w)
      BY <3>4 DEF CreateAdminAccount_Insert, Create_Fails, Free, Goto, Places, Saving
    <3>5. CASE \E u \in Users : Register(w, u)
      BY <3>5 DEF Register
    <3> QED
      BY <1>2, <3>1, <3>2, <3>3, <3>4, <3>5 DEF Creation
  <2>3. \A v \in Workers : pc'[v] \in Saving => pc'[v] = pc[v] /\ req'[v] = req[v]
    BY <2>2, OutMoves
  <2>4. \A u \in out' : users'[u].status \in {"disabled", "deleted"}
    BY <1>o, <2>1
  <2> QED
    BY <2>1, <2>3, <2>4, OutQuiet
<1>3. ASSUME NEW w \in Workers, Assignment(w) PROVE OutInv'
  <2>1. out' = out /\ users' = users
    BY <1>3 DEF Assignment, UpdateUserRoles, UpdateUserRoles_DeleteFails, Grant_First, Grant_Create,
                Grant_CreateFails, Grant_Done
  <2>2. /\ pc'[w] \notin Saving
        /\ \A v \in Workers \ {w} : pc'[v] = pc[v] /\ req'[v] = req[v]
    BY <1>3, <1>t DEF Assignment, UpdateUserRoles, UpdateUserRoles_DeleteFails, Grant_First,
                      Grant_Create, Grant_CreateFails, Grant_Done, Free, Goto, Saving
  <2> QED
    BY <1>o, <2>1, <2>2, OutQuiet
<1>4. ASSUME NEW w \in Workers, Status(w) PROVE OutInv'
  <2>1. ASSUME NEW u \in Users, NEW st \in {"active", "disabled"}, UpdateUserStatus(w, u, st)
        PROVE  OutInv'
    <3>1. /\ users'[u].status = st /\ \A x \in Users \ {u} : users'[x] = users[x]
          /\ pc[w] \notin Saving /\ pc' = pc /\ req' = req
      BY <2>1, <1>t DEF UpdateUserStatus, Accept, TypeOK, Account, Saving
    <3>2. CASE st = "disabled"
      BY <2>1, <3>1, <3>2, OutTaken DEF UpdateUserStatus
    <3>3. CASE st = "active"
      <4>1. out' = out \ {u}
        BY <2>1, <3>3 DEF UpdateUserStatus
      <4> QED
        BY <1>o, <3>1, <4>1, OutQuiet
    <3> QED
      BY <3>2, <3>3
  <2>2. ASSUME NEW u \in Users, NEW st \in {"active", "disabled"}, NEW at \in Saving,
               HoldRow(w, u, st, at), out' \subseteq out, u \in out' => st = "disabled"
        PROVE  OutInv'
    <3>1. /\ users' = users /\ pc'[w] = at /\ req'[w].user = u /\ req'[w].row.status = st
          /\ \A v \in Workers \ {w} : pc'[v] = pc[v] /\ req'[v] = req[v]
      BY <2>2, <1>t DEF HoldRow, Goto, Request
    <3>2. ASSUME NEW v \in Workers, pc'[v] \in Saving, req'[v].user \in out'
          PROVE  req'[v].row.status = "disabled"
      BY <2>2, <3>1, <3>2 DEF OutInv
    <3> QED
      BY <1>o, <2>2, <3>1, <3>2 DEF OutInv
  <2>3. ASSUME NEW u \in Users,
               \/ ResetAdminPassword(w, u) \/ EnableAdminAccount(w, u) \/ DisableAdminAccount(w, u)
               \/ \E st \in {"active", "disabled"} : UpdateUser(w, u, st)
        PROVE  OutInv'
    <3>0. "save" \in Saving /\ "amsSave" \in Saving
      BY DEF Saving
    <3>1. CASE ResetAdminPassword(w, u)
      <4>1. users[u].status \in {"active", "disabled"}
        BY <3>1 DEF ResetAdminPassword, ReadRow, HoldRow, Live
      <4>2. u \in out => users[u].status = "disabled"
        BY <1>o, <4>1
      <4> QED
        BY <2>2, <3>0, <3>1, <4>1, <4>2 DEF ResetAdminPassword, ReadRow
    <3>2. CASE EnableAdminAccount(w, u)
      BY <2>2, <3>0, <3>2 DEF EnableAdminAccount, ReadRow
    <3>3. CASE DisableAdminAccount(w, u)
      BY <2>2, <3>0, <3>3 DEF DisableAdminAccount, ReadRow
    <3>4. ASSUME NEW st \in {"active", "disabled"}, UpdateUser(w, u, st) PROVE OutInv'
      BY <2>2, <3>0, <3>4 DEF UpdateUser
    <3> QED
      BY <2>3, <3>1, <3>2, <3>3, <3>4
  <2>4. ASSUME NEW u \in Users, DeleteUser(w, u) PROVE OutInv'
    <3>1. /\ users'[u].status = "deleted" /\ \A x \in Users \ {u} : users'[x] = users[x]
          /\ pc'[w] \notin Saving /\ TakenOut(w, u)
          /\ \A v \in Workers \ {w} : pc'[v] = pc[v] /\ req'[v] = req[v]
      BY <2>4, <1>t DEF DeleteUser, Goto, TypeOK, Account, Saving
    <3> QED
      BY <3>1, OutTaken
  <2>5. CASE Save(w) \/ UpdateUser_Save(w)
    <3> DEFINE u == req[w].user
    <3>0. u \in Users /\ req[w].row.status \in {"active", "disabled"} /\ pc[w] \in Saving
      BY <2>5 DEF Save, UpdateUser_Save, Base, Carries, Saving
    <3>1. /\ users'[u].status = req[w].row.status /\ \A x \in Users \ {u} : users'[x] = users[x]
          /\ pc'[w] \notin Saving /\ \A v \in Workers \ {w} : pc'[v] = pc[v] /\ req'[v] = req[v]
      BY <2>5, <3>0, <1>t DEF Save, UpdateUser_Save, Free, Goto, TypeOK, Account, Saving
    <3>2. CASE req[w].row.status = "disabled"
      <4>1. TakenOut(w, u)
        BY <2>5, <3>2 DEF Save, UpdateUser_Save
      <4> QED
        BY <3>0, <3>1, <3>2, <4>1, OutTaken
    <3>3. CASE req[w].row.status = "active"
      <4>1. out' = out /\ u \notin out
        BY <2>5, <3>0, <3>3 DEF Save, UpdateUser_Save, OutInv
      <4> QED
        BY <1>o, <3>0, <3>1, <4>1, OutQuiet
    <3> QED
      BY <3>0, <3>2, <3>3
  <2>6. CASE Save_Fails(w) \/ DeleteUser_Revoke(w) \/ DeleteUser_RevokeFails(w)
    <3>1. out' = out /\ users' = users /\ pc' = [pc EXCEPT ![w] = "idle"]
          /\ req' = [req EXCEPT ![w] = NoRequest]
      BY <2>6 DEF Save_Fails, DeleteUser_Revoke, DeleteUser_RevokeFails, Free, Goto
    <3>2. \A v \in Workers : pc'[v] \in Saving => pc'[v] = pc[v] /\ req'[v] = req[v]
      BY <3>1, OutMoves DEF Places, Saving
    <3> QED
      BY <1>o, <3>1, <3>2, OutQuiet
  <2> QED
    BY <1>4, <2>1, <2>3, <2>4, <2>5, <2>6 DEF Status
<1>5. ASSUME NEW w \in Workers, RoleTable(w) PROVE OutInv'
  <2>1. out' = out /\ users' = users
    BY <1>5 DEF RoleTable, CreateRole, DeleteRole, DeleteRole_CountFails, DeleteRole_Delete
  <2>2. \A v \in Workers : pc'[v] \in Saving => pc'[v] = pc[v] /\ req'[v] = req[v]
    BY <1>5, <1>t
    DEF RoleTable, CreateRole, DeleteRole, DeleteRole_CountFails, DeleteRole_Delete, Free, Goto,
        Saving
  <2> QED
    BY <1>o, <2>1, <2>2, OutQuiet
<1>6. CASE Restart
  <2>1. PICK first \in [DOMAIN AdminSeed -> Roles] :
          /\ SeedTestUsers(grants, users, roles, first)
          /\ out' = out \cup (Frozen(grants, users, SeededRoles(roles), first) \ Revived)
    BY <1>6 DEF Restart, Revived
  <2> DEFINE F == Frozen(grants, users, SeededRoles(roles), first)
  <2>2. \A u \in Users : u \in F => users'[u].status = "disabled"
    BY <2>1 DEF SeedTestUsers, SeededUsers
  <2>3. ASSUME NEW u \in out, u \notin F PROVE users'[u].status = users[u].status
    <3>1. u \in Users /\ users[u].status # "none"
      BY <1>o
    <3>2. ~Made(u, users, SeededRoles(roles))
      BY <3>1 DEF Made
    <3> QED
      BY <2>1, <2>3, <3>1, <3>2 DEF SeedTestUsers, SeededUsers
  <2>4. F \subseteq Users
    BY DEF Frozen
  <2>5. \A u \in out' : users'[u].status \in {"disabled", "deleted"}
    <3> HIDE DEF F
    <3> QED
      BY <1>o, <2>1, <2>2, <2>3, <2>4 DEF F
  <2>6. ASSUME NEW v \in Workers, pc'[v] \in Saving, req'[v].user \in out'
        PROVE  req'[v].row.status = "disabled"
    <3>1. pc[v] = "amsSave" /\ req'[v] = req[v]
      BY <1>6, <2>6, RestartKeeps DEF Saving
    <3>2. req[v].row.status \in {"active", "disabled"}
      BY <3>1 DEF Base, Carries, Saving
    <3>3. CASE req[v].user \in out
      BY <3>1, <3>3 DEF OutInv, Saving
    <3>4. CASE req[v].user \notin out
      BY <2>1, <2>6, <3>1, <3>2, <3>4 DEF Revived
    <3> QED
      BY <3>3, <3>4
  <2> QED
    BY <2>5, <2>6 DEF OutInv
<1> QED
  BY <1>1, <1>2, <1>3, <1>4, <1>5, <1>6 DEF Next

\* A disabled or deleted account stays out until somebody orders it to be
\* enabled, if no request that had read it before was under way.
THEOREM StaysOutCorrect == Spec => []StaysOut
<1>1. Init => Base /\ OutInv
  BY InitBase DEF Init, OutInv
<1>2. Base /\ OutInv /\ [Next]_vars => (Base /\ OutInv)'
  BY BaseStep, OutStep
<1>3. OutInv => StaysOut
  BY DEF OutInv, StaysOut
<1> QED
  BY <1>1, <1>2, <1>3, PTL DEF Spec

-----------------------------------------------------------------------------
(* Withdrawn roles.  What is assigned to an account, and what requests are *)
(* about to assign to it, is within what it may have.                      *)

Giving(w) == pc[w] \in {"grant", "assign"}
Given(w) == req[w].todo \cup ({req[w].role} \ {NoRole})

MayInv ==
  /\ \A g \in grants : g[2] \in may[g[1]]
  /\ \A w \in Workers : Giving(w) => Given(w) \subseteq may[req[w].user]

\* Fewer assignments, fewer roles under way, more that is allowed.
LEMMA MayQuiet ==
  ASSUME Base, MayInv, grants' \subseteq grants,
         \A u \in Users : may[u] \subseteq may'[u],
         \A v \in Workers : Giving(v)' =>
           Giving(v) /\ req'[v].user = req[v].user /\ Given(v)' \subseteq Given(v)
  PROVE  MayInv'
<1>1. \A g \in grants' : g[2] \in may'[g[1]]
  BY DEF MayInv, Base, TypeOK
<1>2. ASSUME NEW v \in Workers, Giving(v)' PROVE Given(v)' \subseteq may'[req'[v].user]
  <2>1. Giving(v) /\ req'[v].user = req[v].user /\ Given(v)' \subseteq Given(v)
    BY <1>2
  <2>2. req[v].user \in Users
    BY <2>1 DEF Giving, Base, Carries
  <2> QED
    BY <2>1, <2>2 DEF MayInv
<1> QED
  BY <1>1, <1>2 DEF MayInv

\* The step that withdraws: the account has none of its old assignments, and may
\* have what its own request and the others under way give it.
LEMMA MayReset ==
  ASSUME Base, MayInv, NEW w \in Workers, NEW u \in Users, NEW S \in SUBSET Roles,
         grants' = grants \ Of(u), may' = [may EXCEPT ![u] = S \cup Pending(w, u)],
         \A v \in Workers \ {w} : pc'[v] = pc[v] /\ req'[v] = req[v],
         Giving(w)' => req'[w].user = u /\ Given(w)' \subseteq S
  PROVE  MayInv'
<1>1. may \in [Users -> SUBSET Roles] /\ grants \subseteq Users \X Roles
  BY DEF Base, TypeOK
<1>2. \A g \in grants' : g[1] # u /\ g \in grants /\ g[1] \in Users /\ g[2] \in Roles
  BY <1>1 DEF Of
<1>3. \A g \in grants' : g[2] \in may'[g[1]]
  BY <1>1, <1>2 DEF MayInv
<1>4. ASSUME NEW v \in Workers, Giving(v)' PROVE Given(v)' \subseteq may'[req'[v].user]
  <2>1. CASE v = w
    BY <1>1, <1>4, <2>1
  <2>2. CASE v # w
    <3>1. pc'[v] = pc[v] /\ req'[v] = req[v] /\ Giving(v) /\ Given(v)' = Given(v)
      BY <1>4, <2>2 DEF Giving, Given
    <3>2. req[v].user \in Users
      BY <3>1 DEF Giving, Base, Carries
    <3>3. CASE req[v].user = u
      <4>1. Given(v) \subseteq Pending(w, u)
        BY <2>2, <3>1, <3>3 DEF Giving, Given, Pending
      <4> QED
        BY <1>1, <3>1, <3>3, <4>1
    <3>4. CASE req[v].user # u
      BY <1>1, <3>1, <3>2, <3>4 DEF MayInv
    <3> QED
      BY <3>3, <3>4
  <2> QED
    BY <2>1, <2>2
<1> QED
  BY <1>3, <1>4 DEF MayInv

LEMMA MayCreation ==
  ASSUME Base, MayInv, NEW w \in Workers, Creation(w)
  PROVE  MayInv'
<1>t. /\ req \in [Workers -> Request] /\ pc \in [Workers -> Places]
      /\ may \in [Users -> SUBSET Roles] /\ Carries(w)
  BY DEF Base, TypeOK, Places
<1>1. CASE \/ \E u \in Users, r \in Roles, S \in SUBSET Roles : CreateUser(w, u, r, S)
           \/ \E u \in Users, r \in Roles : CreateAdminAccount(w, u, r)
           \/ \E u \in Users : Register(w, u)
           \/ CreateAdminAccount_Insert(w) \/ Create_Fails(w)
  <2>1. grants' = grants /\ may' = may
    BY <1>1 DEF Register, CreateUser, CreateAdminAccount, CreateAdminAccount_Insert, Create_Fails
  <2>2. /\ pc'[w] \notin {"grant", "assign"}
        /\ \A v \in Workers \ {w} : pc'[v] = pc[v] /\ req'[v] = req[v]
    BY <1>1, <1>t
    DEF Register, Accept, CreateUser, CreateAdminAccount, CreateAdminAccount_Insert, Create_Fails,
        Free, Goto
  <2>3. \A v \in Workers : Giving(v)' =>
           Giving(v) /\ req'[v].user = req[v].user /\ Given(v)' \subseteq Given(v)
    BY <2>2 DEF Giving, Given
  <2> QED
    BY <2>1, <2>3, MayQuiet
<1>2. CASE CreateUser_Insert(w)
  <2> DEFINE u == req[w].user
  <2>1. /\ u \in Users /\ req[w].role = NoRole /\ req' = req /\ grants' = grants
        /\ may' = [may EXCEPT ![u] = may[u] \cup req[w].todo]
        /\ \A v \in Workers \ {w} : pc'[v] = pc[v]
    BY <1>2, <1>t DEF CreateUser_Insert, Goto, Carries
  <2>2. \A x \in Users : may[x] \subseteq may'[x]
    BY <1>t, <2>1
  <2>3. \A g \in grants' : g[2] \in may'[g[1]]
    BY <2>1, <2>2 DEF MayInv, Base, TypeOK
  <2>4. ASSUME NEW v \in Workers, Giving(v)' PROVE Given(v)' \subseteq may'[req'[v].user]
    <3>1. CASE v = w
      BY <1>t, <2>1, <3>1 DEF Given
    <3>2. CASE v # w
      <4>1. Giving(v) /\ Given(v)' = Given(v)
        BY <2>1, <2>4, <3>2 DEF Giving, Given
      <4>2. req[v].user \in Users
        BY <4>1 DEF Giving, Base, Carries
      <4> QED
        BY <2>1, <2>2, <4>1, <4>2 DEF MayInv
    <3> QED
      BY <3>1, <3>2
  <2> QED
    BY <2>3, <2>4 DEF MayInv
<1> QED
  BY <1>1, <1>2 DEF Creation

LEMMA MayAssignment ==
  ASSUME Base, MayInv, NEW w \in Workers, Assignment(w)
  PROVE  MayInv'
<1>t. /\ req \in [Workers -> Request] /\ pc \in [Workers -> Places] /\ req[w] \in Request
      /\ may \in [Users -> SUBSET Roles] /\ grants \subseteq Users \X Roles /\ Carries(w)
  BY DEF Base, TypeOK, Places
<1>1. ASSUME NEW u \in Users, NEW S \in SUBSET Roles,
             UpdateUserRoles(w, u, S) \/ UpdateUserRoles_DeleteFails(w, u, S)
      PROVE  MayInv'
  <2>1. /\ pc[w] = "idle" /\ req[w].role = NoRole /\ pc'[w] = "grant"
        /\ req'[w].user = u /\ req'[w].todo = S /\ req'[w].role = req[w].role
        /\ \A v \in Workers \ {w} : pc'[v] = pc[v] /\ req'[v] = req[v]
    BY <1>1, <1>t DEF UpdateUserRoles, UpdateUserRoles_DeleteFails, Accept, Goto, Carries, Request
  <2>2. req'[w].user = u /\ Given(w)' = S
    BY <2>1 DEF Given
  <2>3. CASE UpdateUserRoles(w, u, S)
    BY <2>1, <2>2, <2>3, MayReset DEF UpdateUserRoles
  <2>4. CASE UpdateUserRoles_DeleteFails(w, u, S)
    <3>1. grants' = grants /\ may' = [may EXCEPT ![u] = may[u] \cup S]
      BY <2>4 DEF UpdateUserRoles_DeleteFails
    <3>2. \A x \in Users : may[x] \subseteq may'[x]
      BY <1>t, <3>1
    <3>3. \A g \in grants' : g[2] \in may'[g[1]]
      BY <1>t, <3>1, <3>2 DEF MayInv
    <3>4. ASSUME NEW v \in Workers, Giving(v)' PROVE Given(v)' \subseteq may'[req'[v].user]
      <4>1. CASE v = w
        BY <1>t, <2>2, <3>1, <4>1
      <4>2. CASE v # w
        <5>1. Giving(v) /\ req'[v] = req[v] /\ Given(v)' = Given(v)
          BY <2>1, <3>4, <4>2 DEF Giving, Given
        <5>2. req[v].user \in Users
          BY <5>1 DEF Giving, Base, Carries
        <5> QED
          BY <3>2, <5>1, <5>2 DEF MayInv
      <4> QED
        BY <4>1, <4>2
    <3> QED
      BY <3>3, <3>4 DEF MayInv
  <2> QED
    BY <1>1, <2>3, <2>4
<1>2. ASSUME NEW r \in Roles, Grant_First(w, r) PROVE MayInv'
  <2>1. /\ pc[w] = "grant" /\ r \in req[w].todo /\ grants' = grants /\ may' = may
        /\ req'[w].user = req[w].user /\ req'[w].todo = req[w].todo \ {r}
        /\ req'[w].role \in {r, req[w].role}
        /\ \A v \in Workers \ {w} : pc'[v] = pc[v] /\ req'[v] = req[v]
    BY <1>2, <1>t DEF Grant_First, Goto, Request
  <2>2. Giving(w) /\ Given(w)' \subseteq Given(w)
    BY <2>1 DEF Giving, Given
  <2>3. \A v \in Workers : Giving(v)' =>
           Giving(v) /\ req'[v].user = req[v].user /\ Given(v)' \subseteq Given(v)
    BY <2>1, <2>2 DEF Giving, Given
  <2> QED
    BY <2>1, <2>3, MayQuiet
<1>3. CASE Grant_Create(w) \/ Grant_CreateFails(w)
  <2>1. /\ pc[w] = "assign" /\ req[w].user \in Users /\ req[w].role \in Roles /\ may' = may
        /\ req'[w].user = req[w].user /\ req'[w].todo = req[w].todo /\ req'[w].role = NoRole
        /\ grants' \subseteq grants \cup {<<req[w].user, req[w].role>>}
        /\ \A v \in Workers \ {w} : pc'[v] = pc[v] /\ req'[v] = req[v]
    BY <1>3, <1>t DEF Grant_Create, Grant_CreateFails, Goto, Request, Carries
  <2>2. Giving(w) /\ Given(w)' \subseteq Given(w)
    BY <2>1 DEF Giving, Given
  <2>3. req[w].role \in may[req[w].user]
    BY <2>1, <2>2, NamesAssumption DEF MayInv, Given
  <2>4. \A g \in grants' : g[2] \in may'[g[1]]
    BY <2>1, <2>3 DEF MayInv
  <2>5. ASSUME NEW v \in Workers, Giving(v)' PROVE Given(v)' \subseteq may'[req'[v].user]
    <3>1. Giving(v) /\ req'[v].user = req[v].user /\ Given(v)' \subseteq Given(v)
      BY <2>1, <2>2, <2>5 DEF Giving, Given
    <3> QED
      BY <2>1, <3>1 DEF MayInv
  <2> QED
    BY <2>4, <2>5 DEF MayInv
<1>4. CASE Grant_Done(w)
  <2>1. /\ grants' = grants /\ may' = may /\ pc'[w] = "idle"
        /\ \A v \in Workers \ {w} : pc'[v] = pc[v] /\ req'[v] = req[v]
    BY <1>4, <1>t DEF Grant_Done, Free, Goto
  <2>2. \A v \in Workers : Giving(v)' =>
           Giving(v) /\ req'[v].user = req[v].user /\ Given(v)' \subseteq Given(v)
    BY <2>1 DEF Giving, Given
  <2> QED
    BY <2>1, <2>2, MayQuiet
<1> QED
  BY <1>1, <1>2, <1>3, <1>4 DEF Assignment

LEMMA MayStatus ==
  ASSUME Base, MayInv, NEW w \in Workers, Status(w) \/ RoleTable(w)
  PROVE  MayInv'
<1>t. /\ req \in [Workers -> Request] /\ pc \in [Workers -> Places] /\ Carries(w)
      /\ may \in [Users -> SUBSET Roles]
  BY DEF Base, TypeOK, Places
<1>1. CASE DeleteUser_Revoke(w)
  <2> DEFINE u == req[w].user
  <2>1. /\ u \in Users /\ grants' = grants \ Of(u) /\ may' = [may EXCEPT ![u] = {} \cup Pending(w, u)]
        /\ pc'[w] = "idle" /\ \A v \in Workers \ {w} : pc'[v] = pc[v] /\ req'[v] = req[v]
    BY <1>1, <1>t DEF DeleteUser_Revoke, Free, Goto, Carries
  <2>2. ~Giving(w)'
    BY <2>1 DEF Giving
  <2>3. \E S \in SUBSET Roles : S = {}
    OBVIOUS
  <2>4. PICK S \in SUBSET Roles :
          /\ may' = [may EXCEPT ![u] = S \cup Pending(w, u)]
          /\ Giving(w)' => req'[w].user = u /\ Given(w)' \subseteq S
    BY <2>1, <2>2, <2>3
  <2> HIDE DEF u
  <2> QED
    BY <2>1, <2>4, MayReset
<1>2. CASE ~DeleteUser_Revoke(w)
  <2>1. CASE Status(w)
    <3>1. grants' = grants /\ may' = may
      BY <1>2, <2>1
      DEF Status, UpdateUserStatus, ResetAdminPassword, EnableAdminAccount, DisableAdminAccount,
          UpdateUser, ReadRow, HoldRow, DeleteUser, Save, UpdateUser_Save, Save_Fails,
          DeleteUser_RevokeFails
    <3>2. /\ Giving(w)' => pc'[w] = pc[w] /\ req'[w] = req[w]
          /\ \A v \in Workers \ {w} : pc'[v] = pc[v] /\ req'[v] = req[v]
      BY <1>2, <1>t, <2>1
      DEF Status, UpdateUserStatus, ResetAdminPassword, EnableAdminAccount, DisableAdminAccount,
          UpdateUser, ReadRow, HoldRow, DeleteUser, Save, UpdateUser_Save, Save_Fails,
          DeleteUser_RevokeFails, Free, Goto, Giving
    <3>3. \A v \in Workers : Giving(v)' =>
             Giving(v) /\ req'[v].user = req[v].user /\ Given(v)' \subseteq Given(v)
      BY <3>2 DEF Giving, Given
    <3> QED
      BY <3>1, <3>3, MayQuiet
  <2>2. CASE RoleTable(w)
    <3>1. grants' = grants /\ may' = may
      BY <2>2 DEF RoleTable, CreateRole, DeleteRole, DeleteRole_CountFails, DeleteRole_Delete
    <3>2. /\ Giving(w)' => pc'[w] = pc[w] /\ req'[w] = req[w]
          /\ \A v \in Workers \ {w} : pc'[v] = pc[v] /\ req'[v] = req[v]
      BY <1>t, <2>2
      DEF RoleTable, CreateRole, DeleteRole, DeleteRole_CountFails, DeleteRole_Delete, Free, Goto,
          Giving
    <3>3. \A v \in Workers : Giving(v)' =>
             Giving(v) /\ req'[v].user = req[v].user /\ Given(v)' \subseteq Given(v)
      BY <3>2 DEF Giving, Given
    <3> QED
      BY <3>1, <3>3, MayQuiet
  <2> QED
    BY <2>1, <2>2
<1> QED
  BY <1>1, <1>2

\* After the seeding an account has at most its own role in addition, and that
\* only if the seeding assigns it.
LEMMA SeedAdds ==
  ASSUME NEW G \in SUBSET (Users \X Roles), NEW U, NEW R, NEW first,
         NEW g \in SeededGrants(G, U, R, first)
  PROVE  \/ g \in G
         \/ /\ g[1] \in Seeds /\ g[2] = SeedRole(g[1])
            /\ Reassigned(g[1], {r \in Roles : <<g[1], r>> \in G}, U, R)
<1>1. g \in Users \X Roles /\ g = <<g[1], g[2]>>
  BY DEF SeededGrants
<1> DEFINE A == {r \in Roles : <<g[1], r>> \in G}
<1>2. CASE g[1] \in Seeds
  <2>1. g[2] \in SeededAssigned(g[1], A, U, R, first)
    BY <1>2 DEF SeededGrants
  <2>2. g[2] \in A \/ (g[2] = SeedRole(g[1]) /\ Reassigned(g[1], A, U, R))
    BY <2>1 DEF SeededAssigned
  <2> QED
    BY <1>1, <1>2, <2>2
<1>3. CASE g[1] \notin Seeds
  BY <1>3 DEF SeededGrants
<1> QED
  BY <1>2, <1>3

LEMMA MayRestart ==
  ASSUME Base, MayInv, Restart
  PROVE  MayInv'
<1>1. PICK first \in [DOMAIN AdminSeed -> Roles] : SeedTestUsers(grants, users, roles, first)
  BY DEF Restart
<1>2. grants' = SeededGrants(grants, users, SeededRoles(roles), first)
  BY <1>1 DEF SeedTestUsers
<1>3. \A g \in grants' :
        \/ g \in grants
        \/ /\ g[1] \in Seeds /\ g[2] = SeedRole(g[1])
           /\ Reassigned(g[1], Assigned(g[1]), users, SeededRoles(roles))
  <2>1. grants \in SUBSET (Users \X Roles)
    BY DEF Base, TypeOK
  <2> SUFFICES ASSUME NEW g \in SeededGrants(grants, users, SeededRoles(roles), first), g \notin grants
               PROVE  /\ g[1] \in Seeds /\ g[2] = SeedRole(g[1])
                      /\ Reassigned(g[1], Assigned(g[1]), users, SeededRoles(roles))
    BY <1>2
  <2>2. /\ g[1] \in Seeds /\ g[2] = SeedRole(g[1])
        /\ Reassigned(g[1], {r \in Roles : <<g[1], r>> \in grants}, users, SeededRoles(roles))
    BY <2>1, SeedAdds
  <2> QED
    BY <2>2 DEF Assigned
<1>4. \A g \in grants' : g[1] \in Users
  BY <1>2 DEF SeededGrants
<1>5. \A u \in Users : may'[u] =
        may[u] \cup IF u \in Seeds /\ Reassigned(u, Assigned(u), users, SeededRoles(roles))
                   THEN {SeedRole(u)} ELSE {}
  BY DEF Restart
<1>6. \A g \in grants' : g[2] \in may'[g[1]]
  BY <1>3, <1>4, <1>5 DEF MayInv
<1>7. \A w \in Workers : ~Giving(w)'
  BY RestartKeeps DEF Giving
<1> QED
  BY <1>6, <1>7 DEF MayInv

LEMMA MayStep == Base /\ MayInv /\ [Next]_vars => MayInv'
<1> SUFFICES ASSUME Base, MayInv, [Next]_vars PROVE MayInv'
  OBVIOUS
<1>1. CASE UNCHANGED vars
  BY <1>1 DEF vars, MayInv, Giving, Given
<1> QED
  BY <1>1, MayCreation, MayAssignment, MayStatus, MayRestart DEF Next

LEMMA MayInit == Init => MayInv
<1> SUFFICES ASSUME Init PROVE MayInv
  OBVIOUS
<1>1. \E U, R, first : grants = SeededGrants({}, U, R, first)
  BY DEF Init
<1>2. \A g \in grants : g[1] \in Users /\ g[1] \in Seeds /\ g[2] = SeedRole(g[1])
  <2>1. PICK U, R, first : grants = SeededGrants({}, U, R, first)
    BY <1>1
  <2>2. \A g \in grants : g[1] \in Users
    BY <2>1 DEF SeededGrants
  <2>3. {} \in SUBSET (Users \X Roles)
    OBVIOUS
  <2> QED
    BY <2>1, <2>2, <2>3, SeedAdds
<1>3. \A g \in grants : g[2] \in may[g[1]]
  BY <1>2 DEF Init
<1> QED
  BY <1>3 DEF Init, MayInv, Giving

\* Once the assignments of an account have been withdrawn, those it has are what
\* it was given since, or is being given.
THEOREM WithdrawnRolesGoneCorrect == Spec => []WithdrawnRolesGone
<1>1. Init => Base /\ MayInv
  BY InitBase, MayInit
<1>2. Base /\ MayInv /\ [Next]_vars => (Base /\ MayInv)'
  BY BaseStep, MayStep
<1>3. Base /\ MayInv => WithdrawnRolesGone
  BY DEF Base, TypeOK, MayInv, WithdrawnRolesGone, Assigned
<1> QED
  BY <1>1, <1>2, <1>3, PTL DEF Spec

-----------------------------------------------------------------------------
(* Roles that are assigned.  A request that is about to delete a role has  *)
(* found no assignment to it, so those that there are were made since.     *)

RacedInv ==
  /\ \A g \in grants : roles[g[2]] = "live" \/ g \in raced
  /\ \A w \in Workers : pc[w] = "deleteRole" =>
       \A g \in grants : g[2] = req[w].role => g \in raced
  /\ \A w \in Workers : pc[w] = "assign" => roles[req[w].role] # "none"

\* Fewer assignments, the same roles, no request that goes on to assign or delete one.
LEMMA RacedQuiet ==
  ASSUME Base, RacedInv, grants' \subseteq grants, roles' = roles, raced' = raced,
         \A v \in Workers : pc'[v] \in {"assign", "deleteRole"} =>
           pc'[v] = pc[v] /\ req'[v] = req[v]
  PROVE  RacedInv'
BY DEF RacedInv

LEMMA RacedCreationStatus ==
  ASSUME Base, RacedInv, NEW w \in Workers, Creation(w) \/ Status(w)
  PROVE  RacedInv'
<1>t. req \in [Workers -> Request] /\ pc \in [Workers -> Places]
  BY DEF Base, TypeOK, Places
<1>1. CASE Creation(w)
  <2>1. grants' = grants /\ roles' = roles /\ raced' = raced
    BY <1>1 DEF Creation, Register, CreateUser, CreateAdminAccount, CreateUser_Insert,
                CreateAdminAccount_Insert, Create_Fails
  <2>2. /\ pc'[w] \notin {"assign", "deleteRole"}
        /\ \A v \in Workers \ {w} : pc'[v] = pc[v] /\ req'[v] = req[v]
    BY <1>1, <1>t DEF Creation, Register, Accept, CreateUser, CreateAdminAccount, CreateUser_Insert,
                      CreateAdminAccount_Insert, Create_Fails, Free, Goto
  <2> QED
    BY <2>1, <2>2, RacedQuiet
<1>2. CASE Status(w)
  <2>1. grants' \subseteq grants /\ roles' = roles /\ raced' = raced
    BY <1>2 DEF Status, UpdateUserStatus, ResetAdminPassword, EnableAdminAccount,
                DisableAdminAccount, UpdateUser, ReadRow, HoldRow, DeleteUser, Save,
                UpdateUser_Save, Save_Fails, DeleteUser_Revoke, DeleteUser_RevokeFails
  <2>2. /\ pc'[w] \in {"assign", "deleteRole"} => pc'[w] = pc[w] /\ req'[w] = req[w]
        /\ \A v \in Workers \ {w} : pc'[v] = pc[v] /\ req'[v] = req[v]
    BY <1>2, <1>t DEF Status, UpdateUserStatus, ResetAdminPassword, EnableAdminAccount,
                      DisableAdminAccount, UpdateUser, ReadRow, HoldRow, DeleteUser, Save,
                      UpdateUser_Save, Save_Fails, DeleteUser_Revoke, DeleteUser_RevokeFails, Free, Goto
  <2> QED
    BY <2>1, <2>2, RacedQuiet
<1> QED
  BY <1>1, <1>2

LEMMA RacedAssignment ==
  ASSUME Base, RacedInv, NEW w \in Workers, Assignment(w)
  PROVE  RacedInv'
<1>t. /\ req \in [Workers -> Request] /\ pc \in [Workers -> Places] /\ req[w] \in Request
      /\ roles \in [Roles -> {"none", "live", "deleted"}] /\ Carries(w)
  BY DEF Base, TypeOK, Places
<1>1. CASE \/ \E u \in Users, S \in SUBSET Roles :
                UpdateUserRoles(w, u, S) \/ UpdateUserRoles_DeleteFails(w, u, S)
           \/ Grant_CreateFails(w) \/ Grant_Done(w)
  <2>1. grants' \subseteq grants /\ roles' = roles /\ raced' = raced
    BY <1>1 DEF UpdateUserRoles, UpdateUserRoles_DeleteFails, Grant_CreateFails, Grant_Done
  <2>2. /\ pc'[w] \notin {"assign", "deleteRole"}
        /\ \A v \in Workers \ {w} : pc'[v] = pc[v] /\ req'[v] = req[v]
    BY <1>1, <1>t
    DEF UpdateUserRoles, UpdateUserRoles_DeleteFails, Grant_CreateFails, Grant_Done, Free, Goto
  <2> QED
    BY <2>1, <2>2, RacedQuiet
<1>2. ASSUME NEW r \in Roles, Grant_First(w, r) PROVE RacedInv'
  <2>1. /\ grants' = grants /\ roles' = roles /\ raced' = raced
        /\ \A v \in Workers \ {w} : pc'[v] = pc[v] /\ req'[v] = req[v]
    BY <1>2, <1>t DEF Grant_First, Goto
  <2>2. pc'[w] = "grant" \/ (pc'[w] = "assign" /\ req'[w].role = r /\ roles[r] = "live")
    BY <1>2, <1>t DEF Grant_First, Goto, Request
  <2> QED
    BY <2>1, <2>2 DEF RacedInv
<1>3. CASE Grant_Create(w)
  <2> DEFINE r == req[w].role
             g == <<req[w].user, r>>
  <2>1. /\ pc[w] = "assign" /\ r \in Roles /\ grants' = grants \cup {g} /\ roles' = roles
        /\ raced' = (IF BeingDeleted(r) THEN raced \cup {g} ELSE raced)
        /\ pc'[w] = "grant" /\ \A v \in Workers \ {w} : pc'[v] = pc[v] /\ req'[v] = req[v]
    BY <1>3, <1>t DEF Grant_Create, Goto, Carries
  <2>2. roles[r] # "none"
    BY <2>1 DEF RacedInv
  <2>3. ~BeingDeleted(r) =>
          roles[r] = "live" /\ \A v \in Workers : pc[v] = "deleteRole" => req[v].role # r
    BY <1>t, <2>1, <2>2 DEF BeingDeleted
  <2>4. \A x \in grants' : roles'[x[2]] = "live" \/ x \in raced'
    BY <2>1, <2>3 DEF RacedInv
  <2>5. ASSUME NEW v \in Workers, pc'[v] = "deleteRole", NEW x \in grants', x[2] = req'[v].role
        PROVE  x \in raced'
    <3>1. v # w /\ pc[v] = "deleteRole" /\ req'[v] = req[v]
      BY <2>1, <2>5
    <3>2. CASE x \in grants
      BY <2>1, <2>5, <3>1, <3>2 DEF RacedInv
    <3>3. CASE x = g
      <4>1. req[v].role = r
        BY <2>5, <3>1, <3>3
      <4> QED
        BY <2>1, <2>3, <3>1, <3>3, <4>1
    <3> QED
      BY <2>1, <3>2, <3>3
  <2>6. \A v \in Workers : pc'[v] = "assign" => roles'[req'[v].role] # "none"
    BY <2>1 DEF RacedInv
  <2> QED
    BY <2>4, <2>5, <2>6 DEF RacedInv
<1> QED
  BY <1>1, <1>2, <1>3 DEF Assignment

LEMMA RacedRoleTable ==
  ASSUME Base, RacedInv, NEW w \in Workers, RoleTable(w)
  PROVE  RacedInv'
<1>t. /\ req \in [Workers -> Request] /\ pc \in [Workers -> Places] /\ req[w] \in Request
      /\ roles \in [Roles -> {"none", "live", "deleted"}] /\ grants \subseteq Users \X Roles
      /\ \A v \in Workers : Carries(v)
  BY DEF Base, TypeOK, Places
<1>1. ASSUME NEW r \in Roles, CreateRole(w, r) PROVE RacedInv'
  <2>1. /\ grants' = grants /\ raced' = raced /\ pc' = pc /\ req' = req
        /\ roles' = [roles EXCEPT ![r] = "live"]
    BY <1>1 DEF CreateRole
  <2>2. \A s \in Roles : /\ roles[s] = "live" => roles'[s] = "live"
                         /\ roles[s] # "none" => roles'[s] # "none"
    BY <1>t, <2>1
  <2>3. \A v \in Workers : pc[v] = "assign" => req[v].role \in Roles
    BY <1>t DEF Carries
  <2> QED
    BY <1>t, <2>1, <2>2, <2>3 DEF RacedInv
<1>2. ASSUME NEW r \in Roles, DeleteRole(w, r) \/ DeleteRole_CountFails(w, r) PROVE RacedInv'
  <2>1. /\ grants' = grants /\ roles' = roles /\ raced \subseteq raced'
        /\ pc'[w] = "deleteRole" /\ req'[w].role = r
        /\ \A v \in Workers \ {w} : pc'[v] = pc[v] /\ req'[v] = req[v]
    BY <1>2, <1>t DEF DeleteRole, DeleteRole_CountFails, Goto, Request
  <2>2. \A g \in grants : g[2] = r => g \in raced'
    BY <1>2, <1>t DEF DeleteRole, DeleteRole_CountFails
  <2> QED
    BY <2>1, <2>2 DEF RacedInv
<1>3. CASE DeleteRole_Delete(w)
  <2>1. /\ pc[w] = "deleteRole" /\ grants' = grants /\ raced' = raced /\ pc'[w] = "idle"
        /\ roles' = [roles EXCEPT ![req[w].role] = "deleted"]
        /\ \A v \in Workers \ {w} : pc'[v] = pc[v] /\ req'[v] = req[v]
    BY <1>3, <1>t DEF DeleteRole_Delete, Free, Goto
  <2>2. \A g \in grants : roles'[g[2]] = "live" \/ g \in raced
    BY <1>t, <2>1 DEF RacedInv
  <2>3. \A v \in Workers : pc'[v] = "assign" => roles'[req'[v].role] # "none"
    <3>1. \A s \in Roles : roles[s] # "none" => roles'[s] # "none"
      BY <1>t, <2>1
    <3>2. \A v \in Workers : pc[v] = "assign" => req[v].role \in Roles
      BY <1>t DEF Carries
    <3> QED
      BY <2>1, <3>1, <3>2 DEF RacedInv
  <2> QED
    BY <2>1, <2>2, <2>3 DEF RacedInv
<1> QED
  BY <1>1, <1>2, <1>3 DEF RoleTable

\* The seeding assigns only roles that exist.
LEMMA SeedLive ==
  ASSUME NEW G \in SUBSET (Users \X Roles), NEW U, NEW R, NEW first,
         NEW g \in SeededGrants(G, U, R, first)
  PROVE  g[2] \in Roles /\ (g \in G \/ R[g[2]] = "live")
<1>1. g \in Users \X Roles /\ g = <<g[1], g[2]>>
  BY DEF SeededGrants
<1> DEFINE A == {r \in Roles : <<g[1], r>> \in G}
<1>2. CASE g[1] \in Seeds
  <2>1. g[2] \in SeededAssigned(g[1], A, U, R, first)
    BY <1>2 DEF SeededGrants
  <2>2. g[2] \in A \/ (g[2] = SeedRole(g[1]) /\ R[SeedRole(g[1])] = "live")
    BY <2>1 DEF SeededAssigned, Reassigned, Made, Kept
  <2> QED
    BY <1>1, <1>2, <2>2
<1>3. CASE g[1] \notin Seeds
  BY <1>1, <1>3 DEF SeededGrants
<1> QED
  BY <1>2, <1>3

LEMMA RacedRestart ==
  ASSUME Base, RacedInv, Restart
  PROVE  RacedInv'
<1>1. PICK first \in [DOMAIN AdminSeed -> Roles] : SeedTestUsers(grants, users, roles, first)
  BY DEF Restart
<1>2. roles' = SeededRoles(roles) /\ grants' = SeededGrants(grants, users, SeededRoles(roles), first)
  BY <1>1 DEF SeedTestUsers
<1>3. \A g \in grants' : g[2] \in Roles /\ (g \in grants \/ roles'[g[2]] = "live")
  BY <1>2, SeedLive DEF Base, TypeOK
<1>4. \A r \in Roles : roles[r] = "live" => roles'[r] = "live"
  BY <1>2 DEF SeededRoles
<1>5. raced' = raced /\ \A w \in Workers : pc'[w] \in {"idle", "amsSave"}
  BY RestartKeeps DEF Restart
<1> QED
  BY <1>3, <1>4, <1>5 DEF RacedInv

LEMMA RacedStep == Base /\ RacedInv /\ [Next]_vars => RacedInv'
<1> SUFFICES ASSUME Base, RacedInv, [Next]_vars PROVE RacedInv'
  OBVIOUS
<1>1. CASE UNCHANGED vars
  BY <1>1 DEF vars, RacedInv
<1> QED
  BY <1>1, RacedCreationStatus, RacedAssignment, RacedRoleTable, RacedRestart DEF Next

LEMMA RacedInit == Init => RacedInv
<1> SUFFICES ASSUME Init PROVE RacedInv
  OBVIOUS
<1>1. \E U, first : grants = SeededGrants({}, U, roles, first)
  BY DEF Init
<1>2. {} \in SUBSET (Users \X Roles)
  OBVIOUS
<1>3. \A g \in grants : roles[g[2]] = "live"
  <2>1. PICK U, first : grants = SeededGrants({}, U, roles, first)
    BY <1>1
  <2> QED
    BY <1>2, <2>1, SeedLive
<1> QED
  BY <1>3 DEF Init, RacedInv

\* An assignment to a role that no longer exists was made while the role was
\* being deleted.
THEOREM AssignedRoleKeptCorrect == Spec => []AssignedRoleKept
<1>1. Init => Base /\ RacedInv
  BY InitBase, RacedInit
<1>2. Base /\ RacedInv /\ [Next]_vars => (Base /\ RacedInv)'
  BY BaseStep, RacedStep
<1>3. RacedInv => AssignedRoleKept
  BY DEF RacedInv, AssignedRoleKept
<1> QED
  BY <1>1, <1>2, <1>3, PTL DEF Spec
=============================================================================
