----------------------------- MODULE ApprovalFlow -----------------------------
(***************************************************************************)
(* The strategic approval requests of OAS (/admin/approvals).  Every       *)
(* handler reads the row (First), checks it, then writes it: Save writes   *)
(* all of its columns, whatever other requests have written since.  Then   *)
(* it appends an audit record, in a statement of its own.                  *)
(***************************************************************************)
EXTENDS Naturals, FiniteSets

CONSTANTS
  Ids,         \* primary keys of approval_requests
  Admins,      \* the accounts and API keys that pass AdminAuth and AdminRoleGate
  Keys,        \* the API keys among them
  WhitelistB,  \* the accounts with role SU, OU or AU, and the API keys
  OUAU,        \* the accounts named oas-ou-admin and oas-au-admin
  Nobody,      \* a null approver_id
  Anonymous,   \* an empty one: a request made with an API key has no user_id
  Workers,     \* concurrent requests
  MaxRequests, \* bound: requests that pass their checks
  MaxCrashes,  \* bound: crashes of the OAS process
  MaxFaults    \* bound: failed database statements

ASSUME AdminsAssumption ==
  /\ OUAU \subseteq WhitelistB /\ WhitelistB \subseteq Admins
  /\ Keys \subseteq WhitelistB \ OUAU
  /\ Admins # {} /\ {Nobody, Anonymous} \cap Admins = {} /\ Nobody # Anonymous
ASSUME IdsAssumption == Ids \subseteq Nat /\ Ids # {}
ASSUME BoundsAssumption ==
  /\ MaxRequests \in Nat /\ MaxCrashes \in Nat /\ MaxFaults \in Nat

VARIABLES
  approvals, \* approval_requests: id -> [status, approver]
  audit,     \* audit_logs: the <<action, admin, id>> recorded
  pc,        \* where each request is: "idle", "write", "audit"
  req,       \* what it does, for whom, and the row it is about to write
  done,      \* history: the <<action, admin, id>> that took effect
  budget     \* what is left of the three bounds

vars == <<approvals, audit, pc, req, done, budget>>

-----------------------------------------------------------------------------
Statuses == {"none", "pending", "approved", "rejected", "executed", "deleted"}
Actions == {"create", "approve", "reject", "execute", "delete"}
ApprovalRequest == [status : Statuses, approver : Admins \cup {Nobody, Anonymous}]
Request == [action : Actions, admin : Admins, id : Ids, row : ApprovalRequest]

\* A free request slot: its contents do not matter.
NoRow == [status |-> "none", approver |-> Nobody]
NoRequest ==
  [action |-> "create", admin |-> CHOOSE a \in Admins : TRUE,
   id |-> CHOOSE i \in Ids : TRUE, row |-> NoRow]

\* The approver_id stored for one who decides: AdminAuth gives the request of an
\* API key a username and no user_id, and the handlers store the empty string.
ApproverOf(a) == IF a \in Keys THEN Anonymous ELSE a

Stored(i) == approvals[i].status \notin {"none", "deleted"}
Spend(b) == budget[b] > 0 /\ budget' = [budget EXCEPT ![b] = @ - 1]
Free(w) ==
  /\ pc' = [pc EXCEPT ![w] = "idle"]
  /\ req' = [req EXCEPT ![w] = NoRequest]

\* The request has passed its checks and holds the row it will write.
Accept(w, action, a, i, row) ==
  /\ pc[w] = "idle" /\ Spend("requests")
  /\ pc' = [pc EXCEPT ![w] = "write"]
  /\ req' = [req EXCEPT ![w] = [action |-> action, admin |-> a, id |-> i, row |-> row]]
  /\ UNCHANGED <<approvals, audit, done>>

-----------------------------------------------------------------------------
(* The handlers up to the statement that changes the table.                *)

\* CreateApproval has nothing to read first: the INSERT, with the next primary
\* key, is its first statement, and its only one when it fails.
CreateApproval(w, a, i) ==
  /\ a \in WhitelistB /\ pc[w] = "idle" /\ Spend("requests")
  /\ approvals[i] = NoRow /\ \A j \in Ids : approvals[j] = NoRow => i <= j
  /\ approvals' = [approvals EXCEPT ![i] = [status |-> "pending", approver |-> Nobody]]
  /\ done' = done \cup {<<"create", a, i>>}
  /\ pc' = [pc EXCEPT ![w] = "audit"]
  /\ req' = [req EXCEPT ![w] = [action |-> "create", admin |-> a, id |-> i, row |-> NoRow]]
  /\ UNCHANGED audit

ApproveApproval(w, a, i) ==
  /\ a \in WhitelistB /\ Stored(i) /\ approvals[i].status = "pending"
  /\ Accept(w, "approve", a, i, [status |-> "approved", approver |-> ApproverOf(a)])

RejectApproval(w, a, i) ==
  /\ a \in OUAU /\ Stored(i) /\ approvals[i].status = "pending"
  /\ Accept(w, "reject", a, i, [status |-> "rejected", approver |-> ApproverOf(a)])

\* Mutant: the one who executes is stored over the one who approved.
ExecuteApproval_TakesOver(w, a, i) ==
  /\ a \in OUAU /\ Stored(i) /\ approvals[i].status = "approved"
  /\ Accept(w, "execute", a, i, [approvals[i] EXCEPT !.status = "executed", !.approver = a])

ExecuteApproval(w, a, i) ==
  /\ a \in OUAU /\ Stored(i) /\ approvals[i].status = "approved"
  /\ Accept(w, "execute", a, i, [approvals[i] EXCEPT !.status = "executed"])

DeleteApproval(w, a, i) ==
  /\ a \in WhitelistB /\ Stored(i)
  /\ Accept(w, "delete", a, i, [approvals[i] EXCEPT !.status = "deleted"])

-----------------------------------------------------------------------------
(* The two statements every handler ends with.                             *)

\* Mutant: the handler returns without an audit record.
Write_NoAudit(w) ==
  /\ pc[w] = "write"
  /\ approvals' = [approvals EXCEPT ![req[w].id] = req[w].row]
  /\ done' = done \cup {<<req[w].action, req[w].admin, req[w].id>>}
  /\ Free(w)
  /\ UNCHANGED <<audit, budget>>

\* Delete deletes the row for good (the type has no DeletedAt), Save updates
\* it; gorm's Save inserts the row when the UPDATE matched nothing, so a row
\* deleted since First comes back.
Write(w) ==
  /\ pc[w] = "write"
  /\ approvals' = [approvals EXCEPT ![req[w].id] = req[w].row]
  /\ done' = done \cup {<<req[w].action, req[w].admin, req[w].id>>}
  /\ pc' = [pc EXCEPT ![w] = "audit"]
  /\ UNCHANGED <<audit, req, budget>>

\* Mutant: the error is not looked at, as in the handlers of rbac.go.
WriteFails_Ignored(w) ==
  /\ pc[w] = "write" /\ Spend("faults")
  /\ pc' = [pc EXCEPT ![w] = "audit"]
  /\ UNCHANGED <<approvals, audit, req, done>>

\* An error of that statement is answered with 500, and nothing is recorded.
WriteFails(w) ==
  /\ pc[w] = "write" /\ Spend("faults")
  /\ Free(w)
  /\ UNCHANGED <<approvals, audit, done>>

Audit(w) ==
  /\ pc[w] = "audit"
  /\ audit' = audit \cup {<<req[w].action, req[w].admin, req[w].id>>}
  /\ Free(w)
  /\ UNCHANGED <<approvals, done, budget>>

\* The error of the audit INSERT is not looked at.
AuditFails(w) ==
  /\ pc[w] = "audit" /\ Spend("faults")
  /\ Free(w)
  /\ UNCHANGED <<approvals, audit, done>>

\* The process dies and is started again: the requests in it are gone.
Crash ==
  /\ \E w \in Workers : pc[w] # "idle"
  /\ Spend("crashes")
  /\ pc' = [w \in Workers |-> "idle"] /\ req' = [w \in Workers |-> NoRequest]
  /\ UNCHANGED <<approvals, audit, done>>

-----------------------------------------------------------------------------
Init ==
  /\ approvals = [i \in Ids |-> NoRow] /\ audit = {} /\ done = {}
  /\ pc = [w \in Workers |-> "idle"] /\ req = [w \in Workers |-> NoRequest]
  /\ budget = [requests |-> MaxRequests, crashes |-> MaxCrashes, faults |-> MaxFaults]

Handler(w, a, i) ==
  \/ CreateApproval(w, a, i) \/ ApproveApproval(w, a, i) \/ RejectApproval(w, a, i)
  \/ ExecuteApproval(w, a, i) \/ DeleteApproval(w, a, i)

Next ==
  \/ \E w \in Workers, a \in Admins, i \in Ids : Handler(w, a, i)
  \/ \E w \in Workers : Write(w) \/ WriteFails(w) \/ Audit(w) \/ AuditFails(w)
  \/ Crash

Spec == Init /\ [][Next]_vars

-----------------------------------------------------------------------------
(* Properties.                                                             *)

\* The type invariant of the approval workflow, a part of the proofs' invariant.
TypeOK ==
  /\ approvals \in [Ids -> ApprovalRequest]
  /\ audit \subseteq Actions \X Admins \X Ids /\ done \subseteq Actions \X Admins \X Ids
  /\ pc \in [Workers -> {"idle", "write", "audit"}] /\ req \in [Workers -> Request]
  /\ budget \in [{"requests", "crashes", "faults"} -> Nat]

\* The row's approver_id is that of somebody whose approval took effect.
Approved(row, i) ==
  \E a \in WhitelistB : row.approver = ApproverOf(a) /\ <<"approve", a, i>> \in done

Decided(row, i) ==
  /\ row.status \in {"approved", "executed"} => Approved(row, i)
  /\ row.status = "rejected" =>
       row.approver \in OUAU /\ <<"reject", row.approver, i>> \in done

\* However requests, failures and crashes interleave, a row that says approved
\* or executed names an SU, OU or AU admin whose approval of it took effect, or
\* has an empty approver_id and some API key's approval of it took effect (the
\* row does not say which key's); a row that says rejected names an OU or AU
\* admin who rejected it.  Status and approver_id are written together by one
\* Save, and execution keeps the approver.
DecisionAttributed == \A i \in Ids : Decided(approvals[i], i)

\* The audit log never claims what did not happen: a record is only written
\* after the statement it describes has succeeded.
AuditTruthful == audit \subseteq done

Quiet == \A w \in Workers : pc[w] = "idle"

Undisturbed == budget.crashes = MaxCrashes /\ budget.faults = MaxFaults

\* As long as nothing crashes or fails, what took effect is in the audit log
\* once the requests have been answered, whatever other requests overlap.
AuditComplete == Undisturbed /\ Quiet => done \subseteq audit

\* An approval moves pending, approved, executed or pending, rejected, and a
\* deleted one stays deleted: each handler checks the status it starts from.
DecisionFinal ==
  [][\A i \in Ids :
       LET old == approvals[i].status
           new == approvals[i].status'
       IN old # new =>
            \/ <<old, new>> \in {<<"none", "pending">>, <<"pending", "approved">>,
                                 <<"pending", "rejected">>, <<"approved", "executed">>}
            \/ new = "deleted" /\ old # "none"]_vars
=============================================================================
