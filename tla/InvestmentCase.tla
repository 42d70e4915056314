---------------------------- MODULE InvestmentCase ----------------------------
(***************************************************************************)
(* The investment cases (ICASE) of the ims service and their T43 sign-off  *)
(* by three parties: oas, sms and ims.  A handler is a sequence of         *)
(* statements, each a transaction of its own, none with its error looked   *)
(* at: read the case, append a sign-off record, open a position when the   *)
(* capital is deployed, save all the columns of the case as it was read.   *)
(***************************************************************************)
EXTENDS Naturals, FiniteSets

CONSTANTS
  Cases,       \* primary keys of the icases table
  Workers,     \* concurrent requests to the MBS process
  BodyFields,  \* what callers put into the body of POST and PUT /icases
  MaxRequests, \* bound: requests that pass their checks
  MaxCrashes,  \* bound: crashes of the MBS process
  MaxFaults    \* bound: failed database statements

ASSUME CasesAssumption == Cases # {}
ASSUME FieldsAssumption == BodyFields \subseteq {"account_id", "status", "signs"}
ASSUME BoundsAssumption ==
  /\ MaxRequests \in Nat /\ MaxCrashes \in Nat /\ MaxFaults \in Nat

VARIABLES
  icases,    \* the icases table: id -> [status, signs, account]
  records,   \* icase_approvals: the <<id, party, action>> recorded
  positions, \* investment_positions: how many each case has
  pc,        \* where each request is
  job,       \* its case, party, action, and the row it is about to save
  requested, \* history: the <<id, party>> whose approval was asked for
  unopened,  \* history: the cases of which the INSERT of a position has failed
  budget     \* what is left of the three bounds

vars == <<icases, records, positions, pc, job, requested, unopened, budget>>

-----------------------------------------------------------------------------
Parties == {"oas", "sms", "ims"}
Statuses == {"draft", "submitted", "oas_approved", "sms_approved", "deployed", "rejected"}

\* The flags oas_approved, sms_approved and ims_approved are the set signs;
\* account tells whether account_id is set.
ICASE == [status : Statuses \cup {"none"}, signs : SUBSET Parties, account : BOOLEAN]
NoCase == [status |-> "none", signs |-> {}, account |-> FALSE]

\* A party outside the three is answered with an error, after its record.
Job ==
  [id : Cases, party : Parties \cup {"other"}, action : {"approved", "rejected"}, row : ICASE]
NoJob ==
  [id |-> CHOOSE i \in Cases : TRUE, party |-> "other", action |-> "rejected", row |-> NoCase]

Spend(b) == budget[b] > 0 /\ budget' = [budget EXCEPT ![b] = @ - 1]

\* The row as the JSON body of a request may change it.
Bodies(row) ==
  {b \in ICASE :
     /\ b.status # "none"
     /\ "status" \in BodyFields \/ b.status = row.status
     /\ "signs" \in BodyFields \/ b.signs = row.signs
     /\ "account_id" \in BodyFields \/ b.account = row.account}

\* A request has read case i and goes on with the step next.
Load(w, i, party, action, row, next) ==
  /\ pc[w] = "idle" /\ icases[i].status # "none" /\ Spend("requests")
  /\ pc' = [pc EXCEPT ![w] = next]
  /\ job' = [job EXCEPT ![w] = [id |-> i, party |-> party, action |-> action, row |-> row]]
  /\ UNCHANGED <<icases, records, positions, unopened>>

Go(w, next) ==
  /\ pc' = [pc EXCEPT ![w] = next]
  /\ job' = IF next = "idle" THEN [job EXCEPT ![w] = NoJob] ELSE job

-----------------------------------------------------------------------------
(* The five handlers, up to their first write.                             *)

\* Mutant: the status of the body, empty here, is not overridden.
CreateICASE_KeepsStatus(i) ==
  /\ icases[i] = NoCase /\ Spend("requests")
  /\ \E a \in BOOLEAN, s \in (IF "signs" \in BodyFields THEN SUBSET Parties ELSE {{}}) :
       icases' = [icases EXCEPT ![i] = [status |-> "", signs |-> s, account |-> a]]
  /\ UNCHANGED <<records, positions, pc, job, requested, unopened>>

\* CreateICASE: one INSERT, which overrides only the status of the body.
CreateICASE(i) ==
  /\ icases[i] = NoCase /\ Spend("requests")
  /\ \E a \in BOOLEAN, s \in (IF "signs" \in BodyFields THEN SUBSET Parties ELSE {{}}) :
       icases' = [icases EXCEPT ![i] = [status |-> "draft", signs |-> s, account |-> a]]
  /\ UNCHANGED <<records, positions, pc, job, requested, unopened>>

UpdateICASE(w, i) ==
  /\ \E row \in Bodies(icases[i]) : Load(w, i, "other", "rejected", row, "save")
  /\ UNCHANGED requested

SubmitICASE(w, i) ==
  /\ icases[i].status \in {"draft", "rejected"}
  /\ Load(w, i, "other", "rejected", [icases[i] EXCEPT !.status = "submitted"], "save")
  /\ UNCHANGED requested

\* Mutant: ims deploys with the sign-off of oas alone.
SignOff_NoSMS(row, p) ==
  LET ahead ==
        IF p = "oas" /\ row.status = "submitted" THEN "oas_approved"
        ELSE IF p = "sms" /\ "oas" \in row.signs /\ row.status = "oas_approved" THEN "sms_approved"
        ELSE IF p = "ims" /\ "oas" \in row.signs THEN "deployed"
        ELSE row.status
  IN [row EXCEPT !.signs = @ \cup {p}, !.status = ahead]

\* The case once party p has approved it: the flag is set in any status, the
\* status moves for oas and sms in their turn, for ims whenever both signed.
SignOff(row, p) ==
  LET ahead ==
        IF p = "oas" /\ row.status = "submitted" THEN "oas_approved"
        ELSE IF p = "sms" /\ "oas" \in row.signs /\ row.status = "oas_approved" THEN "sms_approved"
        ELSE IF p = "ims" /\ {"oas", "sms"} \subseteq row.signs THEN "deployed"
        ELSE row.status
  IN [row EXCEPT !.signs = @ \cup {p}, !.status = ahead]

ApproveICASE(w, i, p) ==
  /\ LET row == IF p \in Parties THEN SignOff(icases[i], p) ELSE icases[i]
     IN Load(w, i, p, "approved", row, "record")
  /\ requested' = requested \cup ({<<i, p>>} \cap (Cases \X Parties))

\* RejectICASE takes any party, and any status, a deployed case's too.
RejectICASE(w, i, p) ==
  /\ Load(w, i, p, "rejected", [icases[i] EXCEPT !.status = "rejected"], "record")
  /\ UNCHANGED requested

-----------------------------------------------------------------------------
(* The writes of a handler, in its order.                                  *)

\* Mutant: a position is opened only when the stages were gone through.
Deploys_InOrder(j) ==
  /\ j.action = "approved" /\ j.party = "ims" /\ j.row.account
  /\ {"oas", "sms"} \subseteq j.row.signs /\ icases[j.id].status = "sms_approved"

\* The approval of ims opens a position whenever the other two have signed.
Deploys(j) ==
  /\ j.action = "approved" /\ j.party = "ims" /\ j.row.account
  /\ {"oas", "sms"} \subseteq j.row.signs

AfterRecord(j) ==
  IF j.action = "approved" /\ j.party = "other" THEN "idle"
  ELSE IF Deploys(j) THEN "position" ELSE "save"

Record(w) ==
  /\ pc[w] = "record"
  /\ records' = records \cup {<<job[w].id, job[w].party, job[w].action>>}
  /\ Go(w, AfterRecord(job[w]))
  /\ UNCHANGED <<icases, positions, requested, unopened, budget>>

OpenPosition(w) ==
  /\ pc[w] = "position"
  /\ positions' = [positions EXCEPT ![job[w].id] = @ + 1]
  /\ Go(w, "save")
  /\ UNCHANGED <<icases, records, requested, unopened, budget>>

Save(w) ==
  /\ pc[w] = "save"
  /\ icases' = [icases EXCEPT ![job[w].id] = job[w].row]
  /\ Go(w, "idle")
  /\ UNCHANGED <<records, positions, requested, unopened, budget>>

\* A statement that fails is passed over: the handler goes on as if it had not.
StatementFails(w) ==
  /\ Spend("faults")
  /\ \/ pc[w] = "record" /\ Go(w, AfterRecord(job[w])) /\ UNCHANGED unopened
     \/ pc[w] = "position" /\ Go(w, "save") /\ unopened' = unopened \cup {job[w].id}
     \/ pc[w] = "save" /\ Go(w, "idle") /\ UNCHANGED unopened
  /\ UNCHANGED <<icases, records, positions, requested>>

\* The process dies and is started again: the requests in it are gone.
Crash ==
  /\ \E w \in Workers : pc[w] # "idle"
  /\ Spend("crashes")
  /\ pc' = [w \in Workers |-> "idle"] /\ job' = [w \in Workers |-> NoJob]
  /\ UNCHANGED <<icases, records, positions, requested, unopened>>

-----------------------------------------------------------------------------
Init ==
  /\ icases = [i \in Cases |-> NoCase] /\ records = {}
  /\ positions = [i \in Cases |-> 0] /\ requested = {} /\ unopened = {}
  /\ pc = [w \in Workers |-> "idle"] /\ job = [w \in Workers |-> NoJob]
  /\ budget = [requests |-> MaxRequests, crashes |-> MaxCrashes, faults |-> MaxFaults]

Request(w, i) ==
  \/ UpdateICASE(w, i) \/ SubmitICASE(w, i)
  \/ \E p \in Parties \cup {"other"} : ApproveICASE(w, i, p) \/ RejectICASE(w, i, p)

Next ==
  \/ \E i \in Cases : CreateICASE(i)
  \/ \E w \in Workers, i \in Cases : Request(w, i)
  \/ \E w \in Workers : Record(w) \/ OpenPosition(w) \/ Save(w) \/ StatementFails(w)
  \/ Crash

Spec == Init /\ [][Next]_vars

-----------------------------------------------------------------------------
(* Properties.                                                             *)

\* The type invariant of the investment cases.
TypeOK ==
  /\ icases \in [Cases -> ICASE] /\ positions \in [Cases -> Nat]
  /\ records \subseteq Cases \X (Parties \cup {"other"}) \X {"approved", "rejected"}
  /\ pc \in [Workers -> {"idle", "record", "position", "save"}]
  /\ job \in [Workers -> Job] /\ requested \subseteq Cases \X Parties
  /\ unopened \subseteq Cases
  /\ budget \in [{"requests", "crashes", "faults"} -> Nat]

Asked(i, signs) == \A p \in signs : <<i, p>> \in requested

\* T43, with callers that leave the status and the flags out of their bodies:
\* whatever interleaves or fails, no case is deployed and no position is open
\* unless each of the three parties has asked for the approval of that case,
\* and no flag is set for a party that has not.
TripartySign ==
  \A i \in Cases :
    /\ Asked(i, icases[i].signs)
    /\ icases[i].status = "deployed" => Asked(i, Parties)
    /\ positions[i] > 0 => Asked(i, Parties)

\* With callers that leave the status and the account out of their bodies: a
\* deployed case with an account has a position, unless the INSERT of one of its
\* positions has failed; other failures, overlapping saves of older rows and a
\* crash between the two writes included.  The position is opened before the
\* status is saved.
DeployedHasPosition ==
  \A i \in Cases :
    icases[i].status = "deployed" /\ icases[i].account => positions[i] > 0 \/ i \in unopened
=============================================================================
