------------------------ MODULE InvestmentCaseProofs ------------------------
(***************************************************************************)
(* T43 for any number of cases, requests, crashes and failed statements:   *)
(* TripartySign holds as long as the bodies of POST and PUT /icases leave  *)
(* the status and the sign-off flags alone.  It is not inductive: the row  *)
(* a request is about to save must be as well backed as a stored one.      *)
(* Likewise DeployedHasPosition, for bodies that leave the status and the  *)
(* account alone.  The types hold whatever the bodies carry.               *)
(***************************************************************************)
EXTENDS InvestmentCase, TLAPS

PlainBodies == BodyFields \subseteq {"account_id"}

\* Every flag of a row, and its deployment, is backed by the requests R.
Backed(R, i, row) ==
  /\ \A p \in row.signs : <<i, p>> \in R
  /\ row.status = "deployed" => \A p \in Parties : <<i, p>> \in R

\* What a request holds on its way to its last statement.
JobBacked(w) ==
  pc[w] # "idle" =>
    /\ Backed(requested, job[w].id, job[w].row)
    /\ job[w].action = "approved" /\ job[w].party \in Parties =>
         job[w].party \in job[w].row.signs
    /\ pc[w] = "position" => Asked(job[w].id, Parties)

IInv == TypeOK /\ TripartySign /\ \A w \in Workers : JobBacked(w)

-----------------------------------------------------------------------------
\* The stand-in for a free request slot has its type.
LEMMA NoJobTyped == NoCase \in ICASE /\ NoJob \in Job
<1>1. (CHOOSE i \in Cases : TRUE) \in Cases
  <2>1. \E i \in Cases : TRUE
    BY CasesAssumption
  <2> QED
    BY <2>1
<1>2. NoCase \in ICASE
  BY DEF NoCase, ICASE, Statuses, Parties
<1> QED
  BY <1>1, <1>2 DEF NoJob, Job, Parties

\* A step that spends a bound leaves a typed budget.
LEMMA SpendTyped ==
  ASSUME TypeOK, NEW b \in {"requests", "crashes", "faults"}, Spend(b)
  PROVE  budget' \in [{"requests", "crashes", "faults"} -> Nat]
<1>1. budget[b] - 1 \in Nat
  BY DEF TypeOK, Spend
<1> QED
  BY <1>1 DEF TypeOK, Spend

\* What SignOff returns: the party's flag is added, and the case is deployed
\* only if it was, or if all three flags are now set.
LEMMA SignOffBacked ==
  ASSUME NEW row \in ICASE, NEW p \in Parties
  PROVE  /\ SignOff(row, p) \in ICASE
         /\ SignOff(row, p).signs = row.signs \cup {p}
         /\ SignOff(row, p).status = "deployed" =>
              row.status = "deployed" \/ SignOff(row, p).signs = Parties
<1> DEFINE ahead ==
      IF p = "oas" /\ row.status = "submitted" THEN "oas_approved"
      ELSE IF p = "sms" /\ "oas" \in row.signs /\ row.status = "oas_approved" THEN "sms_approved"
      ELSE IF p = "ims" /\ {"oas", "sms"} \subseteq row.signs THEN "deployed"
      ELSE row.status
<1>1. SignOff(row, p) = [row EXCEPT !.signs = @ \cup {p}, !.status = ahead]
  BY DEF SignOff
<1>2. ahead \in Statuses \cup {"none"} /\ row.signs \cup {p} \in SUBSET Parties
  BY DEF ICASE, Statuses
<1>3. ahead = "deployed" => row.status = "deployed" \/ row.signs \cup {p} = Parties
  BY DEF ICASE, Parties
<1> HIDE DEF ahead
<1> QED
  BY <1>1, <1>2, <1>3 DEF ICASE

\* The tables start empty.
LEMMA InitIInv == Init => IInv
<1> SUFFICES ASSUME Init PROVE IInv
  OBVIOUS
<1>1. TypeOK
  BY NoJobTyped, BoundsAssumption DEF Init, TypeOK
<1>2. TripartySign
  BY DEF Init, TripartySign, Asked, NoCase
<1>3. \A w \in Workers : JobBacked(w)
  BY DEF Init, JobBacked
<1> QED
  BY <1>1, <1>2, <1>3 DEF IInv

\* A new case has no flag set.
LEMMA CreateIInv ==
  ASSUME IInv, PlainBodies, NEW i \in Cases, CreateICASE(i)
  PROVE  IInv'
<1>1. PICK a \in BOOLEAN :
        icases' = [icases EXCEPT ![i] = [status |-> "draft", signs |-> {}, account |-> a]]
  BY DEF CreateICASE, PlainBodies
<1> DEFINE new == [status |-> "draft", signs |-> {}, account |-> a]
<1>2. new \in ICASE /\ Backed(requested, i, new)
  BY DEF ICASE, Statuses, Backed, Asked
<1>3. /\ UNCHANGED <<records, positions, pc, job, requested, unopened>>
      /\ budget' \in [{"requests", "crashes", "faults"} -> Nat]
  BY SpendTyped DEF IInv, CreateICASE
<1>4. TypeOK'
  <2> HIDE DEF new
  <2>1. icases' = [icases EXCEPT ![i] = new]
    BY <1>1 DEF new
  <2> QED
    BY <1>2, <1>3, <2>1 DEF IInv, TypeOK
<1>5. ASSUME NEW j \in Cases PROVE Backed(requested', j, icases'[j])
  <2> HIDE DEF new
  <2>1. (icases'[j] = new /\ j = i) \/ icases'[j] = icases[j]
    BY <1>1 DEF IInv, TypeOK, new
  <2> QED
    BY <1>2, <1>3, <2>1 DEF IInv, TripartySign, Backed, Asked
<1> QED
  BY <1>3, <1>4, <1>5 DEF IInv, TripartySign, Backed, JobBacked, Asked

\* A request that has read a case holds a row that is backed once its own
\* approval, if it is one, has been counted.
LEMMA LoadIInv ==
  ASSUME IInv, NEW w \in Workers, NEW i \in Cases, NEW p \in Parties \cup {"other"},
         NEW action \in {"approved", "rejected"}, NEW row \in ICASE,
         NEW next \in {"record", "save"},
         Load(w, i, p, action, row, next),
         requested \subseteq requested', requested' \subseteq Cases \X Parties,
         Backed(requested', i, row),
         action = "approved" /\ p \in Parties => p \in row.signs
  PROVE  IInv'
<1> DEFINE new == [id |-> i, party |-> p, action |-> action, row |-> row]
<1>1. /\ pc' = [pc EXCEPT ![w] = next] /\ job' = [job EXCEPT ![w] = new]
      /\ UNCHANGED <<icases, records, positions, unopened>>
      /\ budget' \in [{"requests", "crashes", "faults"} -> Nat]
  BY SpendTyped DEF Load, IInv
<1>2. new \in Job
  BY DEF Job
<1>3. TypeOK'
  <2> HIDE DEF new
  <2> QED
    BY <1>1, <1>2 DEF IInv, TypeOK
<1>4. TripartySign'
  BY <1>1 DEF IInv, TripartySign, Asked
<1>5. ASSUME NEW v \in Workers PROVE JobBacked(v)'
  <2>1. CASE v = w
    <3> HIDE DEF new
    <3>1. job'[v] = new /\ pc'[v] = next
      BY <1>1, <2>1 DEF IInv, TypeOK
    <3>2. Backed(requested', new.id, new.row) /\ new.action = action /\ new.party = p /\ new.row = row
      BY DEF new, Backed, Asked
    <3> QED
      BY <3>1, <3>2 DEF JobBacked, Backed, Asked
  <2>2. CASE v # w
    <3> HIDE DEF new
    <3>1. job'[v] = job[v] /\ pc'[v] = pc[v]
      BY <1>1, <2>2 DEF IInv, TypeOK
    <3> QED
      BY <3>1 DEF IInv, JobBacked, Backed, Asked
  <2> QED
    BY <2>1, <2>2
<1> QED
  BY <1>3, <1>4, <1>5 DEF IInv

\* The handlers that read a case.
LEMMA RequestIInv ==
  ASSUME IInv, PlainBodies, NEW w \in Workers, NEW i \in Cases, Request(w, i)
  PROVE  IInv'
<1>0. icases[i] \in ICASE /\ Backed(requested, i, icases[i]) /\ requested \subseteq Cases \X Parties
  BY DEF IInv, TypeOK, TripartySign, Backed, Asked
<1>1. CASE UpdateICASE(w, i)
  <2>1. PICK row \in Bodies(icases[i]) : Load(w, i, "other", "rejected", row, "save")
    BY <1>1 DEF UpdateICASE
  <2>2. row \in ICASE /\ row.signs = icases[i].signs /\ row.status = icases[i].status
    BY DEF Bodies, PlainBodies
  <2>3. requested' = requested
    BY <1>1 DEF UpdateICASE
  <2>4. Backed(requested', i, row)
    BY <1>0, <2>2, <2>3 DEF Backed, Asked
  <2> QED
    BY <1>0, <2>1, <2>2, <2>3, <2>4, LoadIInv
<1>2. CASE SubmitICASE(w, i)
  <2> DEFINE row == [icases[i] EXCEPT !.status = "submitted"]
  <2>1. row \in ICASE /\ row.signs = icases[i].signs /\ row.status = "submitted"
    BY <1>0 DEF ICASE, Statuses
  <2>2. Load(w, i, "other", "rejected", row, "save") /\ requested' = requested
    BY <1>2 DEF SubmitICASE
  <2> HIDE DEF row
  <2>3. Backed(requested', i, row)
    BY <1>0, <2>1, <2>2 DEF Backed, Asked
  <2> QED
    BY <1>0, <2>1, <2>2, <2>3, LoadIInv
<1>3. ASSUME NEW p \in Parties \cup {"other"}, ApproveICASE(w, i, p) PROVE IInv'
  <2>1. requested' = requested \cup ({<<i, p>>} \cap (Cases \X Parties))
    BY <1>3 DEF ApproveICASE
  <2>2. requested \subseteq requested' /\ requested' \subseteq Cases \X Parties
    BY <1>0, <2>1
  <2>3. CASE p \in Parties
    <3>1. Load(w, i, p, "approved", SignOff(icases[i], p), "record")
      BY <1>3, <2>3 DEF ApproveICASE
    <3>2. <<i, p>> \in requested'
      BY <2>1, <2>3
    <3>3. Backed(requested', i, SignOff(icases[i], p))
      BY <1>0, <2>2, <2>3, <3>2, SignOffBacked DEF Backed, Asked
    <3> QED
      BY <1>0, <2>2, <2>3, <3>1, <3>3, SignOffBacked, LoadIInv
  <2>4. CASE p = "other"
    <3>1. "other" \notin Parties
      BY DEF Parties
    <3>2. Load(w, i, p, "approved", icases[i], "record")
      BY <1>3, <2>4, <3>1 DEF ApproveICASE
    <3>3. Backed(requested', i, icases[i])
      BY <1>0, <2>2 DEF Backed
    <3> QED
      BY <1>0, <2>2, <2>4, <3>1, <3>2, <3>3, LoadIInv
  <2> QED
    BY <2>3, <2>4
<1>4. ASSUME NEW p \in Parties \cup {"other"}, RejectICASE(w, i, p) PROVE IInv'
  <2> DEFINE row == [icases[i] EXCEPT !.status = "rejected"]
  <2>1. row \in ICASE /\ row.signs = icases[i].signs /\ row.status = "rejected"
    BY <1>0 DEF ICASE, Statuses
  <2>2. Load(w, i, p, "rejected", row, "record") /\ requested' = requested
    BY <1>4 DEF RejectICASE
  <2> HIDE DEF row
  <2>3. Backed(requested', i, row)
    BY <1>0, <2>1, <2>2 DEF Backed, Asked
  <2> QED
    BY <1>0, <2>1, <2>2, <2>3, LoadIInv
<1> QED
  BY <1>1, <1>2, <1>3, <1>4 DEF Request

\* A request on its way to position holds a row with all three flags.
LEMMA DeploysAsked ==
  ASSUME IInv, NEW w \in Workers, pc[w] # "idle", Deploys(job[w])
  PROVE  Asked(job[w].id, Parties)
<1>1. "ims" \in Parties
  BY DEF Parties
<1>2. job[w].row.signs = Parties
  BY <1>1 DEF IInv, TypeOK, Job, ICASE, Deploys, JobBacked, Parties
<1> QED
  BY <1>2 DEF IInv, JobBacked, Backed, Asked

\* A request that goes on keeps its job, one that ends gives it up.
LEMMA GoIInv ==
  ASSUME IInv, NEW w \in Workers, pc[w] # "idle",
         NEW next \in {"idle", "position", "save"}, Go(w, next),
         next = "position" => Asked(job[w].id, Parties),
         requested' = requested
  PROVE  /\ pc' \in [Workers -> {"idle", "record", "position", "save"}]
         /\ job' \in [Workers -> Job]
         /\ \A v \in Workers : JobBacked(v)'
<1>1. pc' = [pc EXCEPT ![w] = next] /\ job' \in [Workers -> Job]
  BY NoJobTyped DEF IInv, TypeOK, Go
<1>2. ASSUME NEW v \in Workers PROVE JobBacked(v)'
  <2>1. CASE v = w /\ next = "idle"
    BY <1>1, <2>1 DEF IInv, TypeOK, JobBacked
  <2>2. CASE v # w \/ next # "idle"
    <3>1. job'[v] = job[v]
      BY <2>2 DEF IInv, TypeOK, Go
    <3>2. pc'[v] = IF v = w THEN next ELSE pc[v]
      BY <1>1 DEF IInv, TypeOK
    <3> QED
      BY <3>1, <3>2 DEF IInv, JobBacked, Backed, Asked
  <2> QED
    BY <2>1, <2>2
<1>3. pc' \in [Workers -> {"idle", "record", "position", "save"}]
  BY <1>1 DEF IInv, TypeOK
<1> QED
  BY <1>1, <1>2, <1>3

\* The statements of a request, successful or not.
LEMMA StatementIInv ==
  ASSUME IInv, NEW w \in Workers,
         Record(w) \/ OpenPosition(w) \/ Save(w) \/ StatementFails(w)
  PROVE  IInv'
<1>0. job[w] \in Job /\ job[w].id \in Cases /\ job[w].row \in ICASE
  BY DEF IInv, TypeOK, Job
<1>1. AfterRecord(job[w]) \in {"idle", "position", "save"}
      /\ (AfterRecord(job[w]) = "position" => Deploys(job[w]))
  BY DEF AfterRecord
<1>2. CASE Record(w)
  <2>1. pc[w] = "record" /\ Go(w, AfterRecord(job[w]))
        /\ UNCHANGED <<icases, positions, requested, unopened, budget>>
    BY <1>2 DEF Record
  <2>2. records' \subseteq Cases \X (Parties \cup {"other"}) \X {"approved", "rejected"}
    BY <1>0, <1>2 DEF Record, IInv, TypeOK, Job
  <2>3. /\ pc' \in [Workers -> {"idle", "record", "position", "save"}]
        /\ job' \in [Workers -> Job] /\ \A v \in Workers : JobBacked(v)'
    BY <1>1, <2>1, DeploysAsked, GoIInv
  <2> QED
    BY <2>1, <2>2, <2>3 DEF IInv, TypeOK, TripartySign, Asked
<1>3. CASE OpenPosition(w)
  <2>1. pc[w] = "position" /\ Go(w, "save")
        /\ UNCHANGED <<icases, records, requested, unopened, budget>>
    BY <1>3 DEF OpenPosition
  <2>2. positions' = [positions EXCEPT ![job[w].id] = positions[job[w].id] + 1]
        /\ positions' \in [Cases -> Nat]
    BY <1>0, <1>3 DEF OpenPosition, IInv, TypeOK
  <2>3. /\ pc' \in [Workers -> {"idle", "record", "position", "save"}]
        /\ job' \in [Workers -> Job] /\ \A v \in Workers : JobBacked(v)'
    BY <2>1, GoIInv
  <2>4. Asked(job[w].id, Parties)
    BY <2>1 DEF IInv, JobBacked
  <2>5. TripartySign'
    <3>1. \A i \in Cases : positions'[i] = positions[i] \/ i = job[w].id
      BY <2>2 DEF IInv, TypeOK
    <3> QED
      BY <2>1, <2>4, <3>1 DEF IInv, TripartySign, Asked
  <2> QED
    BY <2>1, <2>2, <2>3, <2>5 DEF IInv, TypeOK
<1>4. CASE Save(w)
  <2>1. pc[w] = "save" /\ Go(w, "idle")
        /\ UNCHANGED <<records, positions, requested, unopened, budget>>
    BY <1>4 DEF Save
  <2>2. icases' = [icases EXCEPT ![job[w].id] = job[w].row] /\ icases' \in [Cases -> ICASE]
    BY <1>0, <1>4 DEF Save, IInv, TypeOK
  <2>3. /\ pc' \in [Workers -> {"idle", "record", "position", "save"}]
        /\ job' \in [Workers -> Job] /\ \A v \in Workers : JobBacked(v)'
    BY <2>1, GoIInv
  <2>4. Backed(requested, job[w].id, job[w].row)
    BY <2>1 DEF IInv, JobBacked
  <2>5. TripartySign'
    <3>1. \A i \in Cases :
            \/ icases'[i] = icases[i]
            \/ (i = job[w].id /\ icases'[i] = job[w].row)
      <4> DEFINE k == job[w].id
                 row == job[w].row
      <4>1. icases' = [icases EXCEPT ![k] = row] /\ icases \in [Cases -> ICASE]
        BY <2>2 DEF IInv, TypeOK
      <4> HIDE DEF k, row
      <4>2. \A i \in Cases : icases'[i] = icases[i] \/ (i = k /\ icases'[i] = row)
        BY <4>1
      <4> QED
        BY <4>2 DEF k, row
    <3> QED
      BY <2>1, <2>4, <3>1 DEF IInv, TripartySign, Backed, Asked
  <2> QED
    BY <2>1, <2>2, <2>3, <2>5 DEF IInv, TypeOK
<1>5. CASE StatementFails(w)
  <2>1. UNCHANGED <<icases, records, positions, requested>>
        /\ budget' \in [{"requests", "crashes", "faults"} -> Nat]
        /\ unopened' \subseteq Cases
    BY <1>0, <1>5, SpendTyped DEF StatementFails, IInv, TypeOK
  <2>2. \E next \in {"idle", "position", "save"} :
          /\ Go(w, next) /\ pc[w] # "idle"
          /\ next = "position" => Asked(job[w].id, Parties)
    BY <1>1, <1>5, DeploysAsked DEF StatementFails
  <2>3. /\ pc' \in [Workers -> {"idle", "record", "position", "save"}]
        /\ job' \in [Workers -> Job] /\ \A v \in Workers : JobBacked(v)'
    BY <2>1, <2>2, GoIInv
  <2> QED
    BY <2>1, <2>3 DEF IInv, TypeOK, TripartySign, Asked
<1> QED
  BY <1>2, <1>3, <1>4, <1>5

\* A crash forgets the requests, and with them what they were about to write.
LEMMA CrashIInv == ASSUME IInv, Crash PROVE IInv'
<1>1. /\ UNCHANGED <<icases, records, positions, requested, unopened>>
      /\ pc' = [w \in Workers |-> "idle"] /\ job' = [w \in Workers |-> NoJob]
      /\ budget' \in [{"requests", "crashes", "faults"} -> Nat]
  BY SpendTyped DEF Crash, IInv
<1>2. TypeOK'
  BY <1>1, NoJobTyped DEF IInv, TypeOK
<1>3. \A w \in Workers : JobBacked(w)'
  BY <1>1 DEF JobBacked
<1> QED
  BY <1>1, <1>2, <1>3 DEF IInv, TripartySign, Asked

\* With plain bodies the inductive invariant holds in every reachable state.
LEMMA Inductive == PlainBodies => (Spec => []IInv)
<1> SUFFICES ASSUME PlainBodies PROVE Spec => []IInv
  OBVIOUS
<1>1. IInv /\ [Next]_vars => IInv'
  <2> SUFFICES ASSUME IInv, [Next]_vars PROVE IInv'
    OBVIOUS
  <2>1. CASE \E i \in Cases : CreateICASE(i)
    BY <2>1, CreateIInv
  <2>2. CASE \E w \in Workers, i \in Cases : Request(w, i)
    BY <2>2, RequestIInv
  <2>3. CASE \E w \in Workers : Record(w) \/ OpenPosition(w) \/ Save(w) \/ StatementFails(w)
    BY <2>3, StatementIInv
  <2>4. CASE Crash
    BY <2>4, CrashIInv
  <2>5. CASE UNCHANGED vars
    BY <2>5 DEF vars, IInv, TypeOK, TripartySign, JobBacked, Backed, Asked
  <2> QED
    BY <2>1, <2>2, <2>3, <2>4, <2>5 DEF Next
<1> QED
  BY <1>1, InitIInv, PTL DEF Spec

-----------------------------------------------------------------------------
\* T43: no deployment and no open position without an approval by each of the
\* three parties, whatever interleaves, fails or crashes, as long as callers
\* keep the status and the flags out of the bodies they send.
THEOREM TripartySignCorrect == BodyFields \subseteq {"account_id"} => (Spec => []TripartySign)
<1>1. IInv => TripartySign
  BY DEF IInv
<1> QED
  BY <1>1, Inductive, PTL DEF PlainBodies
-----------------------------------------------------------------------------
(* Types, whatever the bodies may set.                                      *)

\* Every step of a request that goes on leaves typed places and jobs.
LEMMA GoTyped ==
  ASSUME TypeOK, NEW w \in Workers, NEW next \in {"idle", "position", "save"}, Go(w, next)
  PROVE  pc' \in [Workers -> {"idle", "record", "position", "save"}] /\ job' \in [Workers -> Job]
BY NoJobTyped DEF TypeOK, Go

\* A request that has read a case holds a typed row.
LEMMA LoadTyped ==
  ASSUME TypeOK, NEW w \in Workers, NEW i \in Cases, NEW p \in Parties \cup {"other"},
         NEW action \in {"approved", "rejected"}, NEW row \in ICASE,
         NEW next \in {"record", "save"}, Load(w, i, p, action, row, next),
         requested' \subseteq Cases \X Parties
  PROVE  TypeOK'
<1> DEFINE new == [id |-> i, party |-> p, action |-> action, row |-> row]
<1>1. /\ pc' = [pc EXCEPT ![w] = next] /\ job' = [job EXCEPT ![w] = new]
      /\ UNCHANGED <<icases, records, positions, unopened>>
      /\ budget' \in [{"requests", "crashes", "faults"} -> Nat]
  BY SpendTyped DEF Load
<1>2. new \in Job
  BY DEF Job
<1> HIDE DEF new
<1> QED
  BY <1>1, <1>2 DEF TypeOK

\* The rows a handler may write.
LEMMA RowsTyped ==
  ASSUME TypeOK, NEW i \in Cases
  PROVE  /\ Bodies(icases[i]) \subseteq ICASE
         /\ [icases[i] EXCEPT !.status = "submitted"] \in ICASE
         /\ [icases[i] EXCEPT !.status = "rejected"] \in ICASE
         /\ \A p \in Parties : SignOff(icases[i], p) \in ICASE
<1>1. icases[i] \in ICASE
  BY DEF TypeOK
<1>2. \A p \in Parties : SignOff(icases[i], p) \in ICASE
  BY <1>1, SignOffBacked
<1> QED
  BY <1>1, <1>2 DEF ICASE, Statuses, Bodies

\* The cases, sign-offs, positions and requests are well formed in every
\* reachable state, even if a body sets the status or the flags.
THEOREM TypeCorrect == Spec => []TypeOK
<1>1. Init => TypeOK
  BY InitIInv DEF IInv
<1>2. TypeOK /\ [Next]_vars => TypeOK'
  <2> SUFFICES ASSUME TypeOK, [Next]_vars PROVE TypeOK'
    OBVIOUS
  <2>1. ASSUME NEW i \in Cases, CreateICASE(i) PROVE TypeOK'
    <3>1. PICK a \in BOOLEAN, s \in SUBSET Parties :
            icases' = [icases EXCEPT ![i] = [status |-> "draft", signs |-> s, account |-> a]]
      BY <2>1 DEF CreateICASE
    <3>2. [status |-> "draft", signs |-> s, account |-> a] \in ICASE
      BY DEF ICASE, Statuses
    <3>3. icases' \in [Cases -> ICASE]
      BY <3>1, <3>2 DEF TypeOK
    <3> QED
      BY <2>1, <3>3, SpendTyped DEF CreateICASE, TypeOK
  <2>2. ASSUME NEW w \in Workers, NEW i \in Cases, Request(w, i) PROVE TypeOK'
    <3>1. CASE UpdateICASE(w, i) \/ SubmitICASE(w, i)
      BY <3>1, RowsTyped, LoadTyped DEF UpdateICASE, SubmitICASE, TypeOK
    <3>2. ASSUME NEW p \in Parties \cup {"other"}, ApproveICASE(w, i, p) PROVE TypeOK'
      <4>1. (IF p \in Parties THEN SignOff(icases[i], p) ELSE icases[i]) \in ICASE
        BY RowsTyped DEF TypeOK
      <4>2. requested' \subseteq Cases \X Parties
        BY <3>2 DEF ApproveICASE, TypeOK
      <4> QED
        BY <3>2, <4>1, <4>2, LoadTyped DEF ApproveICASE
    <3>3. ASSUME NEW p \in Parties \cup {"other"}, RejectICASE(w, i, p) PROVE TypeOK'
      BY <3>3, RowsTyped, LoadTyped DEF RejectICASE, TypeOK
    <3> QED
      BY <2>2, <3>1, <3>2, <3>3 DEF Request
  <2>3. ASSUME NEW w \in Workers,
               Record(w) \/ OpenPosition(w) \/ Save(w) \/ StatementFails(w)
        PROVE  TypeOK'
    <3>0. /\ job[w].id \in Cases /\ job[w].row \in ICASE
          /\ <<job[w].id, job[w].party, job[w].action>>
               \in Cases \X (Parties \cup {"other"}) \X {"approved", "rejected"}
          /\ AfterRecord(job[w]) \in {"idle", "position", "save"}
      BY DEF TypeOK, Job, AfterRecord
    <3>1. CASE Record(w)
      BY <3>0, <3>1, GoTyped DEF Record, TypeOK
    <3>2. CASE OpenPosition(w)
      BY <3>0, <3>2, GoTyped DEF OpenPosition, TypeOK
    <3>3. CASE Save(w)
      BY <3>0, <3>3, GoTyped DEF Save, TypeOK
    <3>4. CASE StatementFails(w)
      BY <3>0, <3>4, GoTyped, SpendTyped DEF StatementFails, TypeOK
    <3> QED
      BY <2>3, <3>1, <3>2, <3>3, <3>4
  <2>4. CASE Crash
    BY <2>4, SpendTyped, NoJobTyped DEF Crash, TypeOK
  <2>5. CASE UNCHANGED vars
    BY <2>5 DEF vars, TypeOK
  <2> QED
    BY <2>1, <2>2, <2>3, <2>4, <2>5 DEF Next
<1> QED
  BY <1>1, <1>2, PTL DEF Spec

-----------------------------------------------------------------------------
(* The position comes before the status.                                    *)

\* Case i has a position if the row has it deployed with an account, or the INSERT
\* of one has failed.
Positioned(i, row) ==
  row.status = "deployed" /\ row.account => positions[i] > 0 \/ i \in unopened

\* A request that is past the position holds a row that has one; before, its
\* own way leads there.
JobPositioned(w) ==
  \/ pc[w] \in {"idle", "position"}
  \/ pc[w] = "record" /\ Deploys(job[w])
  \/ Positioned(job[w].id, job[w].row)

PositionInv ==
  /\ TypeOK /\ \A i \in Cases : Positioned(i, icases[i])
  /\ \A w \in Workers : JobPositioned(w)

\* SignOff deploys a case with an account only by an approval that opens a
\* position: ims approves, and the other two have signed.
LEMMA SignOffPositioned ==
  ASSUME NEW i \in Cases, NEW row \in ICASE, NEW p \in Parties, Positioned(i, row)
  PROVE  \/ Positioned(i, SignOff(row, p))
         \/ Deploys([id |-> i, party |-> p, action |-> "approved", row |-> SignOff(row, p)])
<1> DEFINE ahead ==
      IF p = "oas" /\ row.status = "submitted" THEN "oas_approved"
      ELSE IF p = "sms" /\ "oas" \in row.signs /\ row.status = "oas_approved" THEN "sms_approved"
      ELSE IF p = "ims" /\ {"oas", "sms"} \subseteq row.signs THEN "deployed"
      ELSE row.status
<1>1. SignOff(row, p) = [row EXCEPT !.signs = @ \cup {p}, !.status = ahead]
  BY DEF SignOff
<1>2. \/ ahead # "deployed" \/ ahead = row.status
      \/ p = "ims" /\ {"oas", "sms"} \subseteq row.signs
  OBVIOUS
<1>3. /\ SignOff(row, p).signs = row.signs \cup {p} /\ SignOff(row, p).status = ahead
      /\ SignOff(row, p).account = row.account
  BY <1>1 DEF ICASE
<1> HIDE DEF ahead
<1> QED
  BY <1>2, <1>3 DEF Positioned, Deploys

\* A handler that has read a case, and has changed no table yet.
LEMMA LoadPositioned ==
  ASSUME PositionInv, NEW w \in Workers, NEW i \in Cases, NEW p, NEW action, NEW row,
         NEW next \in {"record", "save"}, Load(w, i, p, action, row, next), TypeOK',
         \/ Positioned(i, row)
         \/ /\ next = "record"
            /\ Deploys([id |-> i, party |-> p, action |-> action, row |-> row])
  PROVE  PositionInv'
<1> DEFINE new == [id |-> i, party |-> p, action |-> action, row |-> row]
<1>1. /\ pc' = [pc EXCEPT ![w] = next] /\ job' = [job EXCEPT ![w] = new]
      /\ UNCHANGED <<icases, positions, unopened>>
  BY DEF Load
<1>2. ASSUME NEW v \in Workers PROVE JobPositioned(v)'
  <2>1. CASE v = w
    <3>1. new.id = i /\ new.row = row
      OBVIOUS
    <3> HIDE DEF new
    <3>2. job'[v] = new /\ pc'[v] = next
      BY <1>1, <2>1 DEF PositionInv, TypeOK
    <3>3. Positioned(i, row) \/ (next = "record" /\ Deploys(new))
      BY DEF new
    <3> QED
      BY <1>1, <3>1, <3>2, <3>3 DEF JobPositioned, Positioned, Deploys
  <2>2. CASE v # w
    <3> HIDE DEF new
    <3>1. job'[v] = job[v] /\ pc'[v] = pc[v]
      BY <1>1, <2>2 DEF PositionInv, TypeOK
    <3> QED
      BY <1>1, <3>1 DEF PositionInv, JobPositioned, Positioned, Deploys
  <2> QED
    BY <2>1, <2>2
<1> HIDE DEF new
<1>3. \A j \in Cases : Positioned(j, icases[j])'
  BY <1>1 DEF PositionInv, Positioned
<1> QED
  BY <1>2, <1>3 DEF PositionInv

\* Requests that read a case, when bodies leave the status and the account alone.
LEMMA RequestPositioned ==
  ASSUME BodyFields \subseteq {"signs"}, PositionInv, TypeOK', NEW w \in Workers, NEW i \in Cases, Request(w, i)
  PROVE  PositionInv'
<1>0. icases[i] \in ICASE /\ Positioned(i, icases[i])
  BY DEF PositionInv, TypeOK
<1>1. CASE UpdateICASE(w, i)
  <2>1. PICK row \in Bodies(icases[i]) : Load(w, i, "other", "rejected", row, "save")
    BY <1>1 DEF UpdateICASE
  <2>2. row.status = icases[i].status /\ row.account = icases[i].account
    BY DEF Bodies
  <2> QED
    BY <1>0, <2>1, <2>2, LoadPositioned DEF Positioned
<1>2. CASE SubmitICASE(w, i)
  <2> DEFINE row == [icases[i] EXCEPT !.status = "submitted"]
  <2>1. row.status # "deployed"
    BY <1>0 DEF ICASE
  <2>2. Load(w, i, "other", "rejected", row, "save")
    BY <1>2 DEF SubmitICASE
  <2> HIDE DEF row
  <2> QED
    BY <2>1, <2>2, LoadPositioned DEF Positioned
<1>3. ASSUME NEW p \in Parties \cup {"other"}, ApproveICASE(w, i, p) PROVE PositionInv'
  <2>1. CASE p \in Parties
    <3>1. Load(w, i, p, "approved", SignOff(icases[i], p), "record")
      BY <1>3, <2>1 DEF ApproveICASE
    <3> QED
      BY <1>0, <2>1, <3>1, SignOffPositioned, LoadPositioned
  <2>2. CASE p \notin Parties
    <3>1. Load(w, i, p, "approved", icases[i], "record")
      BY <1>3, <2>2 DEF ApproveICASE
    <3> QED
      BY <1>0, <3>1, LoadPositioned
  <2> QED
    BY <2>1, <2>2
<1>4. ASSUME NEW p \in Parties \cup {"other"}, RejectICASE(w, i, p) PROVE PositionInv'
  <2> DEFINE row == [icases[i] EXCEPT !.status = "rejected"]
  <2>1. row.status # "deployed"
    BY <1>0 DEF ICASE
  <2>2. Load(w, i, p, "rejected", row, "record")
    BY <1>4 DEF RejectICASE
  <2> HIDE DEF row
  <2> QED
    BY <2>1, <2>2, LoadPositioned DEF Positioned
<1> QED
  BY <1>1, <1>2, <1>3, <1>4 DEF Request

\* A request that goes on: positions and failures only grow, and its own row has
\* its position at the next statement.
LEMMA GoPositioned ==
  ASSUME PositionInv, TypeOK', NEW w \in Workers, NEW next \in {"idle", "position", "save"},
         Go(w, next), \A i \in Cases : positions'[i] >= positions[i],
         unopened \subseteq unopened',
         next = "save" => Positioned(job[w].id, job[w].row)',
         \A i \in Cases : Positioned(i, icases[i])'
  PROVE  PositionInv'
<1>1. positions \in [Cases -> Nat] /\ positions' \in [Cases -> Nat]
      /\ \A v \in Workers : job[v].id \in Cases
  BY DEF PositionInv, TypeOK, Job
<1>2. ASSUME NEW v \in Workers PROVE JobPositioned(v)'
  <2>1. CASE v = w
    <3>1. pc'[v] = next
      BY <2>1 DEF Go, PositionInv, TypeOK
    <3> QED
      BY <2>1, <3>1 DEF Go, JobPositioned
  <2>2. CASE v # w
    <3>1. pc'[v] = pc[v] /\ job'[v] = job[v]
      BY <2>2 DEF Go, PositionInv, TypeOK
    <3>2. Positioned(job[v].id, job[v].row) => Positioned(job[v].id, job[v].row)'
      BY <1>1, <3>1 DEF Positioned
    <3> QED
      BY <3>1, <3>2 DEF PositionInv, JobPositioned, Deploys
  <2> QED
    BY <2>1, <2>2
<1> QED
  BY <1>2 DEF PositionInv

\* The statements of a request, and their failures.
LEMMA StatementPositioned ==
  ASSUME PositionInv, TypeOK', NEW w \in Workers,
         Record(w) \/ OpenPosition(w) \/ Save(w) \/ StatementFails(w)
  PROVE  PositionInv'
<1>0. /\ positions \in [Cases -> Nat] /\ positions' \in [Cases -> Nat]
      /\ icases \in [Cases -> ICASE] /\ icases' \in [Cases -> ICASE]
      /\ job[w].id \in Cases /\ AfterRecord(job[w]) \in {"idle", "position", "save"}
  BY DEF PositionInv, TypeOK, Job, AfterRecord
<1>1. CASE Record(w) \/ (pc[w] = "record" /\ StatementFails(w))
  <2>1. pc[w] = "record" /\ Go(w, AfterRecord(job[w])) /\ UNCHANGED <<icases, positions, unopened>>
    BY <1>1 DEF Record, StatementFails
  <2>2. AfterRecord(job[w]) = "save" => Positioned(job[w].id, job[w].row)'
    BY <2>1 DEF PositionInv, JobPositioned, AfterRecord, Positioned, Go
  <2>3. \A i \in Cases : Positioned(i, icases[i])'
    BY <2>1 DEF PositionInv, Positioned
  <2>4. \A i \in Cases : positions'[i] >= positions[i]
    BY <1>0, <2>1
  <2> QED
    BY <1>0, <2>1, <2>2, <2>3, <2>4, GoPositioned
<1>2. CASE OpenPosition(w)
  <2>1. /\ Go(w, "save") /\ UNCHANGED <<icases, unopened>>
        /\ positions' = [positions EXCEPT ![job[w].id] = positions[job[w].id] + 1]
    BY <1>2 DEF OpenPosition
  <2>2. \A i \in Cases : positions'[i] >= positions[i]
    BY <1>0, <2>1
  <2>3. Positioned(job[w].id, job[w].row)'
    BY <1>0, <2>1 DEF Positioned, Go
  <2>4. \A i \in Cases : Positioned(i, icases[i])'
    BY <1>0, <2>1, <2>2 DEF PositionInv, Positioned
  <2> QED
    BY <2>1, <2>2, <2>3, <2>4, GoPositioned
<1>3. CASE Save(w)
  <2> DEFINE k == job[w].id
             row == job[w].row
  <2>1. /\ pc[w] = "save" /\ Go(w, "idle") /\ UNCHANGED <<positions, unopened>>
        /\ icases' = [icases EXCEPT ![k] = row]
    BY <1>3 DEF Save
  <2>2. Positioned(k, row)
    BY <2>1 DEF PositionInv, JobPositioned
  <2>3. k \in Cases
    BY <1>0
  <2> HIDE DEF k, row
  <2>4. ASSUME NEW i \in Cases PROVE Positioned(i, icases[i])'
    <3>1. (i = k /\ icases'[i] = row) \/ icases'[i] = icases[i]
      BY <1>0, <2>1, <2>3
    <3> QED
      BY <2>1, <2>2, <3>1 DEF PositionInv, Positioned
  <2>5. \A i \in Cases : positions'[i] >= positions[i]
    BY <1>0, <2>1
  <2> QED
    BY <2>1, <2>4, <2>5, GoPositioned
<1>4. CASE pc[w] = "position" /\ StatementFails(w)
  <2>1. Go(w, "save") /\ UNCHANGED <<icases, positions>> /\ unopened' = unopened \cup {job[w].id}
    BY <1>4 DEF StatementFails
  <2>2. Positioned(job[w].id, job[w].row)'
    BY <2>1 DEF Positioned, Go
  <2>3. \A i \in Cases : Positioned(i, icases[i])'
    BY <2>1 DEF PositionInv, Positioned
  <2>4. \A i \in Cases : positions'[i] >= positions[i]
    BY <1>0, <2>1
  <2> QED
    BY <2>1, <2>2, <2>3, <2>4, GoPositioned
<1>5. CASE pc[w] = "save" /\ StatementFails(w)
  <2>1. Go(w, "idle") /\ UNCHANGED <<icases, positions, unopened>>
    BY <1>5 DEF StatementFails
  <2>2. \A i \in Cases : Positioned(i, icases[i])'
    BY <2>1 DEF PositionInv, Positioned
  <2>3. \A i \in Cases : positions'[i] >= positions[i]
    BY <1>0, <2>1
  <2> QED
    BY <2>1, <2>2, <2>3, GoPositioned
<1> QED
  BY <1>1, <1>2, <1>3, <1>4, <1>5 DEF StatementFails

\* A deployed case with an account has its position unless the INSERT of one has
\* failed: in any number of cases, through every interleaving, crash and other
\* failure, as long as bodies leave the status and the account alone.
THEOREM DeployedHasPositionCorrect ==
  BodyFields \subseteq {"signs"} => (Spec => []DeployedHasPosition)
<1> SUFFICES ASSUME BodyFields \subseteq {"signs"} PROVE Spec => []DeployedHasPosition
  OBVIOUS
<1>1. Init => PositionInv
  <2> SUFFICES ASSUME Init PROVE PositionInv
    OBVIOUS
  <2>1. TypeOK
    BY InitIInv DEF IInv
  <2>2. \A i \in Cases : Positioned(i, icases[i])
    BY DEF Init, NoCase, Positioned
  <2>3. \A w \in Workers : JobPositioned(w)
    BY DEF Init, JobPositioned
  <2> QED
    BY <2>1, <2>2, <2>3 DEF PositionInv
<1>2. PositionInv /\ TypeOK' /\ [Next]_vars => PositionInv'
  <2> SUFFICES ASSUME PositionInv, TypeOK', [Next]_vars PROVE PositionInv'
    OBVIOUS
  <2>1. ASSUME NEW i \in Cases, CreateICASE(i) PROVE PositionInv'
    <3>1. /\ \A j \in Cases : icases'[j] = icases[j] \/ icases'[j].status = "draft"
          /\ UNCHANGED <<pc, job, positions, unopened>>
      BY <2>1 DEF CreateICASE, PositionInv, TypeOK
    <3> QED
      BY <3>1 DEF PositionInv, Positioned, JobPositioned, Deploys
  <2>2. CASE \E w \in Workers, i \in Cases : Request(w, i)
    BY <2>2, RequestPositioned
  <2>3. CASE \E w \in Workers : Record(w) \/ OpenPosition(w) \/ Save(w) \/ StatementFails(w)
    BY <2>3, StatementPositioned
  <2>4. CASE Crash
    <3>1. UNCHANGED <<icases, positions, unopened>> /\ \A w \in Workers : pc'[w] = "idle"
      BY <2>4 DEF Crash
    <3> QED
      BY <3>1 DEF PositionInv, Positioned, JobPositioned
  <2>5. CASE UNCHANGED vars
    BY <2>5 DEF vars, PositionInv, Positioned, JobPositioned, Deploys
  <2> QED
    BY <2>1, <2>2, <2>3, <2>4, <2>5 DEF Next
<1>3. PositionInv => DeployedHasPosition
  BY DEF PositionInv, DeployedHasPosition, Positioned
<1> QED
  BY <1>1, <1>2, <1>3, TypeCorrect, PTL DEF Spec
=============================================================================
