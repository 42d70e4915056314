------------------------- MODULE ApprovalFlowProofs -------------------------
(***************************************************************************)
(* DecisionAttributed, AuditTruthful and AuditComplete are invariants of   *)
(* the approval workflow for any number of admins, requests, crashes and   *)
(* failures.  None is inductive: what a request is about to write, or to   *)
(* record, must already be backed by the history when it gets there, and   *)
(* what took effect and is in no audit record is some request's to record. *)
(***************************************************************************)
EXTENDS ApprovalFlow, TLAPS

\* What a request holds when it reaches its write, and its audit record.
InFlight(w) ==
  /\ pc[w] = "write" =>
       /\ req[w].action = "approve" =>
            req[w].row = [status |-> "approved", approver |-> ApproverOf(req[w].admin)]
            /\ req[w].admin \in WhitelistB
       /\ req[w].action = "reject" =>
            req[w].row = [status |-> "rejected", approver |-> req[w].admin]
            /\ req[w].admin \in OUAU
       /\ req[w].action = "execute" =>
            req[w].row.status = "executed" /\ Approved(req[w].row, req[w].id)
       /\ req[w].action = "delete" => req[w].row.status = "deleted"
       /\ req[w].action # "create"
  /\ pc[w] = "audit" => <<req[w].action, req[w].admin, req[w].id>> \in done

IInv == TypeOK /\ DecisionAttributed /\ AuditTruthful /\ \A w \in Workers : InFlight(w)

-----------------------------------------------------------------------------
\* The stand-ins have their types, whatever CHOOSE picks.
LEMMA StandIns == NoRow \in ApprovalRequest /\ NoRequest \in Request
<1>1. (CHOOSE a \in Admins : TRUE) \in Admins
  <2>1. \E a \in Admins : TRUE
    BY AdminsAssumption
  <2> QED
    BY <2>1
<1>2. (CHOOSE i \in Ids : TRUE) \in Ids
  <2>1. \E i \in Ids : TRUE
    BY IdsAssumption
  <2> QED
    BY <2>1
<1>3. NoRow \in ApprovalRequest
  BY DEF NoRow, ApprovalRequest, Statuses
<1> QED
  BY <1>1, <1>2, <1>3 DEF NoRequest, Request, Actions

\* A step that leaves a spent budget leaves a typed budget.
LEMMA SpendTyped ==
  ASSUME TypeOK, NEW b \in {"requests", "crashes", "faults"}, Spend(b)
  PROVE  budget' \in [{"requests", "crashes", "faults"} -> Nat]
<1>1. budget[b] - 1 \in Nat
  BY DEF TypeOK, Spend
<1> QED
  BY <1>1 DEF TypeOK, Spend

\* The table starts empty: nothing is decided, recorded or in flight.
LEMMA InitIInv == Init => IInv
<1> SUFFICES ASSUME Init PROVE IInv
  OBVIOUS
<1>1. TypeOK
  BY StandIns, BoundsAssumption DEF Init, TypeOK
<1>2. DecisionAttributed
  BY DEF Init, DecisionAttributed, Decided, NoRow
<1>3. AuditTruthful /\ \A w \in Workers : InFlight(w)
  BY DEF Init, AuditTruthful, InFlight
<1> QED
  BY <1>1, <1>2, <1>3 DEF IInv

\* A request that passes its checks holds a row that its checks justify.
LEMMA AcceptIInv ==
  ASSUME IInv, NEW w \in Workers, NEW a \in Admins, NEW i \in Ids,
         NEW action \in Actions, NEW row \in ApprovalRequest,
         Accept(w, action, a, i, row),
         action # "create",
         action = "approve" => row = [status |-> "approved", approver |-> ApproverOf(a)] /\ a \in WhitelistB,
         action = "reject" => row = [status |-> "rejected", approver |-> a] /\ a \in OUAU,
         action = "execute" =>
           row.status = "executed" /\ Approved(row, i),
         action = "delete" => row.status = "deleted"
  PROVE  IInv'
<1>1. req' = [req EXCEPT ![w] = [action |-> action, admin |-> a, id |-> i, row |-> row]]
  BY DEF Accept
<1>2. [action |-> action, admin |-> a, id |-> i, row |-> row] \in Request
  BY DEF Request
<1>3. TypeOK'
  <2>1. budget' \in [{"requests", "crashes", "faults"} -> Nat]
    BY SpendTyped DEF IInv, Accept
  <2> QED
    BY <1>1, <1>2, <2>1 DEF IInv, Accept, TypeOK
<1>4. DecisionAttributed' /\ AuditTruthful'
  BY DEF IInv, Accept, DecisionAttributed, Decided, Approved, AuditTruthful
<1>5. ASSUME NEW v \in Workers PROVE InFlight(v)'
  <2>1. CASE v = w
    <3>1. req'[w] = [action |-> action, admin |-> a, id |-> i, row |-> row] /\ pc'[w] = "write"
      BY <1>1 DEF IInv, TypeOK, Accept
    <3>2. done' = done
      BY DEF Accept
    <3> QED
      BY <2>1, <3>1, <3>2 DEF InFlight, Approved
  <2>2. CASE v # w
    <3>1. req'[v] = req[v] /\ pc'[v] = pc[v] /\ done' = done
      BY <1>1, <2>2 DEF IInv, TypeOK, Accept
    <3> QED
      BY <3>1 DEF IInv, InFlight, Approved
  <2> QED
    BY <2>1, <2>2
<1> QED
  BY <1>3, <1>4, <1>5 DEF IInv

\* Every handler's first step keeps the inductive invariant.
LEMMA HandlerIInv ==
  ASSUME IInv, NEW w \in Workers, NEW a \in Admins, NEW i \in Ids, Handler(w, a, i)
  PROVE  IInv'
<1>0. /\ approvals[i] \in ApprovalRequest /\ Decided(approvals[i], i)
      /\ ApproverOf(a) \in Admins \cup {Nobody, Anonymous}
  BY DEF IInv, TypeOK, DecisionAttributed, ApproverOf
<1>1. CASE CreateApproval(w, a, i)
  <2> DEFINE new == [status |-> "pending", approver |-> Nobody]
             claim == <<"create", a, i>>
             held == [action |-> "create", admin |-> a, id |-> i, row |-> NoRow]
  <2>1. new \in ApprovalRequest /\ held \in Request /\ claim \in Actions \X Admins \X Ids
    BY StandIns DEF ApprovalRequest, Statuses, Request, Actions
  <2>2. /\ approvals' = [approvals EXCEPT ![i] = new] /\ done' = done \cup {claim}
        /\ pc' = [pc EXCEPT ![w] = "audit"] /\ req' = [req EXCEPT ![w] = held]
        /\ audit' = audit /\ Spend("requests")
    BY <1>1 DEF CreateApproval
  <2> HIDE DEF new, claim, held
  <2>3. TypeOK'
    <3>1. budget' \in [{"requests", "crashes", "faults"} -> Nat]
      BY <2>2, SpendTyped DEF IInv
    <3> QED
      BY <2>1, <2>2, <3>1 DEF IInv, TypeOK
  <2>4. ASSUME NEW j \in Ids PROVE Decided(approvals[j], j)'
    <3>1. CASE j = i
      <4>1. approvals'[j].status = "pending"
        BY <2>2, <3>1 DEF IInv, TypeOK, new
      <4> QED
        BY <4>1 DEF Decided
    <3>2. CASE j # i
      <4>1. approvals'[j] = approvals[j] /\ done \subseteq done'
        BY <2>2, <3>2 DEF IInv, TypeOK
      <4> QED
        BY <4>1 DEF IInv, DecisionAttributed, Decided, Approved
    <3> QED
      BY <3>1, <3>2
  <2>5. ASSUME NEW v \in Workers PROVE InFlight(v)'
    <3>1. CASE v = w
      <4>1. req'[v] = held /\ pc'[v] = "audit" /\ claim \in done'
        BY <2>2, <3>1 DEF IInv, TypeOK
      <4> QED
        BY <4>1 DEF InFlight, held, claim
    <3>2. CASE v # w
      <4>1. req'[v] = req[v] /\ pc'[v] = pc[v] /\ done \subseteq done'
        BY <2>2, <3>2 DEF IInv, TypeOK
      <4> QED
        BY <4>1 DEF IInv, InFlight, Approved
    <3> QED
      BY <3>1, <3>2
  <2> QED
    BY <2>2, <2>3, <2>4, <2>5 DEF IInv, DecisionAttributed, AuditTruthful
<1>2. CASE ApproveApproval(w, a, i)
  <2>1. [status |-> "approved", approver |-> ApproverOf(a)] \in ApprovalRequest
    BY <1>0 DEF ApprovalRequest, Statuses
  <2> QED
    BY <1>2, <2>1, AcceptIInv DEF ApproveApproval, Actions
<1>3. CASE RejectApproval(w, a, i)
  <2>1. a \in OUAU /\ ApproverOf(a) = a
    BY <1>3, AdminsAssumption DEF RejectApproval, ApproverOf
  <2>2. [status |-> "rejected", approver |-> a] \in ApprovalRequest
    BY <1>0, <2>1 DEF ApprovalRequest, Statuses
  <2> QED
    BY <1>3, <2>1, <2>2, AcceptIInv DEF RejectApproval, Actions
<1>4. CASE ExecuteApproval(w, a, i)
  <2> DEFINE row == [approvals[i] EXCEPT !.status = "executed"]
  <2>1. row \in ApprovalRequest /\ row.status = "executed" /\ row.approver = approvals[i].approver
    BY <1>0 DEF ApprovalRequest, Statuses
  <2>2. Approved(approvals[i], i)
    BY <1>0, <1>4 DEF ExecuteApproval, Decided
  <2>3. Accept(w, "execute", a, i, row)
    BY <1>4 DEF ExecuteApproval
  <2> HIDE DEF row
  <2>4. Approved(row, i)
    BY <2>1, <2>2 DEF Approved
  <2> QED
    BY <2>1, <2>3, <2>4, AcceptIInv DEF Actions
<1>5. CASE DeleteApproval(w, a, i)
  <2> DEFINE row == [approvals[i] EXCEPT !.status = "deleted"]
  <2>1. row \in ApprovalRequest /\ row.status = "deleted"
    BY <1>0 DEF ApprovalRequest, Statuses
  <2>2. Accept(w, "delete", a, i, row)
    BY <1>5 DEF DeleteApproval
  <2> HIDE DEF row
  <2> QED
    BY <2>1, <2>2, AcceptIInv DEF Actions
<1> QED
  BY <1>1, <1>2, <1>3, <1>4, <1>5 DEF Handler

\* The write brings the row and the history that justifies it together.
LEMMA WriteIInv ==
  ASSUME IInv, NEW w \in Workers, Write(w)
  PROVE  IInv'
<1> DEFINE k == req[w].id
           row == req[w].row
           claim == <<req[w].action, req[w].admin, k>>
<1>1. req[w] \in Request /\ k \in Ids /\ row \in ApprovalRequest
      /\ claim \in Actions \X Admins \X Ids
  BY DEF IInv, TypeOK, Request
<1>2. /\ approvals' = [approvals EXCEPT ![k] = row] /\ done' = done \cup {claim}
      /\ pc' = [pc EXCEPT ![w] = "audit"] /\ UNCHANGED <<audit, req, budget>>
  BY DEF Write
<1>3. TypeOK'
  <2> HIDE DEF k, row, claim
  <2> QED
    BY <1>1, <1>2 DEF IInv, TypeOK
<1>4. ASSUME NEW j \in Ids PROVE Decided(approvals[j], j)'
  <2>1. done \subseteq done' /\ claim \in done'
    BY <1>2
  <2>2. CASE j = k
    <3>1. approvals'[j] = row
      <4> HIDE DEF k, row, claim
      <4> QED
        BY <1>1, <1>2, <2>2 DEF IInv, TypeOK
    <3>2. InFlight(w) /\ pc[w] = "write" /\ req[w].action \in Actions
      BY <1>1 DEF IInv, Write, Request
    <3>3. CASE req[w].action = "approve"
      <4>1. /\ row.status = "approved" /\ row.approver = ApproverOf(req[w].admin)
            /\ req[w].admin \in WhitelistB
        BY <3>2, <3>3 DEF InFlight
      <4> QED
        BY <2>1, <2>2, <3>1, <3>3, <4>1 DEF Decided, Approved
    <3>4. CASE req[w].action = "reject"
      <4>1. row.status = "rejected" /\ row.approver = req[w].admin /\ req[w].admin \in OUAU
        BY <3>2, <3>4 DEF InFlight
      <4> QED
        BY <2>1, <2>2, <3>1, <3>4, <4>1 DEF Decided
    <3>5. CASE req[w].action = "execute"
      <4>1. row.status = "executed" /\ Approved(row, k)
        BY <3>2, <3>5 DEF InFlight
      <4> QED
        BY <2>1, <2>2, <3>1, <4>1 DEF Decided, Approved
    <3>6. CASE req[w].action = "delete"
      <4>1. row.status = "deleted"
        BY <3>2, <3>6 DEF InFlight
      <4> QED
        BY <3>1, <4>1 DEF Decided
    <3> QED
      BY <3>2, <3>3, <3>4, <3>5, <3>6 DEF InFlight, Actions
  <2>3. CASE j # k
    <3>1. approvals'[j] = approvals[j]
      <4> HIDE DEF k, row, claim
      <4> QED
        BY <1>2, <2>3 DEF IInv, TypeOK
    <3> QED
      BY <2>1, <3>1 DEF IInv, DecisionAttributed, Decided, Approved
  <2> QED
    BY <2>2, <2>3
<1>5. ASSUME NEW v \in Workers PROVE InFlight(v)'
  <2>1. req' = req /\ done \subseteq done' /\ claim \in done'
    BY <1>2
  <2>2. CASE v = w
    <3>1. pc'[v] = "audit"
      BY <1>2, <2>2 DEF IInv, TypeOK
    <3> QED
      BY <2>1, <2>2, <3>1 DEF InFlight
  <2>3. CASE v # w
    <3>1. pc'[v] = pc[v]
      BY <1>2, <2>3 DEF IInv, TypeOK
    <3> QED
      BY <2>1, <3>1 DEF IInv, InFlight, Approved
  <2> QED
    BY <2>2, <2>3
<1> QED
  BY <1>2, <1>3, <1>4, <1>5 DEF IInv, DecisionAttributed, AuditTruthful

\* The ends of a request: the audit record, the failures and the crash.
LEMMA EndIInv ==
  ASSUME IInv, NEW w \in Workers, WriteFails(w) \/ Audit(w) \/ AuditFails(w)
  PROVE  IInv'
<1> DEFINE claim == <<req[w].action, req[w].admin, req[w].id>>
<1>1. /\ approvals' = approvals /\ done' = done
      /\ audit' \subseteq audit \cup (IF pc[w] = "audit" THEN {claim} ELSE {})
      /\ pc' = [pc EXCEPT ![w] = "idle"] /\ req' = [req EXCEPT ![w] = NoRequest]
      /\ budget' = budget \/ Spend("faults")
  BY DEF WriteFails, Audit, AuditFails, Free
<1>2. pc[w] = "audit" => claim \in done
  BY DEF IInv, InFlight
<1> HIDE DEF claim
<1>3. audit' \subseteq done'
  BY <1>1, <1>2 DEF IInv, AuditTruthful
<1>4. TypeOK'
  <2>1. budget' \in [{"requests", "crashes", "faults"} -> Nat]
    BY <1>1, SpendTyped DEF IInv, TypeOK
  <2>2. pc' \in [Workers -> {"idle", "write", "audit"}] /\ req' \in [Workers -> Request]
    BY <1>1, StandIns DEF IInv, TypeOK
  <2> QED
    BY <1>1, <1>3, <2>1, <2>2 DEF IInv, TypeOK
<1>5. ASSUME NEW v \in Workers PROVE InFlight(v)'
  <2>1. CASE v = w
    <3>1. pc'[v] = "idle"
      BY <1>1, <2>1 DEF IInv, TypeOK
    <3> QED
      BY <3>1 DEF InFlight
  <2>2. CASE v # w
    <3>1. req'[v] = req[v] /\ pc'[v] = pc[v] /\ done' = done
      BY <1>1, <2>2 DEF IInv, TypeOK
    <3> QED
      BY <3>1 DEF IInv, InFlight, Approved
  <2> QED
    BY <2>1, <2>2
<1> QED
  BY <1>1, <1>3, <1>4, <1>5 DEF IInv, DecisionAttributed, Decided, Approved, AuditTruthful

\* A crash forgets the requests, and with them what they were about to write.
LEMMA CrashIInv == ASSUME IInv, Crash PROVE IInv'
<1>1. /\ UNCHANGED <<approvals, audit, done>> /\ Spend("crashes")
      /\ pc' = [w \in Workers |-> "idle"] /\ req' = [w \in Workers |-> NoRequest]
  BY DEF Crash
<1>2. TypeOK'
  <2>1. budget' \in [{"requests", "crashes", "faults"} -> Nat]
    BY <1>1, SpendTyped DEF IInv
  <2> QED
    BY <1>1, <2>1, StandIns DEF IInv, TypeOK
<1>3. \A w \in Workers : InFlight(w)'
  BY <1>1 DEF InFlight
<1> QED
  BY <1>1, <1>2, <1>3 DEF IInv, DecisionAttributed, Decided, Approved, AuditTruthful

\* The inductive invariant holds in every reachable state.
LEMMA Inductive == Spec => []IInv
<1>1. IInv /\ [Next]_vars => IInv'
  <2> SUFFICES ASSUME IInv, [Next]_vars PROVE IInv'
    OBVIOUS
  <2>1. CASE \E w \in Workers, a \in Admins, i \in Ids : Handler(w, a, i)
    BY <2>1, HandlerIInv
  <2>2. CASE \E w \in Workers : Write(w) \/ WriteFails(w) \/ Audit(w) \/ AuditFails(w)
    BY <2>2, WriteIInv, EndIInv
  <2>3. CASE Crash
    BY <2>3, CrashIInv
  <2>4. CASE UNCHANGED vars
    BY <2>4 DEF vars, IInv, TypeOK, DecisionAttributed, Decided, Approved, AuditTruthful, InFlight
  <2> QED
    BY <2>1, <2>2, <2>3, <2>4 DEF Next
<1> QED
  BY <1>1, InitIInv, PTL DEF Spec

-----------------------------------------------------------------------------
\* Status and approver_id always name a decision that took effect, made by an
\* account that was entitled to it; an empty approver_id is an API key's.
THEOREM DecisionAttributedCorrect == Spec => []DecisionAttributed
<1>1. IInv => DecisionAttributed
  BY DEF IInv
<1> QED
  BY <1>1, Inductive, PTL

\* No audit record of an approval claims what did not happen.
THEOREM AuditTruthfulCorrect == Spec => []AuditTruthful
<1>1. IInv => AuditTruthful
  BY DEF IInv
<1> QED
  BY <1>1, Inductive, PTL

-----------------------------------------------------------------------------
(* The audit log is complete when nothing crashed or failed.                *)

Claim(w) == <<req[w].action, req[w].admin, req[w].id>>

\* What took effect is recorded, or its request is about to record it.
Recorded(d) == d \in audit \/ \E w \in Workers : pc[w] = "audit" /\ Claim(w) = d

\* Bounds are only ever spent, so that an undisturbed run has been so always.
AuditInv ==
  /\ budget.crashes <= MaxCrashes /\ budget.faults <= MaxFaults
  /\ Undisturbed => \A d \in done : Recorded(d)

\* A request that moves to its audit record makes what it did recorded, and
\* takes nothing from what was.
LEMMA ReachAudit ==
  ASSUME IInv, IInv', AuditInv, NEW w \in Workers, pc[w] # "audit",
         pc' = [pc EXCEPT ![w] = "audit"], audit' = audit,
         \A v \in Workers : v # w => req'[v] = req[v],
         done' = done \cup {Claim(w)'},
         budget'.crashes = budget.crashes, budget'.faults = budget.faults
  PROVE  AuditInv'
<1>1. ASSUME NEW v \in Workers PROVE pc'[v] = IF v = w THEN "audit" ELSE pc[v]
  BY DEF IInv, TypeOK
<1>2. ASSUME NEW d \in done', Undisturbed PROVE Recorded(d)'
  <2>1. CASE d = Claim(w)'
    BY <1>1, <2>1 DEF Recorded
  <2>2. CASE d \in done
    <3>1. Recorded(d)
      BY <1>2, <2>2 DEF AuditInv
    <3> QED
      BY <1>1, <3>1 DEF Recorded, Claim
  <2> QED
    BY <2>1, <2>2
<1> QED
  BY <1>2 DEF AuditInv, Undisturbed

\* A step that neither does nor records anything, of a request that is not at
\* its audit record.
LEMMA StayRecorded ==
  ASSUME IInv, AuditInv, NEW w \in Workers, pc[w] # "audit", NEW next,
         pc' = [pc EXCEPT ![w] = next],
         \A v \in Workers : v # w => req'[v] = req[v], UNCHANGED <<audit, done>>,
         budget'.crashes <= budget.crashes, budget'.faults <= budget.faults,
         budget \in [{"requests", "crashes", "faults"} -> Nat],
         budget' \in [{"requests", "crashes", "faults"} -> Nat]
  PROVE  AuditInv'
<1>1. ASSUME NEW v \in Workers, v # w PROVE pc'[v] = pc[v] /\ req'[v] = req[v]
  BY <1>1 DEF IInv, TypeOK
<1>2. \A d \in done' : Recorded(d) => Recorded(d)'
  BY <1>1 DEF Recorded, Claim
<1>3. budget'.crashes <= MaxCrashes /\ budget'.faults <= MaxFaults
  BY BoundsAssumption DEF AuditInv
<1>4. Undisturbed' => Undisturbed
  BY BoundsAssumption DEF AuditInv, Undisturbed
<1> QED
  BY <1>2, <1>3, <1>4 DEF AuditInv

\* A bound that is spent disturbs the run for good.
LEMMA Disturbs ==
  ASSUME IInv, AuditInv, NEW b \in {"crashes", "faults"}, Spend(b)
  PROVE  AuditInv' /\ ~Undisturbed'
<1>1. /\ budget \in [{"requests", "crashes", "faults"} -> Nat]
      /\ budget' = [budget EXCEPT ![b] = @ - 1]
  BY DEF IInv, TypeOK, Spend
<1>2. /\ budget'.crashes = IF b = "crashes" THEN budget.crashes - 1 ELSE budget.crashes
      /\ budget'.faults = IF b = "faults" THEN budget.faults - 1 ELSE budget.faults
  BY <1>1
<1> QED
  BY <1>1, <1>2, BoundsAssumption DEF AuditInv, Undisturbed

\* Whatever took effect is in the audit log once the requests are answered, for
\* any number of admins and requests, as long as nothing crashed or failed.
THEOREM AuditCompleteCorrect == Spec => []AuditComplete
<1>1. Init => AuditInv
  BY BoundsAssumption DEF Init, AuditInv
<1>2. IInv /\ IInv' /\ AuditInv /\ [Next]_vars => AuditInv'
  <2> SUFFICES ASSUME IInv, IInv', AuditInv, [Next]_vars PROVE AuditInv'
    OBVIOUS
  <2>0. /\ budget \in [{"requests", "crashes", "faults"} -> Nat]
        /\ budget' \in [{"requests", "crashes", "faults"} -> Nat]
    BY DEF IInv, TypeOK
  <2>1. ASSUME NEW w \in Workers, NEW a \in Admins, NEW i \in Ids, Handler(w, a, i)
        PROVE  AuditInv'
    <3>1. pc[w] = "idle" /\ Spend("requests")
      BY <2>1 DEF Handler, CreateApproval, ApproveApproval, RejectApproval, ExecuteApproval,
                  DeleteApproval, Accept
    <3>2. budget'.crashes = budget.crashes /\ budget'.faults = budget.faults
      BY <2>0, <3>1 DEF Spend
    <3>3. CASE CreateApproval(w, a, i)
      <4> DEFINE held == [action |-> "create", admin |-> a, id |-> i, row |-> NoRow]
      <4>1. /\ pc' = [pc EXCEPT ![w] = "audit"] /\ req' = [req EXCEPT ![w] = held]
            /\ audit' = audit /\ done' = done \cup {<<"create", a, i>>}
        BY <3>3 DEF CreateApproval
      <4>2. <<held.action, held.admin, held.id>> = <<"create", a, i>>
        OBVIOUS
      <4> HIDE DEF held
      <4>3. req'[w] = held /\ \A v \in Workers : v # w => req'[v] = req[v]
        BY <4>1 DEF IInv, TypeOK
      <4>4. Claim(w)' = <<"create", a, i>>
        BY <4>2, <4>3 DEF Claim
      <4> QED
        BY <3>1, <3>2, <4>1, <4>3, <4>4, ReachAudit
    <3>4. CASE ~CreateApproval(w, a, i)
      <4>1. PICK action, row : Accept(w, action, a, i, row)
        BY <2>1, <3>4 DEF Handler, ApproveApproval, RejectApproval, ExecuteApproval, DeleteApproval
      <4>2. /\ pc' = [pc EXCEPT ![w] = "write"] /\ UNCHANGED <<audit, done>>
            /\ \A v \in Workers : v # w => req'[v] = req[v]
        BY <4>1 DEF Accept, IInv, TypeOK
      <4>3. budget'.crashes <= budget.crashes /\ budget'.faults <= budget.faults
        BY <2>0, <3>2
      <4> QED
        BY <2>0, <3>1, <4>2, <4>3, StayRecorded
    <3> QED
      BY <3>3, <3>4
  <2>2. ASSUME NEW w \in Workers, Write(w) PROVE AuditInv'
    <3>1. done' = done \cup {Claim(w)'}
      BY <2>2 DEF Write, Claim
    <3> QED
      BY <2>2, <3>1, ReachAudit DEF Write
  <2>3. ASSUME NEW w \in Workers, WriteFails(w) \/ AuditFails(w) PROVE AuditInv'
    BY <2>3, Disturbs DEF WriteFails, AuditFails
  <2>4. ASSUME NEW w \in Workers, Audit(w) PROVE AuditInv'
    <3>1. /\ audit' = audit \cup {Claim(w)} /\ UNCHANGED <<done, budget>>
          /\ \A v \in Workers : v # w => pc'[v] = pc[v] /\ req'[v] = req[v]
      BY <2>4 DEF Audit, Free, IInv, TypeOK, Claim
    <3>2. ASSUME NEW d, Recorded(d) PROVE Recorded(d)'
      BY <3>1, <3>2 DEF Recorded, Claim
    <3> QED
      BY <3>1, <3>2 DEF AuditInv, Undisturbed
  <2>5. CASE Crash
    BY <2>5, Disturbs DEF Crash
  <2>6. CASE UNCHANGED vars
    BY <2>6 DEF vars, AuditInv, Undisturbed, Recorded, Claim
  <2> QED
    BY <2>1, <2>2, <2>3, <2>4, <2>5, <2>6 DEF Next
<1>3. AuditInv => AuditComplete
  BY DEF AuditInv, AuditComplete, Recorded, Quiet
<1> QED
  BY <1>1, <1>2, <1>3, Inductive, PTL DEF Spec

\* The approvals, the log and the requests are well formed.
THEOREM TypeCorrect == Spec => []TypeOK
<1>1. IInv => TypeOK
  BY DEF IInv
<1> QED
  BY <1>1, Inductive, PTL

-----------------------------------------------------------------------------
(* DecisionFinal does not hold: two requests that have read the same row    *)
(* each write what they made of it.  It is all that is missing.             *)

\* No two requests are between the read and the write of the same row, as
\* if First locked it.
Serialised ==
  \A v, w \in Workers :
    pc[v] = "write" /\ pc[w] = "write" /\ req[v].id = req[w].id => v = w

\* The moves of a row that the handlers allow.
Moves ==
  {<<"pending", "approved">>, <<"pending", "rejected">>, <<"approved", "executed">>}
  \cup {<<s, "deleted">> : s \in Statuses \ {"none", "deleted"}}

\* What a request is about to write still follows from what is stored.
Fresh == \A w \in Workers :
  pc[w] = "write" => <<approvals[req[w].id].status, req[w].row.status>> \in Moves

\* A request that passes its checks holds a legal move.
LEMMA AcceptFresh ==
  ASSUME IInv, Fresh, NEW w \in Workers, NEW action \in Actions, NEW a \in Admins, NEW i \in Ids,
         NEW row \in ApprovalRequest, Accept(w, action, a, i, row),
         <<approvals[i].status, row.status>> \in Moves
  PROVE  Fresh'
<1>1. pc' = [pc EXCEPT ![w] = "write"] /\ approvals' = approvals
      /\ req' = [req EXCEPT ![w] = [action |-> action, admin |-> a, id |-> i, row |-> row]]
  BY DEF Accept
<1> SUFFICES ASSUME NEW v \in Workers, pc'[v] = "write"
             PROVE  <<approvals'[req'[v].id].status, req'[v].row.status>> \in Moves
  BY DEF Fresh
<1>2. CASE v = w
  BY <1>1, <1>2 DEF IInv, TypeOK
<1>3. CASE v # w
  BY <1>1, <1>3 DEF IInv, TypeOK, Fresh
<1>4. QED BY <1>2, <1>3

\* Every step keeps the requests fresh, as long as no two of them are about
\* to write the same row.
LEMMA FreshKept ==
  ASSUME IInv, Fresh, Serialised, [Next]_vars
  PROVE  Fresh'
<1>1. ASSUME NEW w \in Workers, NEW a \in Admins, NEW i \in Ids, CreateApproval(w, a, i)
      PROVE  Fresh'
  <2> SUFFICES ASSUME NEW v \in Workers, pc'[v] = "write"
               PROVE  <<approvals'[req'[v].id].status, req'[v].row.status>> \in Moves
    BY DEF Fresh
  <2>1. approvals[i].status = "none" /\ approvals' = [approvals EXCEPT ![i] = [status |-> "pending", approver |-> Nobody]]
    BY <1>1 DEF CreateApproval, NoRow
  <2>2. v # w /\ pc[v] = "write" /\ req'[v] = req[v]
    BY <1>1 DEF CreateApproval, IInv, TypeOK
  <2>3. <<approvals[req[v].id].status, req[v].row.status>> \in Moves
    BY <2>2 DEF Fresh
  <2>4. req[v].id # i
    BY <2>1, <2>3 DEF Moves
  <2>5. req[v].id \in Ids
    BY DEF IInv, TypeOK, Request
  <2>6. approvals'[req[v].id] = approvals[req[v].id]
    BY <2>1, <2>4, <2>5 DEF IInv, TypeOK
  <2>7. QED BY <2>2, <2>3, <2>6
<1>2. ASSUME NEW w \in Workers, NEW a \in Admins, NEW i \in Ids,
             ApproveApproval(w, a, i) \/ RejectApproval(w, a, i)
      PROVE  Fresh'
  <2>1. approvals[i].status = "pending" /\ ApproverOf(a) \in Admins \cup {Nobody, Anonymous}
    BY <1>2 DEF ApproveApproval, RejectApproval, ApproverOf
  <2>2. [status |-> "approved", approver |-> ApproverOf(a)] \in ApprovalRequest
        /\ [status |-> "rejected", approver |-> ApproverOf(a)] \in ApprovalRequest
    BY <2>1 DEF ApprovalRequest, Statuses
  <2>3. QED
    BY <1>2, <2>1, <2>2, AcceptFresh DEF ApproveApproval, RejectApproval, Moves, Actions
<1>3. ASSUME NEW w \in Workers, NEW a \in Admins, NEW i \in Ids, ExecuteApproval(w, a, i)
      PROVE  Fresh'
  <2> DEFINE row == [approvals[i] EXCEPT !.status = "executed"]
  <2>1. approvals[i].status = "approved" /\ Accept(w, "execute", a, i, row)
    BY <1>3 DEF ExecuteApproval
  <2>2. row \in ApprovalRequest /\ row.status = "executed"
    BY DEF IInv, TypeOK, ApprovalRequest, Statuses
  <2> HIDE DEF row
  <2>3. QED BY <2>1, <2>2, AcceptFresh DEF Moves, Actions
<1>4. ASSUME NEW w \in Workers, NEW a \in Admins, NEW i \in Ids, DeleteApproval(w, a, i)
      PROVE  Fresh'
  <2> DEFINE row == [approvals[i] EXCEPT !.status = "deleted"]
  <2>1. Stored(i) /\ Accept(w, "delete", a, i, row)
    BY <1>4 DEF DeleteApproval
  <2>2. row \in ApprovalRequest /\ row.status = "deleted" /\ approvals[i].status \in Statuses
    BY DEF IInv, TypeOK, ApprovalRequest, Statuses
  <2>3. <<approvals[i].status, "deleted">> \in Moves
    BY <2>1, <2>2 DEF Stored, Moves
  <2> HIDE DEF row
  <2>4. QED BY <2>1, <2>2, <2>3, AcceptFresh DEF Actions
<1>5. ASSUME NEW w \in Workers, Write(w)
      PROVE  Fresh'
  <2> SUFFICES ASSUME NEW v \in Workers, pc'[v] = "write"
               PROVE  <<approvals'[req'[v].id].status, req'[v].row.status>> \in Moves
    BY DEF Fresh
  <2>1. v # w /\ pc[v] = "write" /\ pc[w] = "write" /\ req' = req
    BY <1>5 DEF Write, IInv, TypeOK
  <2>2. req[v].id # req[w].id
    BY <2>1 DEF Serialised
  <2>3. req[v].id \in Ids
    BY DEF IInv, TypeOK, Request
  <2>4. approvals'[req[v].id] = approvals[req[v].id]
    BY <1>5, <2>2, <2>3 DEF Write, IInv, TypeOK
  <2>5. QED BY <2>1, <2>4 DEF Fresh
<1>6. ASSUME NEW w \in Workers, WriteFails(w) \/ Audit(w) \/ AuditFails(w)
      PROVE  Fresh'
  <2> SUFFICES ASSUME NEW v \in Workers, pc'[v] = "write"
               PROVE  <<approvals'[req'[v].id].status, req'[v].row.status>> \in Moves
    BY DEF Fresh
  <2>1. approvals' = approvals /\ Free(w)
    BY <1>6 DEF WriteFails, Audit, AuditFails
  <2>2. v # w /\ pc[v] = "write" /\ req'[v] = req[v]
    BY <2>1 DEF Free, IInv, TypeOK
  <2>3. QED BY <2>1, <2>2 DEF Fresh
<1>7. CASE Crash
  BY <1>7 DEF Crash, Fresh
<1>8. CASE UNCHANGED vars
  BY <1>8 DEF vars, Fresh
<1>9. QED
  BY <1>1, <1>2, <1>3, <1>4, <1>5, <1>6, <1>7, <1>8 DEF Next, Handler

\* What a step of DecisionFinal may do.
LegalStep ==
  \A i \in Ids :
    LET old == approvals[i].status
        new == approvals[i].status'
    IN old # new =>
         \/ <<old, new>> \in {<<"none", "pending">>, <<"pending", "approved">>,
                              <<"pending", "rejected">>, <<"approved", "executed">>}
         \/ new = "deleted" /\ old # "none"

\* Only the INSERT of CreateApproval and the write of a fresh request change
\* a status.
LEMMA FreshSteps ==
  ASSUME IInv, Fresh, [Next]_vars
  PROVE  LegalStep
<1> SUFFICES ASSUME NEW i \in Ids, approvals[i].status # approvals'[i].status
             PROVE  \/ <<approvals[i].status, approvals'[i].status>> \in
                         {<<"none", "pending">>, <<"pending", "approved">>,
                          <<"pending", "rejected">>, <<"approved", "executed">>}
                    \/ approvals'[i].status = "deleted" /\ approvals[i].status # "none"
  BY DEF LegalStep
<1>1. ASSUME NEW w \in Workers, NEW a \in Admins, NEW j \in Ids, CreateApproval(w, a, j)
      PROVE  approvals[i].status = "none" /\ approvals'[i].status = "pending"
  BY <1>1 DEF CreateApproval, NoRow, IInv, TypeOK
<1>2. ASSUME NEW w \in Workers, Write(w)
      PROVE  <<approvals[i].status, approvals'[i].status>> \in Moves
  <2>1. i = req[w].id /\ approvals'[i] = req[w].row /\ pc[w] = "write"
    BY <1>2 DEF Write, IInv, TypeOK
  <2>2. QED BY <2>1 DEF Fresh
<1>3. approvals' # approvals
  OBVIOUS
<1>4. (\E w \in Workers, a \in Admins, j \in Ids : CreateApproval(w, a, j)) \/ \E w \in Workers : Write(w)
  BY <1>3 DEF Next, Handler, ApproveApproval, RejectApproval, ExecuteApproval, DeleteApproval,
     Accept, WriteFails, Audit, AuditFails, Crash, vars
<1>5. QED
  BY <1>1, <1>2, <1>4 DEF Moves

\* One request at a time between the read and the write of a row is all that
\* the handlers lack: with it every decision is final, for any number of
\* requests, rows, crashes and failures.  The run approval_race shows that
\* without it DecisionFinal fails.
THEOREM SerialisedDecisionsFinal == Spec /\ []Serialised => DecisionFinal
<1>1. Init => Fresh
  BY DEF Init, Fresh
<1>2. IInv /\ Fresh /\ Serialised /\ [Next]_vars => Fresh'
  BY FreshKept
<1>3. IInv /\ Fresh /\ [Next]_vars => [LegalStep]_vars
  BY FreshSteps
<1>4. DecisionFinal <=> [][LegalStep]_vars
  BY DEF DecisionFinal, LegalStep
<1>5. QED
  BY <1>1, <1>2, <1>3, <1>4, Inductive, PTL DEF Spec
=============================================================================
