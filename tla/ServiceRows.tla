----------------------------- MODULE ServiceRows -----------------------------
(***************************************************************************)
(* The services of the MBS process that keep rows with a status: value     *)
(* cases and budgets (vms), approvals (oms), incubation (sms), supply and  *)
(* logistics (ems), HR, finance, governance, products, orders and stores;  *)
(* and the OAS console's policies, domains and services.                   *)
(* Their handlers are alike: First, set the status, Save all columns, then *)
(* perhaps a second INSERT and an event.  A handler is a record that says  *)
(* what is its own; the actions below execute its statements.              *)
(*                                                                         *)
(* Each of these tables is written by one service only and by nothing      *)
(* else, so a behaviour exercises one of them.  (The exception: the table  *)
(* organizations of hms is also the one of OAS's Organisations, when both  *)
(* processes run on one database; hms's INSERT has no code, which OAS's    *)
(* columns require, and is refused there.  It is modelled as if hms had    *)
(* the table for itself.)  The tables that ams shares with OAS are those   *)
(* of Accounts.                                                            *)
(***************************************************************************)
EXTENDS Requests, EventBus

CONSTANTS
  Ids,   \* primary keys, taken in order
  Tables \* the tables behaviours exercise

ASSUME RowIdsAssumption == IsFiniteSet(Ids) /\ Ids = 1..Cardinality(Ids)

VARIABLES
  table,    \* the table this behaviour exercises
  rows,     \* its rows
  trail,    \* <<id, status>>: ExecutionLog, StageRecord, TrackingEvent
  records,  \* GraduateRecord.DMBSCode by ProjectID (unique), 0 for none
  happened, \* history: the <<id, status, handler, code>> written
  disturbed \* history: rows with a lost update or a code set by a body

rowVars == <<table, rows, trail, records, happened, disturbed>>

-----------------------------------------------------------------------------
(* The handlers.                                                           *)

Any == {"draft", "pending", "submitted", "approved", "rejected", "executing",
        "completed", "failed", "seed", "growth", "graduate", "terminated",
        "active", "open", "resolved", "received", "shipped", "delivered",
        "packed", "launched", "concept", "inactive", "disabled",
        "healthy", "down"}

\* from: the statuses it accepts; to: those it may set; edit: the body is
\* bound over the row, so that the status may also stay; dates: statuses it
\* stamps with the time; trail: when it INSERTs a record of the status;
\* lenient: an error of First is ignored; numbered: a column of generated
\* numbers is unique.
Handler(op, t, kind, to) ==
  [op |-> op, table |-> t, kind |-> kind, from |-> Any, to |-> to, edit |-> FALSE,
   dates |-> {}, trail |-> "none", publish |-> FALSE, lenient |-> FALSE,
   numbered |-> TRUE, graduates |-> FALSE]

\* vms.  Only UpdateVCASE's body brings a case to approved or rejected.
CreateVCASE ==
  [Handler("CreateVCASE", "vcases", "insert", {"draft"}) EXCEPT !.trail = "after", !.publish = TRUE]
UpdateVCASE ==
  [Handler("UpdateVCASE", "vcases", "save", {"approved", "rejected", "executing"}) EXCEPT !.edit = TRUE]
SubmitVCASE ==
  [Handler("SubmitVCASE", "vcases", "save", {"submitted"}) EXCEPT
    !.from = {"draft", "rejected"}, !.dates = {"submitted"}, !.trail = "after", !.publish = TRUE]
\* Mutant: a case that is still waiting for its approval can be executed.
UpdateExecution_Early ==
  [Handler("UpdateExecution", "vcases", "save", {"executing"}) EXCEPT
    !.from = {"submitted", "approved", "executing"}, !.dates = {"executing"},
    !.trail = "after", !.publish = TRUE]
UpdateExecution ==
  [Handler("UpdateExecution", "vcases", "save", {"executing"}) EXCEPT
    !.from = {"approved", "executing"}, !.dates = {"executing"}, !.trail = "after", !.publish = TRUE]
SubmitCompletion ==
  [Handler("SubmitCompletion", "vcases", "save", {"completed"}) EXCEPT
    !.dates = {"completed"}, !.trail = "after", !.publish = TRUE]
MarkFailed ==
  [Handler("MarkFailed", "vcases", "save", {"failed"}) EXCEPT !.trail = "after", !.publish = TRUE]
CreateBudget == Handler("CreateBudget", "budgets", "insert", {"draft", "approved"})
UpdateBudget == [Handler("UpdateBudget", "budgets", "save", {"approved"}) EXCEPT !.edit = TRUE]

\* oms.
CreateApproval == Handler("CreateApproval", "approvals", "insert", {"pending"})
DecideApproval ==
  [Handler("DecideApproval", "approvals", "save", {"approved", "rejected"}) EXCEPT
    !.dates = {"approved", "rejected"}, !.lenient = TRUE]

\* sms.  The status of a project row is its stage.
CreateProject == Handler("CreateProject", "projects", "insert", {"seed"})
UpdateProject ==
  [Handler("UpdateProject", "projects", "save", {"seed", "growth"}) EXCEPT !.edit = TRUE]
AdvanceStage ==
  [Handler("AdvanceStage", "projects", "save", {"growth", "graduate", "terminated"}) EXCEPT
    !.trail = "before"]
GraduateProject ==
  [Handler("GraduateProject", "projects", "save", {"graduate"}) EXCEPT
    !.from = {"growth", "graduate"}, !.dates = {"graduate"}, !.graduates = TRUE]
CreateTerminal == Handler("CreateTerminal", "terminals", "insert", {"pending"})
ActivateTerminal ==
  [Handler("ActivateTerminal", "terminals", "save", {"active"}) EXCEPT !.dates = {"active"}]

\* ems, supply and logistics.
CreateSupplier == Handler("CreateSupplier", "suppliers", "insert", {"pending"})
UpdateSupplier == [Handler("UpdateSupplier", "suppliers", "save", {"rejected"}) EXCEPT !.edit = TRUE]
ApproveSupplier ==
  [Handler("ApproveSupplier", "suppliers", "save", {"approved"}) EXCEPT !.dates = {"approved"}]
CreateSupplyItem == Handler("CreateSupplyItem", "supply_items", "insert", {"active"})
UpdateSupplyItem ==
  [Handler("UpdateSupplyItem", "supply_items", "save", {"inactive"}) EXCEPT !.edit = TRUE]
CreatePO == Handler("CreatePO", "purchase_orders", "insert", {"draft"})
UpdatePOStatus ==
  [Handler("UpdatePOStatus", "purchase_orders", "save", {"shipped", "received", "completed"}) EXCEPT
    !.dates = {"received", "completed"}]
CreateFulfillment == Handler("CreateFulfillment", "fulfillments", "insert", {"pending"})
UpdateFulfillmentStatus ==
  [Handler("UpdateFulfillmentStatus", "fulfillments", "save", {"shipped", "delivered", "received"}) EXCEPT
    !.dates = {"shipped", "delivered", "received"}]
CreateWorkOrder == Handler("CreateWorkOrder", "work_orders", "insert", {"pending"})
UpdateWorkOrder ==
  [Handler("UpdateWorkOrder", "work_orders", "save", {"completed", "failed"}) EXCEPT
    !.edit = TRUE, !.dates = {"completed"}]
CreateOutboundOrder == Handler("CreateOutboundOrder", "outbound_orders", "insert", {"pending"})
UpdateOutboundStatus ==
  [Handler("UpdateOutboundStatus", "outbound_orders", "save", {"packed", "shipped"}) EXCEPT
    !.dates = {"packed", "shipped"}]
CreateShipment == Handler("CreateShipment", "shipments", "insert", {"pending"})
UpdateShipmentStatus ==
  [Handler("UpdateShipmentStatus", "shipments", "save", {"shipped", "delivered"}) EXCEPT
    !.dates = {"delivered"}, !.trail = "after"]

\* hms, fms, gms, tms, cms, dms.
CreateEmployee == Handler("CreateEmployee", "employees", "insert", {"active"})
UpdateEmployee == [Handler("UpdateEmployee", "employees", "save", {"inactive"}) EXCEPT !.edit = TRUE]
ApplyLeave == [Handler("ApplyLeave", "leaves", "insert", {"pending"}) EXCEPT !.numbered = FALSE]
ApproveLeave ==
  [Handler("ApproveLeave", "leaves", "save", {"approved", "rejected"}) EXCEPT
    !.lenient = TRUE, !.numbered = FALSE]
CreateFCase == Handler("CreateFCase", "fcases", "insert", {"draft"})
ApproveFCase ==
  [Handler("ApproveFCase", "fcases", "save", {"approved"}) EXCEPT
    !.dates = {"approved"}, !.lenient = TRUE]
CreateRisk == Handler("CreateRisk", "risks", "insert", {"open"})
ResolveRisk ==
  [Handler("ResolveRisk", "risks", "save", {"resolved"}) EXCEPT
    !.dates = {"resolved"}, !.lenient = TRUE]
TmsCreateProduct == Handler("TmsCreateProduct", "tms_products", "insert", {"draft"})
TmsUpdateProduct ==
  [Handler("TmsUpdateProduct", "tms_products", "save", {"active"}) EXCEPT !.edit = TRUE]
TmsDeleteProduct == Handler("TmsDeleteProduct", "tms_products", "delete", {})
CreateNPI == Handler("CreateNPI", "npi_projects", "insert", {"concept"})
UpdateNPIStage ==
  [Handler("UpdateNPIStage", "npi_projects", "save", {"launched"}) EXCEPT
    !.dates = {"launched"}, !.lenient = TRUE]
CreateCustomer == Handler("CreateCustomer", "customers", "insert", {"active"})
UpdateCustomer == [Handler("UpdateCustomer", "customers", "save", {"inactive"}) EXCEPT !.edit = TRUE]
CmsCreateOrder == Handler("CmsCreateOrder", "cms_orders", "insert", {"pending"})
CmsUpdateOrderStatus == Handler("CmsUpdateOrderStatus", "cms_orders", "update", {"shipped", "completed"})
DmsCreateStore == Handler("DmsCreateStore", "dms_stores", "insert", {"active"})
DmsUpdateStore == [Handler("DmsUpdateStore", "dms_stores", "save", {"inactive"}) EXCEPT !.edit = TRUE]

\* The owner plane and service registry of the OAS console.
CreatePolicy == Handler("CreatePolicy", "governance_policies", "insert", {"active"})
UpdatePolicy == [Handler("UpdatePolicy", "governance_policies", "save", {"inactive"}) EXCEPT !.edit = TRUE]
CreateDomain == Handler("CreateDomain", "domain_registries", "insert", {"active"})
UpdateDomainStatus == Handler("UpdateDomainStatus", "domain_registries", "update", {"inactive"})
CreateService == Handler("CreateService", "service_registries", "insert", {"down"})
ServiceHeartbeat == Handler("ServiceHeartbeat", "service_registries", "update", {"healthy"})

\* Handlers that only INSERT: nothing in the services changes these rows; those
\* without a status column are "active".
CreateRule == Handler("CreateRule", "rules", "insert", {"active"})
CreateWorkflow == Handler("CreateWorkflow", "workflows", "insert", {"active"})
CreateContract == Handler("CreateContract", "contracts", "insert", {"draft"})
CreateEntry == Handler("CreateEntry", "ledger_entries", "insert", {"active"})
CreatePayment == Handler("CreatePayment", "payments", "insert", {"pending"})
CreateInvoice == Handler("CreateInvoice", "invoices", "insert", {"draft"})
HmsCreateOrg == Handler("HmsCreateOrg", "hms_organizations", "insert", {"active"})
ClockIn == Handler("ClockIn", "attendances", "insert", {"active"})
GmsCreatePolicy == Handler("GmsCreatePolicy", "gms_policies", "insert", {"active"})
CreateAudit == Handler("CreateAudit", "audit_records", "insert", {"active"})
CreateCategory == Handler("CreateCategory", "categories", "insert", {"active"})
SendMessage == Handler("SendMessage", "messages", "insert", {"pending"})
CreateNotification == Handler("CreateNotification", "notifications", "insert", {"active"})
CreateKPI == Handler("CreateKPI", "kpis", "insert", {"active"})
EmsCreateStore == Handler("EmsCreateStore", "merchant_stores", "insert", {"pending"})
CreateAccount == Handler("CreateAccount", "capital_accounts", "insert", {"active"})

Handlers ==
  {CreateVCASE, UpdateVCASE, SubmitVCASE, UpdateExecution, SubmitCompletion, MarkFailed,
   CreateBudget, UpdateBudget, CreateApproval, DecideApproval, CreateProject, UpdateProject,
   AdvanceStage, GraduateProject, CreateTerminal, ActivateTerminal, CreateSupplier,
   UpdateSupplier, ApproveSupplier, CreateSupplyItem, UpdateSupplyItem, CreatePO,
   UpdatePOStatus, CreateFulfillment, UpdateFulfillmentStatus, CreateWorkOrder,
   UpdateWorkOrder, CreateOutboundOrder, UpdateOutboundStatus, CreateShipment,
   UpdateShipmentStatus, CreateEmployee, UpdateEmployee, ApplyLeave, ApproveLeave,
   CreateFCase, ApproveFCase, CreateRisk, ResolveRisk, TmsCreateProduct, TmsUpdateProduct,
   TmsDeleteProduct, CreateNPI, UpdateNPIStage, CreateCustomer, UpdateCustomer,
   CmsCreateOrder, CmsUpdateOrderStatus, DmsCreateStore, DmsUpdateStore, CreatePolicy,
   UpdatePolicy, CreateDomain, UpdateDomainStatus, CreateService, ServiceHeartbeat,
   CreateRule, CreateWorkflow, CreateContract, CreateEntry, CreatePayment, CreateInvoice,
   HmsCreateOrg, ClockIn, GmsCreatePolicy, CreateAudit, CreateCategory, SendMessage,
   CreateNotification, CreateKPI, EmsCreateStore, CreateAccount}

Offered(kind) == {h \in Handlers : h.table = table /\ h.kind = kind}
HandlerOf(w) == CHOOSE h \in Handlers : h.op = req[w].op

-----------------------------------------------------------------------------
(* Rows and statements.                                                    *)

\* setBy is history: the handler that set the status.  named says that the
\* generated number is not empty, code is IncubationProject.DMBSCode.
NoRow == [status |-> "none", dates |-> {}, code |-> 0, setBy |-> "none", named |-> FALSE]
Fresh(i) == rows[i].status = "none"
Stored(i) == rows[i].status \notin {"none", "deleted"}
NextId == CHOOSE i \in Ids : Fresh(i) /\ \A j \in Ids : Fresh(j) => i <= j
HasRoom == \E i \in Ids : Fresh(i)

\* Mutant: an update stamps the row only with what it had already.
Updated_KeepDates(h, row, s, code) ==
  [row EXCEPT !.status = s, !.code = code,
              !.setBy = IF h.edit /\ s = row.status THEN @ ELSE h.op]

\* The row a handler writes when it sets status s on what it has read.
Updated(h, row, s, code) ==
  [row EXCEPT !.status = s, !.code = code, !.dates = @ \cup ({s} \cap h.dates),
              !.setBy = IF h.edit /\ s = row.status THEN @ ELSE h.op]

Holding(h, i, row, read) ==
  [op |-> h.op, id |-> i, row |-> row, read |-> read, serial |-> Serial]

Wrote(i, row, op) == happened' = happened \cup {<<i, row.status, op, row.code>>}

-----------------------------------------------------------------------------
(* The statements.                                                         *)

\* An INSERT that is refused, by a failure or because the number, nanoseconds
\* modulo 10000, is taken, leaves everything as it is: a stutter.
Insert(w, h, s) ==
  /\ HasRoom
  /\ LET i == NextId
         row == [NoRow EXCEPT !.status = s, !.setBy = h.op, !.named = h.numbered]
     IN /\ rows' = [rows EXCEPT ![i] = row]
        /\ Wrote(i, row, h.op)
        /\ IF h.trail = "after" THEN Start(w, "trail", Holding(h, i, row, row))
                                ELSE StartAndAnswer(w)
  /\ UNCHANGED <<table, trail, records, disturbed, busVars>>

FirstStep(h) == IF h.trail = "before" THEN "trail" ELSE "save"

\* First finds the row, its status and code allow the operation, and the row
\* to be saved is made.  UpdateProject's body may set or clear the code.
Read(w, h, i, s) ==
  /\ Stored(i) /\ rows[i].status \in h.from
  /\ s \in h.to \cup (IF h.edit THEN {rows[i].status} ELSE {})
  /\ h.graduates => rows[i].code = 0
  /\ \E code \in (IF h.graduates THEN {Serial}
                  ELSE IF h.op = "UpdateProject" THEN {rows[i].code, 0, Serial}
                  ELSE {rows[i].code}) :
       Start(w, FirstStep(h), Holding(h, i, Updated(h, rows[i], s, code), rows[i]))
  /\ UNCHANGED <<rowVars, busVars>>

\* First fails and nobody looks: the handler goes on with an empty row.
ReadMissing(w, h, i, s) ==
  /\ h.lenient /\ s \in h.to /\ ~Stored(i)
  /\ Start(w, "save", Holding(h, 0, Updated(h, NoRow, s, 0), NoRow))
  /\ UNCHANGED <<rowVars, busVars>>

AfterSave(h) ==
  IF h.trail = "after" THEN "trail" ELSE IF h.graduates THEN "record" ELSE "idle"

\* Save of a row with a primary key: an UPDATE of all columns, or, when the
\* row has been deleted since First, an INSERT that brings it back.
Save(w) ==
  /\ pc[w] = "save" /\ req[w].id # 0
  /\ LET i == req[w].id
     IN /\ rows' = [rows EXCEPT ![i] = req[w].row]
        /\ Wrote(i, req[w].row, req[w].op)
        /\ disturbed' =
             IF \/ rows[i] # req[w].read
                \/ req[w].op = "UpdateProject" /\ req[w].row.code # rows[i].code
             THEN disturbed \cup {i} ELSE disturbed
  /\ Proceed(w, "save", AfterSave(HandlerOf(w)))
  /\ UNCHANGED <<table, trail, records, busVars>>

\* Save of the empty row: an INSERT with an empty number, which a unique index
\* accepts once.
SaveEmpty(w) ==
  /\ pc[w] = "save" /\ req[w].id = 0 /\ HasRoom
  /\ IF HandlerOf(w).numbered /\ \E j \in Ids : ~Fresh(j) /\ ~rows[j].named
     THEN UNCHANGED <<rows, happened>>
     ELSE /\ rows' = [rows EXCEPT ![NextId] = req[w].row]
          /\ Wrote(NextId, req[w].row, req[w].op)
  /\ Proceed(w, "save", "idle")
  /\ UNCHANGED <<table, trail, records, disturbed, busVars>>

SaveFails(w) ==
  /\ ProceedFailed(w, "save", AfterSave(HandlerOf(w)))
  /\ UNCHANGED <<rowVars, busVars>>

EventOf(w) == [id |-> req[w].id, topic |-> req[w].row.status, serial |-> req[w].serial]
AfterTrail(h) == IF h.trail = "before" THEN "save" ELSE "idle"
Announce(w) ==
  IF HandlerOf(w).publish /\ EventOf(w).topic \in Topics THEN Emit(EventOf(w))
                                                       ELSE UNCHANGED busVars

\* Mutant: the record is of the status the row had before.
Trail_Before(w) ==
  /\ Proceed(w, "trail", AfterTrail(HandlerOf(w)))
  /\ trail' = trail \cup {<<req[w].id, req[w].read.status>>}
  /\ Announce(w)
  /\ UNCHANGED <<table, rows, records, happened, disturbed>>

\* The second INSERT: execution log, stage record or tracking event.  The
\* handlers of a case then start the goroutine that publishes.
Trail(w) ==
  /\ Proceed(w, "trail", AfterTrail(HandlerOf(w)))
  /\ trail' = trail \cup {<<req[w].id, req[w].row.status>>}
  /\ Announce(w)
  /\ UNCHANGED <<table, rows, records, happened, disturbed>>

TrailFails(w) ==
  /\ ProceedFailed(w, "trail", AfterTrail(HandlerOf(w)))
  /\ Announce(w)
  /\ UNCHANGED rowVars

\* Mutant: the record gets a code generated anew, not the project's.
Record_NewCode(w) ==
  /\ Proceed(w, "record", "idle")
  /\ records' = [records EXCEPT ![req[w].id] = IF @ = 0 THEN Serial ELSE @]
  /\ UNCHANGED <<table, rows, trail, happened, disturbed, busVars>>

\* GraduateProject INSERTs the graduate record; ProjectID is unique, and the
\* error is not looked at.
Record(w) ==
  /\ Proceed(w, "record", "idle")
  /\ records' = [records EXCEPT ![req[w].id] = IF @ = 0 THEN req[w].row.code ELSE @]
  /\ UNCHANGED <<table, rows, trail, happened, disturbed, busVars>>

RecordFails(w) == ProceedFailed(w, "record", "idle") /\ UNCHANGED <<rowVars, busVars>>

\* One UPDATE of the status column, without reading the row.
UpdateColumn(w, h, i, s) ==
  /\ Stored(i)
  /\ rows' = [rows EXCEPT ![i].status = s, ![i].setBy = h.op]
  /\ Wrote(i, [rows[i] EXCEPT !.status = s], h.op)
  /\ StartAndAnswer(w)
  /\ UNCHANGED <<table, trail, records, disturbed, busVars>>

\* A soft deletion.
Delete(w, h, i) ==
  /\ Stored(i)
  /\ rows' = [rows EXCEPT ![i].status = "deleted"]
  /\ StartAndAnswer(w)
  /\ UNCHANGED <<table, trail, records, happened, disturbed, busVars>>

-----------------------------------------------------------------------------
RowsInit ==
  /\ table \in Tables
  /\ rows = [i \in Ids |-> NoRow] /\ records = [i \in Ids |-> 0]
  /\ trail = {} /\ happened = {} /\ disturbed = {}

RowsNext ==
  \/ \E w \in Workers, h \in Offered("insert") : \E s \in h.to : Insert(w, h, s)
  \/ \E w \in Workers, h \in Offered("save"), i \in Ids :
       \E s \in h.to \cup {rows[i].status} : Read(w, h, i, s) \/ ReadMissing(w, h, i, s)
  \/ \E w \in Workers, h \in Offered("update"), i \in Ids :
       \E s \in h.to : UpdateColumn(w, h, i, s)
  \/ \E w \in Workers, h \in Offered("delete"), i \in Ids : Delete(w, h, i)
  \/ \E w \in Workers : Save(w) \/ SaveEmpty(w) \/ SaveFails(w)
  \/ \E w \in Workers : Trail(w) \/ TrailFails(w) \/ Record(w) \/ RecordFails(w)

\* The goroutines of the bus, which no request waits for.  Only the handlers of
\* value cases publish; the process subscribes before it serves.
BusNext ==
  /\ table = "vcases"
  /\ \/ Serial = MaxRequests /\ \E t \in Topics, h \in Subscribers : Subscribe(t, h)
     \/ \E e \in outbox : Publish(e)
     \/ \E d \in inflight : Deliver(d)
  /\ UNCHANGED <<rowVars, requestVars>>

RowsCrash == UNCHANGED rowVars /\ BusCrash

-----------------------------------------------------------------------------
(* Properties.                                                             *)

SetWithTrail(i, when) ==
  \E h \in Handlers : h.op = rows[i].setBy /\ h.trail = when

Said(i) == <<i, rows[i].status>> \in trail

\* The stage record is INSERTed before the project is saved, so no crash and
\* no overlap can leave a project in a stage AdvanceStage gave it that has no
\* record; execution logs and tracking events are INSERTed after the Save, so
\* they are complete when the requests are answered and nothing crashed, and
\* they, and the events, never tell of a status that was not saved.
TrailFaithful ==
  NoFault =>
    /\ \A i \in Ids : SetWithTrail(i, "before") => Said(i)
    /\ Quiet /\ NoCrash => \A i \in Ids : SetWithTrail(i, "after") => Said(i)
    /\ table # "projects" => \A e \in trail : \E x \in happened : <<x[1], x[2]>> = e
    /\ \A e \in outbox : \E x \in happened : x[1] = e.id /\ x[2] = e.topic

\* A graduate record is only INSERTed for a graduation that was saved, with
\* its code; and once the requests are answered, unless the process crashed, a
\* project and its record agree: none, or the same code.  Updates that
\* overlapped on the project, or a body that sets the code, are the exceptions.
GraduationRecorded ==
  NoFault =>
    \A i \in Ids :
      /\ records[i] # 0 => <<i, "graduate", "GraduateProject", records[i]>> \in happened
      /\ Quiet /\ NoCrash /\ i \notin disturbed => records[i] = rows[i].code

\* Whatever overlaps, fails or crashes, UpdateExecution executes no case that
\* had not been approved (or set to executing by UpdateVCASE) before, and no
\* project graduates from a stage other than growth or graduate: the handlers
\* look at the status they read, which was in the table.  SubmitCompletion and
\* MarkFailed look at nothing, so completed and failed tell nothing of the past.
ChainKept ==
  \A x \in happened :
    /\ x[3] = "UpdateExecution" => \E y \in happened : /\ y[1] = x[1]
                             /\ \/ y[2] = "approved"
                                \/ y[2] = "executing" /\ y[3] = "UpdateVCASE"
    /\ x[3] = "GraduateProject" =>
         \E y \in happened : /\ y[1] = x[1] /\ y[2] \in {"growth", "graduate"}
                             /\ y[3] # "GraduateProject"

\* A status that its handler dates is never without its date, although stale
\* Saves put old rows back: one Save writes both columns.
DatesMatchStatus ==
  \A i \in Ids, h \in Handlers :
    rows[i].setBy = h.op /\ rows[i].status \in h.dates => rows[i].status \in rows[i].dates

\* Every event the process has emitted is received, in the end, by every
\* handler of its topic: the goroutines that publish and deliver do not drop
\* it.  What a crash interrupts is lost with the process.
EventsReach ==
  <>[](\A e \in emitted, h \in Subscribers :
         <<e.topic, h>> \in subscribers => <<e, h>> \in received)
=============================================================================
