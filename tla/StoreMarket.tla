----------------------------- MODULE StoreMarket -----------------------------
(***************************************************************************)
(* The merchant stores of ems: applications and the stores their approval  *)
(* opens, the counters a store keeps of its products and orders, and the   *)
(* records that are looked up and then updated or inserted.  Every handler *)
(* is several statements without a transaction, and most errors are not    *)
(* looked at.  A behaviour exercises one of the sections, at one store.    *)
(***************************************************************************)
EXTENDS Requests

CONSTANTS ItemIds,  \* primary keys of the section's table, taken in order
          Sections, \* the sections behaviours exercise
          Drivers   \* the configured database drivers: "sqlite", "postgres"

ASSUME ItemIdsAssumption == IsFiniteSet(ItemIds) /\ ItemIds = 1..Cardinality(ItemIds)
ASSUME SectionsAssumption ==
  Sections \subseteq {"products", "orders", "applications", "profile", "inventory"}

VARIABLES
  section, \* "products", "orders", "applications", "profile" or "inventory"
  driver,  \* the database under the service
  items,   \* products, orders, profiles or inventory records: id -> state
  store,   \* MerchantStore.ProductCount and OrderCount
  apps,    \* store applications: id -> [status, store]
  opened,  \* the <<application, store>> opened
  drift,   \* history: what made a counter differ
  decided  \* history: the <<application, status, review>> saved

marketVars == <<section, driver, items, store, apps, opened, drift, decided>>

-----------------------------------------------------------------------------
Null == 0                    \* a null store_id
NoStore == MaxRequests + 1   \* a store_id of 0: no store has it
NoApp == [status |-> "none", store |-> Null]

InStock == {"live", "moved", "completed"}
With(s) == {i \in ItemIds : items[i] = s}
NextItem == CHOOSE i \in With("none") : \A j \in With("none") : i <= j
NewItem == With("none") # {} /\ items' = [items EXCEPT ![NextItem] = "live"]

At(s) == section = s
ItemRequest(op, i, row, found) == [op |-> op, id |-> i, row |-> row, found |-> found, serial |-> Serial]
Drifts(cond, cause) == drift' = IF cond THEN drift \cup {cause} ELSE drift

\* Everything but items and drift, and everything but the counters.
KeepForItems == UNCHANGED <<section, driver, store, apps, opened, decided>>
KeepForStore == UNCHANGED <<section, driver, items, apps, opened, decided>>

-----------------------------------------------------------------------------
(* Products and orders, and the counters of their store.                   *)

CreateProduct(w) ==
  /\ At("products") /\ Start(w, "insert", ItemRequest("CreateProduct", 0, "live", FALSE))
  /\ UNCHANGED marketVars

CreateOrder(w) ==
  /\ At("orders") /\ Start(w, "insert", ItemRequest("CreateOrder", 0, "live", FALSE))
  /\ UNCHANGED marketVars

InsertItem(w) ==
  /\ Proceed(w, "insert", "count") /\ NewItem
  /\ UNCHANGED drift /\ KeepForItems

\* The order number, nanoseconds modulo 10000, is taken: no row is stored,
\* and the handler goes on.
InsertRefused(w) ==
  /\ At("orders") /\ \E i \in ItemIds : items[i] \in InStock
  /\ Proceed(w, "insert", "count")
  /\ Drifts(TRUE, "collision") /\ UNCHANGED items /\ KeepForItems

InsertFails(w) == ProceedFailed(w, "insert", "count") /\ UNCHANGED marketVars

\* Mutant: the counter is only raised when it is the first item's.
Count_Once(w) ==
  /\ Proceed(w, "count", "idle")
  /\ store' = IF At("products") THEN [store EXCEPT !.products = 1]
              ELSE [store EXCEPT !.orders = @ + 1]
  /\ UNCHANGED drift /\ KeepForStore

\* UpdateColumn with an expression: the database adds, atomically.
Count(w) ==
  /\ Proceed(w, "count", "idle")
  /\ store' = IF At("products") THEN [store EXCEPT !.products = @ + 1]
              ELSE [store EXCEPT !.orders = @ + 1]
  /\ UNCHANGED drift /\ KeepForStore

CountFails(w) == ProceedFailed(w, "count", "idle") /\ UNCHANGED marketVars

\* DeleteProduct reads the product, only for its store; an error is ignored.
DeleteProduct(w, i) ==
  /\ At("products")
  /\ \/ Start(w, "delete", ItemRequest("DeleteProduct", i, items[i], items[i] \in InStock))
     \/ StartFailed(w, "delete", ItemRequest("DeleteProduct", i, items[i], FALSE))
  /\ UNCHANGED marketVars

\* The soft deletion, which may find the product deleted already; then the
\* counter of the store it was read in goes down.
DeleteItem(w) ==
  /\ pc[w] = "delete"
  /\ LET i == req[w].id
         counted == req[w].found /\ req[w].row = "live"
     IN /\ items' = [items EXCEPT ![i] = IF @ \in InStock THEN "deleted" ELSE @]
        /\ Drifts(counted # (items[i] = "live"), "deleted twice, or moved between")
        /\ Proceed(w, "delete", IF counted THEN "uncount" ELSE "idle")
  /\ KeepForItems

DeleteItemFails(w) ==
  /\ ProceedFailed(w, "delete",
       IF req[w].found /\ req[w].row = "live" THEN "uncount" ELSE "idle")
  /\ UNCHANGED marketVars

\* MAX(product_count - 1, 0) is a scalar of two arguments in SQLite only:
\* PostgreSQL refuses the statement, and the error is not looked at.
Uncount(w) ==
  /\ Proceed(w, "uncount", "idle")
  /\ store' = IF driver = "sqlite" /\ store.products > 0
              THEN [store EXCEPT !.products = @ - 1] ELSE store
  /\ Drifts(driver = "sqlite" /\ store.products = 0, "uncounted before it was counted")
  /\ KeepForStore

UncountFails(w) == ProceedFailed(w, "uncount", "idle") /\ UNCHANGED marketVars

\* UpdateProduct and UpdateOrderStatus read the row and save all of it; a
\* product's body may name another store.
UpdateProduct(w, i) ==
  /\ At("products") /\ items[i] \in InStock
  /\ \E s \in {items[i], "moved"} : Start(w, "save", ItemRequest("UpdateProduct", i, s, TRUE))
  /\ UNCHANGED marketVars

UpdateOrderStatus(w, i) ==
  /\ At("orders") /\ items[i] \in InStock
  /\ Start(w, "save", ItemRequest("UpdateOrderStatus", i, "completed", TRUE))
  /\ UNCHANGED marketVars

\* Save brings a row back that has been deleted since it was read.
SaveItem(w) ==
  /\ Proceed(w, "save", "idle")
  /\ LET i == req[w].id
     IN /\ items' = [items EXCEPT ![i] = req[w].row]
        /\ Drifts(At("products") /\ items[i] # req[w].row, "moved or brought back")
  /\ KeepForItems

\* UpdateStore saves the counters it has read, or those of its body.
UpdateStore(w) ==
  /\ section \in {"products", "orders"}
  /\ \E row \in {store, [products |-> 0, orders |-> 0]} :
       Start(w, "save store", ItemRequest("UpdateStore", 0, row, TRUE))
  /\ UNCHANGED marketVars

SaveStore(w) ==
  /\ Proceed(w, "save store", "idle")
  /\ store' = req[w].row /\ Drifts(store # req[w].row, "saved over")
  /\ KeepForStore

-----------------------------------------------------------------------------
(* Applications.                                                           *)

ApplyStore(w) ==
  /\ At("applications") /\ \E i \in ItemIds : apps[i] = NoApp
  /\ LET i == CHOOSE i \in ItemIds : apps[i] = NoApp /\ \A j \in ItemIds : apps[j] = NoApp => i <= j
     IN apps' = [apps EXCEPT ![i] = [status |-> "submitted", store |-> Null]]
  /\ StartAndAnswer(w)
  /\ UNCHANGED <<section, driver, items, store, opened, drift, decided>>

\* The application may be in any status.
ReviewApplication(w, i, approve) ==
  /\ At("applications") /\ apps[i] # NoApp
  /\ Start(w, IF approve THEN "open" ELSE "decide",
       ItemRequest("ReviewApplication", i,
         [apps[i] EXCEPT !.status = IF approve THEN "approved" ELSE "rejected"], TRUE))
  /\ UNCHANGED marketVars

WithStore(w, s) ==
  /\ pc[w] = "open"
  /\ pc' = [pc EXCEPT ![w] = "decide"] /\ req' = [req EXCEPT ![w].row.store = s]

\* Mutant: the application is not given the store's key.
OpenStore_Unlinked(w) ==
  /\ WithStore(w, req[w].row.store) /\ opened' = opened \cup {<<req[w].id, req[w].serial>>}
  /\ UNCHANGED <<section, driver, items, store, apps, drift, decided, budget>>

OpenStore(w) ==
  /\ WithStore(w, req[w].serial) /\ opened' = opened \cup {<<req[w].id, req[w].serial>>}
  /\ UNCHANGED <<section, driver, items, store, apps, drift, decided, budget>>

\* The INSERT fails, or the store code is taken by an earlier store.
OpenStoreFails(w) ==
  /\ WithStore(w, NoStore)
  /\ IF opened = {} THEN Spend("faults") ELSE UNCHANGED budget
  /\ UNCHANGED marketVars

Decide(w) ==
  /\ Proceed(w, "decide", "idle")
  /\ apps' = [apps EXCEPT ![req[w].id] = req[w].row]
  /\ decided' = decided \cup {<<req[w].id, req[w].row.status, req[w].serial>>}
  /\ UNCHANGED <<section, driver, items, store, opened, drift>>

DecideFails(w) == ProceedFailed(w, "decide", "idle") /\ UNCHANGED marketVars

-----------------------------------------------------------------------------
(* Upserts: one profile per store and kind, one inventory record per store, *)
(* SKU, location and batch.                                                 *)

UpsertSections == {"profile", "inventory"}

\* Mutant: the lookup never finds the record.
Upsert_Blind(w) ==
  /\ section \in UpsertSections
  /\ Start(w, "insert record", ItemRequest("Upsert", 0, "live", FALSE))
  /\ UNCHANGED marketVars

\* Any error of the lookup counts as not found.
Upsert(w) ==
  /\ section \in UpsertSections
  /\ IF With("live") # {}
     THEN \/ Start(w, "save record", ItemRequest("Upsert", 0, "live", TRUE))
          \/ StartFailed(w, "insert record", ItemRequest("Upsert", 0, "live", FALSE))
     ELSE Start(w, "insert record", ItemRequest("Upsert", 0, "live", FALSE))
  /\ UNCHANGED marketVars

\* store_id is unique in the profiles: the INSERT of the second of two is
\* refused and its data lost.  The inventory has no such index.
InsertRecord(w) ==
  /\ Proceed(w, "insert record", "idle")
  /\ IF At("profile") /\ With("live") # {} THEN UNCHANGED items ELSE NewItem
  /\ UNCHANGED drift /\ KeepForItems

SaveRecord(w) == Proceed(w, "save record", "idle") /\ UNCHANGED marketVars

-----------------------------------------------------------------------------
MarketInit ==
  /\ section \in Sections /\ driver \in Drivers
  /\ section # "products" => driver = CHOOSE d \in Drivers : TRUE
  /\ items = [i \in ItemIds |-> "none"] /\ store = [products |-> 0, orders |-> 0]
  /\ apps = [i \in ItemIds |-> NoApp]
  /\ opened = {} /\ drift = {} /\ decided = {}

MarketNext ==
  \E w \in Workers :
    \/ CreateProduct(w) \/ CreateOrder(w) \/ InsertItem(w) \/ InsertRefused(w) \/ InsertFails(w)
    \/ Count(w) \/ CountFails(w) \/ DeleteItem(w) \/ DeleteItemFails(w)
    \/ Uncount(w) \/ UncountFails(w) \/ SaveItem(w) \/ UpdateStore(w) \/ SaveStore(w)
    \/ \E i \in ItemIds : DeleteProduct(w, i) \/ UpdateProduct(w, i) \/ UpdateOrderStatus(w, i)
    \/ ApplyStore(w) \/ OpenStore(w) \/ OpenStoreFails(w) \/ Decide(w) \/ DecideFails(w)
    \/ \E i \in ItemIds, approve \in BOOLEAN : ReviewApplication(w, i, approve)
    \/ Upsert(w) \/ InsertRecord(w) \/ SaveRecord(w)

-----------------------------------------------------------------------------
(* Properties.                                                             *)

\* What GetStoreStats counts of the store's products, which stay active, and
\* of its orders.
Stats == [products |-> Cardinality(With("live")),
          orders |-> Cardinality(With("live")) + Cardinality(With("completed"))]

\* Once the requests are answered, and nothing failed or crashed, a store's
\* counters are the numbers GetStoreStats counts, unless one of these happened:
\* an order number was taken, a product was deleted twice at once, uncounted
\* before its creation counted it, moved or brought back by a Save, or the
\* store was saved over.  On PostgreSQL the
\* product counter never goes down: it is the number of products ever created.
CounterExact ==
  Quiet /\ NoFault /\ NoCrash /\ drift = {} =>
    /\ At("products") =>
         store.products = Stats.products +
                          (IF driver = "sqlite" THEN 0 ELSE Cardinality(With("deleted")))
    /\ At("orders") => store.orders = Stats.orders

\* An approved application names a store that was opened for it, or the key 0
\* when the store could not be stored, through overlapping reviews, failures of
\* later statements and crashes; and when the requests are answered, every
\* store was opened by a review that was saved, though a later one, which looks
\* at no status, may have opened a second store or rejected the application.
StoreTraceable ==
  /\ \A i \in ItemIds : apps[i].status = "approved" =>
       apps[i].store = NoStore \/ <<i, apps[i].store>> \in opened
  /\ Quiet /\ NoFault /\ NoCrash => \A o \in opened : <<o[1], "approved", o[2]>> \in decided

\* However often a record is upserted, there is one profile, and there are no
\* more inventory records of a key than requests served at once: only upserts
\* that overlapped the first INSERT can have missed it.
UpsertBound ==
  NoFault =>
    /\ At("profile") => Cardinality(With("live")) <= 1
    /\ At("inventory") => Cardinality(With("live")) <= Cardinality(Workers)
=============================================================================
