----------------------------- MODULE MbsProcess -----------------------------
(***************************************************************************)
(* The MBS process: one gin server, one event bus and one policy cache,    *)
(* whose requests share the goroutine scheduler and the crashes of the     *)
(* process.  No table of one area is written by another, so a behaviour    *)
(* exercises one area: the rows with a status, a market store, or the      *)
(* cached policies.  The service ams, whose tables OAS writes too, is in   *)
(* Accounts.                                                               *)
(***************************************************************************)
EXTENDS ServiceRows, StoreMarket, PolicyCache

CONSTANT Areas \* the areas behaviours exercise: "rows", "market", "cache"

VARIABLE area

processVars == <<area, requestVars, rowVars, busVars, marketVars, cacheVars>>

\* What an area that is not exercised is left at.
Default(S) == CHOOSE x \in S : TRUE

Init ==
  /\ area \in Areas
  /\ RequestsInit /\ RowsInit /\ BusInit /\ MarketInit /\ CacheInit
  /\ area # "rows" => table = Default(Tables)
  /\ area # "market" => section = Default(Sections) /\ driver = Default(Drivers)
  /\ area # "cache" => ~redis

Rows == area = "rows" /\ RowsNext /\ UNCHANGED <<area, marketVars, cacheVars>>

Bus == area = "rows" /\ BusNext /\ UNCHANGED <<area, marketVars, cacheVars>>

Market == area = "market" /\ MarketNext /\ UNCHANGED <<area, rowVars, busVars, cacheVars>>

Cache == area = "cache" /\ CacheNext /\ UNCHANGED <<area, rowVars, busVars, marketVars>>

\* The process dies, with its requests, the goroutines of its bus and its L1,
\* and is started again on the same database and Redis.
Crash ==
  /\ CrashRequests /\ RowsCrash
  /\ IF area = "cache" THEN CacheCrash ELSE UNCHANGED cacheVars
  /\ UNCHANGED <<area, marketVars>>

Next == Rows \/ Bus \/ Market \/ Cache \/ Crash

\* The Go scheduler runs every goroutine that is ready: the goroutines that
\* publish and deliver wait for nothing but the read lock of the bus, which
\* nobody holds for long.  Requests and new subscriptions need not come.
Fairness ==
  /\ WF_processVars(\E e \in outbox : Publish(e) /\ Bus)
  /\ WF_processVars(\E d \in inflight : Deliver(d) /\ Bus)

Spec == Init /\ [][Next]_processVars /\ Fairness

=============================================================================
