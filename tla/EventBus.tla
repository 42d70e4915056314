------------------------------ MODULE EventBus ------------------------------
(***************************************************************************)
(* The in-process event bus (pkg/eventbus) under the services' publish:    *)
(* one goroutine per event marshals it and calls Publish, which starts one *)
(* goroutine per handler that is subscribed to the topic at that moment.   *)
(* Goroutines are scheduled in any order.                                  *)
(***************************************************************************)
CONSTANTS
  Topics,      \* bound: the event types that are followed
  Subscribers  \* handlers (no code under src/ subscribes yet)

VARIABLES
  subscribers, \* InProcessBus.subscribers: the <<topic, handler>> registered
  outbox,      \* events whose publishing goroutine has not read the map yet
  inflight,    \* <<event, handler>>: delivery goroutines not finished
  emitted,     \* history: the events of this process
  received     \* history: the <<event, handler>> of the handlers that have run

busVars == <<subscribers, outbox, inflight, emitted, received>>

BusInit ==
  /\ subscribers = {} /\ outbox = {} /\ inflight = {}
  /\ emitted = {} /\ received = {}

Subscribe(t, h) ==
  /\ <<t, h>> \notin subscribers
  /\ subscribers' = subscribers \cup {<<t, h>>}
  /\ UNCHANGED <<outbox, inflight, emitted, received>>

\* The service's publish only starts the goroutine: the answer does not wait.
Emit(e) ==
  /\ outbox' = outbox \cup {e} /\ emitted' = emitted \cup {e}
  /\ UNCHANGED <<subscribers, inflight, received>>

\* Mutant: the goroutine ends without starting the handlers.
Publish_Dropped(e) ==
  /\ e \in outbox
  /\ outbox' = outbox \ {e}
  /\ UNCHANGED <<subscribers, inflight, emitted, received>>

\* The map is read under RLock, and every handler found gets a goroutine.
Publish(e) ==
  /\ e \in outbox
  /\ outbox' = outbox \ {e}
  /\ inflight' = inflight \cup
       {<<e, h>> : h \in {h \in Subscribers : <<e.topic, h>> \in subscribers}}
  /\ UNCHANGED <<subscribers, emitted, received>>

Deliver(d) ==
  /\ d \in inflight
  /\ inflight' = inflight \ {d} /\ received' = received \cup {d}
  /\ UNCHANGED <<subscribers, outbox, emitted>>

\* The bus lives in the process: nothing of it survives a crash, and the
\* process subscribes its handlers again when it starts.
BusCrash ==
  /\ outbox' = {} /\ inflight' = {} /\ emitted' = {} /\ received' = {}
  /\ UNCHANGED subscribers
=============================================================================
