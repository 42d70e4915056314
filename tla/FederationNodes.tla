--------------------------- MODULE FederationNodes ---------------------------
(***************************************************************************)
(* The federation nodes of the admin plane.  Every handler reads the node  *)
(* and then updates only the columns it is about.                          *)
(***************************************************************************)
EXTENDS ConsoleRequests

CONSTANT NodeIds \* primary keys, taken in order

ASSUME NodeIdsAssumption == IsFiniteSet(NodeIds) /\ NodeIds = 1..Cardinality(NodeIds)

VARIABLES
  nodes, \* the rows: status and trust level
  orders \* history: the status and the trust level last written to each column

nodeVars == <<nodes, orders>>

-----------------------------------------------------------------------------
TrustLevels == {"basic", "standard", "full"}
NoNode == [status |-> "none", trust |-> "basic"]
LiveNode(n) == nodes[n].status \notin {"none", "deleted"}

CreateFederationNode(w, level) ==
  /\ Start(w, "insert node", Call("CreateFederationNode", 0, [status |-> "active", trust |-> level], level))
  /\ UNCHANGED <<nodeVars, consoleVars>>

InsertNode(w) ==
  /\ Executed(w, "insert node")
  /\ LET free == {n \in NodeIds : nodes[n].status = "none"}
         n == CHOOSE n \in free : \A m \in free : n <= m
     IN /\ free # {}
        /\ nodes' = [nodes EXCEPT ![n] = req[w].row] /\ orders' = [orders EXCEPT ![n] = req[w].row]

\* The INSERT fails, or the node_id is taken, by a deleted node too.
InsertNodeRefused(w) == Proceed(w, "insert node", "audit") /\ UNCHANGED <<nodeVars, consoleVars>>

\* The handlers after First, and the columns their statement sets; Update's
\* body may leave the trust level out.
ReadNode(w, n, op, to) ==
  /\ LiveNode(n) /\ Start(w, "set node", Call(op, n, nodes[n], to))
  /\ UNCHANGED <<nodeVars, consoleVars>>

ActivateFederationNode(w, n) == ReadNode(w, n, "ActivateFederationNode", "active")
SuspendFederationNode(w, n) == ReadNode(w, n, "SuspendFederationNode", "suspended")
DeleteFederationNode(w, n) == ReadNode(w, n, "DeleteFederationNode", "deleted")
UpdateTrustLevel(w, n, level) == ReadNode(w, n, "UpdateTrustLevel", level)
UpdateFederationNode(w, n, level) == ReadNode(w, n, "UpdateFederationNode", level)

Written(row, to) ==
  CASE to \in TrustLevels -> [row EXCEPT !.trust = to]
    [] to = "unchanged" -> row
    [] OTHER -> [row EXCEPT !.status = to]

\* Mutant: the whole row is saved, as it was read.
SetNode_Save(w) ==
  /\ Executed(w, "set node")
  /\ LET n == req[w].id
     IN IF LiveNode(n)
        THEN /\ nodes' = [nodes EXCEPT ![n] = Written(req[w].row, req[w].to)]
             /\ orders' = [orders EXCEPT ![n] = Written(@, req[w].to)]
        ELSE UNCHANGED nodeVars

\* The UPDATE of the columns, or the soft deletion: a row deleted since is
\* left as it is.
SetNode(w) ==
  /\ Executed(w, "set node")
  /\ LET n == req[w].id
     IN IF LiveNode(n)
        THEN /\ nodes' = [nodes EXCEPT ![n] = Written(@, req[w].to)]
             /\ orders' = [orders EXCEPT ![n] = Written(@, req[w].to)]
        ELSE UNCHANGED nodeVars

SetNodeFails(w) == ExecutionFails(w, "set node") /\ UNCHANGED nodeVars

-----------------------------------------------------------------------------
NodesInit == nodes = [n \in NodeIds |-> NoNode] /\ orders = [n \in NodeIds |-> NoNode]

NodesNext ==
  \/ \E w \in Workers, level \in TrustLevels : CreateFederationNode(w, level)
  \/ \E w \in Workers, n \in NodeIds :
       \/ ActivateFederationNode(w, n) \/ SuspendFederationNode(w, n)
       \/ DeleteFederationNode(w, n)
       \/ \E level \in TrustLevels : UpdateTrustLevel(w, n, level)
       \/ \E level \in TrustLevels \cup {"unchanged"} : UpdateFederationNode(w, n, level)
  \/ \E w \in Workers : InsertNode(w) \/ InsertNodeRefused(w) \/ SetNode(w) \/ SetNodeFails(w)

-----------------------------------------------------------------------------
\* A suspension stays until a request to activate the node, and a trust level
\* until a request to change it, whatever other updates of the node overlapped
\* and however old the row was they had read; and a deleted node stays deleted.
SuspensionStays == \A n \in NodeIds : nodes[n] = orders[n]
=============================================================================
