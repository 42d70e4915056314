-------------------------- MODULE OasConsoleProofs --------------------------
(***************************************************************************)
(* The properties of the OAS console, for any number of requests, keys,    *)
(* nodes, organisations and users, any interleaving of their statements,   *)
(* and any number of failed statements and crashes.                        *)
(***************************************************************************)
EXTENDS OasConsole, TLAPS, FiniteSetTheorems

\* The requests and what is left of the bounds.
Serving ==
  /\ pc = [w \in Workers |-> pc[w]] /\ req = [w \in Workers |-> req[w]]
  /\ budget \in [requests : Nat, faults : 0..MaxFaults, crashes : 0..MaxCrashes]

\* No request but w moves.
Alone(w) ==
  /\ pc' = [v \in Workers |-> IF v = w THEN pc'[w] ELSE pc[v]]
  /\ req' = [v \in Workers |-> IF v = w THEN req'[w] ELSE req[v]]

\* What a step does to the bounds: nothing fails, or something does.
Well == budget'.faults = budget.faults /\ budget'.crashes = budget.crashes
Ill == budget'.faults < budget.faults /\ budget'.crashes = budget.crashes

-----------------------------------------------------------------------------
(* Statements.                                                             *)

\* A request starts, at p, with r.
LEMMA StartMoves ==
  ASSUME Serving, NEW w \in Workers, NEW p, NEW r, Start(w, p, r)
  PROVE  /\ Serving' /\ Alone(w) /\ Well
         /\ pc[w] = "idle" /\ pc'[w] = p /\ req'[w] = r
<1>1. budget' = [budget EXCEPT !.requests = budget.requests - 1] /\ budget.requests > 0
  BY DEF Start, Spend
<1>2. budget' \in [requests : Nat, faults : 0..MaxFaults, crashes : 0..MaxCrashes] /\ Well
  BY <1>1 DEF Serving, Well
<1>3. /\ pc' = [v \in Workers |-> IF v = w THEN p ELSE pc[v]]
      /\ req' = [v \in Workers |-> IF v = w THEN r ELSE req[v]]
  BY DEF Serving, Start
<1>4. QED
  BY <1>2, <1>3 DEF Serving, Alone, Start

\* A request starts although its first statement failed.
LEMMA StartFailedMoves ==
  ASSUME Serving, NEW w \in Workers, NEW p, NEW r, StartFailed(w, p, r)
  PROVE  /\ Serving' /\ Alone(w) /\ Ill
         /\ pc[w] = "idle" /\ pc'[w] = p /\ req'[w] = r
<1>1. /\ budget' = [budget EXCEPT !.requests = budget.requests - 1, !.faults = budget.faults - 1]
      /\ budget.requests > 0 /\ budget.faults > 0
  BY DEF StartFailed
<1>2. budget' \in [requests : Nat, faults : 0..MaxFaults, crashes : 0..MaxCrashes] /\ Ill
  <2>1. /\ budget.requests \in Nat /\ budget.faults \in 0..MaxFaults
        /\ budget = [requests |-> budget.requests, faults |-> budget.faults,
                     crashes |-> budget.crashes]
    BY DEF Serving
  <2>2. budget' = [requests |-> budget.requests - 1, faults |-> budget.faults - 1,
                   crashes |-> budget.crashes]
    BY <1>1, <2>1
  <2>3. budget.requests - 1 \in Nat /\ budget.faults - 1 \in 0..MaxFaults
    BY <1>1, <2>1, RequestBoundsAssumption
  <2>4. QED
    BY <2>1, <2>2, <2>3 DEF Serving, Ill
<1>3. /\ pc' = [v \in Workers |-> IF v = w THEN p ELSE pc[v]]
      /\ req' = [v \in Workers |-> IF v = w THEN r ELSE req[v]]
  BY DEF Serving, StartFailed
<1>4. QED
  BY <1>2, <1>3 DEF Serving, Alone, StartFailed

\* A request goes from one statement to the next.
LEMMA GotoMoves ==
  ASSUME Serving, NEW w \in Workers, NEW p, NEW q, Goto(w, p, q)
  PROVE  /\ Alone(w) /\ pc[w] = p /\ pc'[w] = q
         /\ q # "idle" => req'[w] = req[w]
         /\ pc' = [v \in Workers |-> pc'[v]] /\ req' = [v \in Workers |-> req'[v]]
<1>1. /\ pc' = [v \in Workers |-> IF v = w THEN q ELSE pc[v]]
      /\ req' = [v \in Workers |-> IF v = w /\ q = "idle" THEN NoRequest ELSE req[v]]
  BY DEF Serving, Goto
<1>2. QED
  BY <1>1 DEF Alone, Goto

LEMMA ProceedMoves ==
  ASSUME Serving, NEW w \in Workers, NEW p, NEW q, Proceed(w, p, q)
  PROVE  /\ Serving' /\ Alone(w) /\ Well /\ pc[w] = p /\ pc'[w] = q
         /\ q # "idle" => req'[w] = req[w]
BY GotoMoves DEF Proceed, Serving, Well

LEMMA ProceedFailedMoves ==
  ASSUME Serving, NEW w \in Workers, NEW p, NEW q, ProceedFailed(w, p, q)
  PROVE  /\ Serving' /\ Alone(w) /\ Ill /\ pc[w] = p /\ pc'[w] = q
         /\ q # "idle" => req'[w] = req[w]
<1>1. budget' = [budget EXCEPT !.faults = budget.faults - 1] /\ budget.faults > 0
  BY DEF ProceedFailed, Spend
<1>2. budget' \in [requests : Nat, faults : 0..MaxFaults, crashes : 0..MaxCrashes] /\ Ill
  BY <1>1, RequestBoundsAssumption DEF Serving, Ill
<1>3. QED
  BY <1>2, GotoMoves DEF ProceedFailed, Serving

\* A crash leaves no request.
LEMMA CrashMoves ==
  ASSUME Serving, CrashRequests
  PROVE  /\ Serving' /\ budget'.faults = budget.faults /\ budget'.crashes < budget.crashes
         /\ \A w \in Workers : pc'[w] = "idle" /\ req'[w] = NoRequest
<1>1. budget' = [budget EXCEPT !.crashes = budget.crashes - 1] /\ budget.crashes > 0
  BY DEF CrashRequests, Spend
<1>2. /\ budget' \in [requests : Nat, faults : 0..MaxFaults, crashes : 0..MaxCrashes]
      /\ budget'.faults = budget.faults /\ budget'.crashes < budget.crashes
  BY <1>1, RequestBoundsAssumption DEF Serving
<1>3. QED
  BY <1>2 DEF CrashRequests, Serving

\* A request under an API key continues as one under a JWT begins.
LEMMA BeginMoves ==
  ASSUME Serving, NEW w \in Workers, NEW p, NEW op, NEW id, NEW row, NEW to,
         Begin(w, p, Call(op, id, row, to))
  PROVE  /\ Serving' /\ Alone(w) /\ Well /\ pc[w] \in {"idle", "admitted"} /\ pc'[w] = p
         /\ req'[w].op = op /\ req'[w].id = id /\ req'[w].row = row /\ req'[w].to = to
<1>1. CASE Start(w, p, Call(op, id, row, to))
  BY <1>1, StartMoves DEF Call
<1>2. CASE /\ pc[w] = "admitted" /\ pc' = [pc EXCEPT ![w] = p]
           /\ req' = [req EXCEPT ![w] = [Call(op, id, row, to) EXCEPT !.serial = req[w].serial]]
           /\ UNCHANGED budget
  <2>1. req'[w] = [Call(op, id, row, to) EXCEPT !.serial = req[w].serial]
    BY <1>2 DEF Serving
  <2>2. /\ pc' = [v \in Workers |-> IF v = w THEN p ELSE pc[v]]
        /\ req' = [v \in Workers |-> IF v = w THEN req'[w] ELSE req[v]]
    BY <1>2, <2>1 DEF Serving
  <2>3. QED
    BY <1>2, <2>1, <2>2 DEF Call, Serving, Alone, Well
<1>3. QED
  BY <1>1, <1>2 DEF Begin

-----------------------------------------------------------------------------
(* The audit log.  What is executed and not in it is what the requests     *)
(* that are at their audit statement hold.                                 *)

AuditInv ==
  /\ Serving
  /\ NoFault /\ NoCrash => \A e \in untold : \E w \in Workers : pc[w] = "audit" /\ e = Entry(w)

\* What a step of request w does to untold, unless a statement fails.
Told(w) ==
  \/ pc[w] # "audit" /\ untold' = untold
  \/ pc[w] # "audit" /\ pc'[w] = "audit" /\ untold' = untold \cup {Entry(w)'}
  \/ pc[w] = "audit" /\ untold' = untold \ {Entry(w)}

Accounted == Serving' /\ (Ill \/ \E w \in Workers : Alone(w) /\ Well /\ Told(w))

LEMMA ExecutedAccounted ==
  ASSUME Serving, NEW w \in Workers, NEW p, p # "audit", Executed(w, p)
  PROVE  Accounted
<1>1. Proceed(w, p, "audit") /\ untold' = untold \cup {Entry(w)}
  BY DEF Executed
<1>2. /\ Serving' /\ Alone(w) /\ Well /\ pc[w] = p /\ pc'[w] = "audit"
      /\ req'[w] = req[w]
  BY <1>1, ProceedMoves
<1>3. QED
  BY <1>1, <1>2 DEF Accounted, Told, Entry

LEMMA ProceedAccounted ==
  ASSUME Serving, NEW w \in Workers, NEW p, NEW q, p # "audit", Proceed(w, p, q), untold' = untold
  PROVE  Accounted
BY ProceedMoves DEF Accounted, Told

LEMMA FailureAccounted ==
  ASSUME Serving, NEW w \in Workers, NEW p, NEW q, ProceedFailed(w, p, q)
  PROVE  Accounted
BY ProceedFailedMoves DEF Accounted

LEMMA StartAccounted ==
  ASSUME Serving, NEW w \in Workers, NEW p, NEW r, untold' = untold,
         Start(w, p, r) \/ StartFailed(w, p, r)
  PROVE  Accounted
BY StartMoves, StartFailedMoves DEF Accounted, Told

LEMMA BeginAccounted ==
  ASSUME Serving, NEW w \in Workers, NEW p, NEW op, NEW id, NEW row, NEW to,
         Begin(w, p, Call(op, id, row, to)), untold' = untold
  PROVE  Accounted
BY BeginMoves DEF Accounted, Told

\* The handlers of the keys.
LEMMA KeysAccounted ==
  ASSUME Serving, KeysNext
  PROVE  Accounted \/ (UNCHANGED requestVars /\ untold' = untold)
<1> USE DEF consoleVars
<1>1. ASSUME NEW w \in Workers, NEW k \in KeyIds,
             \/ AdminAuth(w, k) \/ EnableAPIKey(w, k) \/ DisableAPIKey(w, k)
             \/ DeleteAPIKey(w, k) \/ RotateAPIKey(w, k)
      PROVE  Accounted
  BY <1>1, StartAccounted, BeginAccounted
     DEF AdminAuth, EnableAPIKey, DisableAPIKey, DeleteAPIKey, RotateAPIKey
<1>2. ASSUME NEW w \in Workers, NEW expires \in BOOLEAN, NEW writes \in BOOLEAN,
             CreateAPIKey(w, expires, writes)
      PROVE  Accounted
  BY <1>2, BeginAccounted DEF CreateAPIKey
<1>3. ASSUME NEW w \in Workers,
             \/ Compare(w) \/ InsertKeyRefused(w) \/ RotateRollback(w)
      PROVE  Accounted
  BY <1>3, ProceedAccounted DEF Compare, InsertKeyRefused, RotateRollback
<1>4. ASSUME NEW w \in Workers, InsertKey(w) \/ SetKey(w) \/ RotateTransaction(w)
      PROVE  Accounted
  BY <1>4, ExecutedAccounted DEF InsertKey, SetKey, RotateTransaction
<1>5. ASSUME NEW w \in Workers, SetKeyFails(w) \/ RotateCommitFails(w)
      PROVE  Accounted
  BY <1>5, FailureAccounted DEF SetKeyFails, RotateCommitFails, ExecutionFails
<1>6. QED
  BY <1>1, <1>2, <1>3, <1>4, <1>5 DEF KeysNext, Expire

\* The handlers of the nodes.
LEMMA NodesAccounted ==
  ASSUME Serving, NodesNext
  PROVE  Accounted
<1> USE DEF consoleVars
<1>1. ASSUME NEW w \in Workers, NEW level, CreateFederationNode(w, level)
      PROVE  Accounted
  BY <1>1, StartAccounted DEF CreateFederationNode
<1>2. ASSUME NEW w \in Workers, NEW n, NEW op, NEW to, ReadNode(w, n, op, to)
      PROVE  Accounted
  BY <1>2, StartAccounted DEF ReadNode
<1>3. ASSUME NEW w \in Workers, InsertNode(w) \/ SetNode(w)
      PROVE  Accounted
  BY <1>3, ExecutedAccounted DEF InsertNode, SetNode
<1>4. ASSUME NEW w \in Workers, InsertNodeRefused(w) \/ SetNodeFails(w)
      PROVE  Accounted
  BY <1>4, ProceedAccounted, FailureAccounted DEF InsertNodeRefused, SetNodeFails, ExecutionFails
<1>5. QED
  BY <1>1, <1>2, <1>3, <1>4
     DEF NodesNext, ActivateFederationNode, SuspendFederationNode, DeleteFederationNode,
         UpdateTrustLevel, UpdateFederationNode

\* The handlers of the configuration.
LEMMA ConfigsAccounted ==
  ASSUME Serving, ConfigsNext
  PROVE  Accounted
<1> USE DEF consoleVars
<1>1. ASSUME NEW w \in Workers, NEW k \in ConfigKeys, UpdateConfig(w, k) \/ DeleteConfig(w, k)
      PROVE  Accounted
  BY <1>1, StartAccounted DEF UpdateConfig, DeleteConfig
<1>2. ASSUME NEW w \in Workers, SaveConfig(w) \/ DeleteConfigRow(w)
      PROVE  Accounted
  BY <1>2, ExecutedAccounted DEF SaveConfig, DeleteConfigRow
<1>3. ASSUME NEW w \in Workers, SaveConfigFails(w) \/ DeleteConfigFails(w)
      PROVE  Accounted
  BY <1>3, FailureAccounted DEF SaveConfigFails, DeleteConfigFails, ExecutionFails
<1>4. QED
  BY <1>1, <1>2, <1>3 DEF ConfigsNext

\* The handlers of the organisations.
LEMMA OrgsAccounted ==
  ASSUME Serving, OrgsNext
  PROVE  Accounted
<1> USE DEF consoleVars
<1>1. ASSUME NEW w \in Workers, NEW parent, CreateOrg(w, parent)
      PROVE  Accounted
  <2> DEFINE free == {o \in OrgIds : orgs[o].status = "none"}
             o == CHOOSE i \in free : \A p \in free : i <= p
  <2>1. /\ Start(w, "audit", Call("CreateOrg", o, NoOrg, parent))
        /\ untold' = untold \cup {<<Serial, "CreateOrg", o>>}
    BY <1>1 DEF CreateOrg
  <2> HIDE DEF o
  <2>2. /\ Serving' /\ Alone(w) /\ Well /\ pc[w] = "idle" /\ pc'[w] = "audit"
        /\ req'[w] = Call("CreateOrg", o, NoOrg, parent)
    BY <2>1, StartMoves
  <2>3. Entry(w)' = <<Serial, "CreateOrg", o>>
    BY <2>2 DEF Entry, Call
  <2>4. QED
    BY <2>1, <2>2, <2>3 DEF Accounted, Told
<1>2. ASSUME NEW w \in Workers, NEW o, NEW to,
             UpdateOrg(w, o, to) \/ DeleteOrg(w, o) \/ AddOrgMember(w, o, to)
      PROVE  Accounted
  BY <1>2, StartAccounted DEF UpdateOrg, DeleteOrg, AddOrgMember
<1>3. ASSUME NEW w \in Workers, SetParent(w) \/ InsertMember(w) \/ DeleteOrgRow(w)
      PROVE  Accounted
  BY <1>3, ExecutedAccounted DEF SetParent, InsertMember, DeleteOrgRow
<1>4. ASSUME NEW w \in Workers, LookUpMember(w) \/ CountChildren(w) \/ CountMembers(w)
      PROVE  Accounted
  BY <1>4, ProceedAccounted, FailureAccounted DEF LookUpMember, CountChildren, CountMembers
<1>5. ASSUME NEW w \in Workers,
             SetParentFails(w) \/ InsertMemberFails(w) \/ CountFails(w) \/ DeleteOrgFails(w)
      PROVE  Accounted
  BY <1>5, FailureAccounted DEF SetParentFails, InsertMemberFails, CountFails, DeleteOrgFails
<1>6. QED
  BY <1>1, <1>2, <1>3, <1>4, <1>5 DEF OrgsNext

\* Every step but a crash accounts for what is untold.
LEMMA StepAccounted ==
  ASSUME Serving, Next, ~Crash
  PROVE  Accounted \/ (UNCHANGED requestVars /\ untold' = untold)
<1>1. CASE Keys
  BY <1>1, KeysAccounted DEF Keys
<1>2. CASE Nodes
  BY <1>2, NodesAccounted DEF Nodes
<1>3. CASE Configs
  BY <1>3, ConfigsAccounted DEF Configs
<1>4. CASE Orgs
  BY <1>4, OrgsAccounted DEF Orgs
<1>5. CASE Log
  <2>1. PICK w \in Workers : Audit(w) \/ AuditFails(w)
    BY <1>5 DEF Log, ConsoleNext
  <2>2. CASE Audit(w)
    BY <2>2, ProceedMoves DEF Audit, Accounted, Told
  <2>3. CASE AuditFails(w)
    BY <2>3, FailureAccounted DEF AuditFails
  <2>4. QED
    BY <2>1, <2>2, <2>3
<1>6. QED
  BY <1>1, <1>2, <1>3, <1>4, <1>5 DEF Next

\* No request is served and nothing is untold, to begin with.
LEMMA InitServing == Init => Serving /\ untold = {} /\ Quiet
BY RequestBoundsAssumption DEF Init, RequestsInit, ConsoleInit, Serving, Quiet

\* Every step keeps the requests and the bounds well formed.
LEMMA StepServing ==
  ASSUME Serving, [Next]_vars
  PROVE  Serving'
<1>1. CASE Crash
  BY <1>1, CrashMoves DEF Crash
<1>2. CASE Next /\ ~Crash
  BY <1>2, StepAccounted DEF Accounted, Serving, requestVars
<1>3. CASE UNCHANGED vars
  BY <1>3 DEF vars, requestVars, Serving
<1>4. QED
  BY <1>1, <1>2, <1>3

LEMMA StepAudit ==
  ASSUME AuditInv, [Next]_vars
  PROVE  AuditInv'
<1>1. Serving /\ Serving'
  BY StepServing DEF AuditInv
<1>2. SUFFICES ASSUME NoFault', NoCrash', NEW e \in untold'
               PROVE  \E w \in Workers : pc'[w] = "audit" /\ e = Entry(w)'
  BY <1>1 DEF AuditInv
<1>3. CASE Crash
  BY <1>1, <1>2, <1>3, CrashMoves DEF Crash, NoCrash, Serving
<1>4. CASE Ill
  BY <1>1, <1>2, <1>4 DEF Ill, NoFault, Serving
<1>5. ASSUME NEW w \in Workers, Alone(w), Well, Told(w)
      PROVE  \E v \in Workers : pc'[v] = "audit" /\ e = Entry(v)'
  <2>1. NoFault /\ NoCrash
    BY <1>2, <1>5 DEF Well, NoFault, NoCrash
  <2>2. \A v \in Workers : v # w => pc'[v] = pc[v] /\ Entry(v)' = Entry(v)
    BY <1>5 DEF Alone, Entry
  <2>3. CASE e \in untold
    <3>1. PICK v \in Workers : pc[v] = "audit" /\ e = Entry(v)
      BY <2>1, <2>3 DEF AuditInv
    <3>2. CASE v # w
      BY <2>2, <3>1, <3>2
    <3>3. CASE v = w
      BY <1>2, <1>5, <3>1, <3>3 DEF Told
    <3>4. QED
      BY <3>2, <3>3
  <2>4. CASE e \notin untold
    BY <1>2, <1>5, <2>4 DEF Told
  <2>5. QED
    BY <2>3, <2>4
<1>6. CASE UNCHANGED requestVars /\ untold' = untold
  BY <1>2, <1>6 DEF requestVars, NoFault, NoCrash, Entry, AuditInv
<1>7. CASE UNCHANGED vars
  BY <1>6, <1>7 DEF vars, consoleVars
<1>8. QED
  BY <1>1, <1>3, <1>4, <1>5, <1>6, <1>7, StepAccounted DEF Accounted

\* Whatever overlaps, a request that is answered has told the audit log of its
\* statement, unless an INSERT failed or the process crashed.
THEOREM AuditTellsCorrect == Spec => []AuditTells
<1>1. Init => AuditInv
  BY InitServing DEF AuditInv
<1>2. AuditInv /\ [Next]_vars => AuditInv'
  BY StepAudit
<1>3. AuditInv => AuditTells
  BY DEF AuditInv, AuditTells, Quiet
<1>4. QED
  BY <1>1, <1>2, <1>3, PTL DEF Spec

-----------------------------------------------------------------------------
(* The federation nodes.  A statement writes to the row, as it is by then, *)
(* what has been ordered, so that rows and orders are the same function.   *)

\* However old the row was that a request has read, its statement leaves a
\* suspension, a trust level and a deletion that others have ordered alone.
THEOREM SuspensionStaysCorrect == Spec => []SuspensionStays
<1> DEFINE Same == nodes = orders
<1>1. Init => Same
  BY DEF Init, NodesInit
<1>2. Same /\ [Next]_vars => Same'
  <2> SUFFICES ASSUME Same, [Next]_vars PROVE Same'
    OBVIOUS
  <2>1. CASE Nodes
    <3> USE DEF nodeVars
    <3>1. ASSUME NEW w \in Workers, InsertNode(w)
          PROVE  Same'
      BY <3>1 DEF InsertNode
    <3>2. ASSUME NEW w \in Workers, SetNode(w)
          PROVE  Same'
      BY <3>2 DEF SetNode
    <3>3. ASSUME NEW w \in Workers, InsertNodeRefused(w) \/ SetNodeFails(w)
          PROVE  Same'
      BY <3>3 DEF InsertNodeRefused, SetNodeFails
    <3>4. ASSUME NEW w \in Workers, NEW level, CreateFederationNode(w, level)
          PROVE  Same'
      BY <3>4 DEF CreateFederationNode
    <3>5. ASSUME NEW w \in Workers, NEW n, NEW op, NEW to, ReadNode(w, n, op, to)
          PROVE  Same'
      BY <3>5 DEF ReadNode
    <3>6. QED
      BY <2>1, <3>1, <3>2, <3>3, <3>4, <3>5
         DEF Nodes, NodesNext, ActivateFederationNode, SuspendFederationNode,
             DeleteFederationNode, UpdateTrustLevel, UpdateFederationNode
  <2>2. CASE Keys \/ Configs \/ Orgs \/ Log \/ Crash \/ UNCHANGED vars
    BY <2>2 DEF Keys, Configs, Orgs, Log, Crash, vars, nodeVars
  <2>3. QED
    BY <2>1, <2>2 DEF Next
<1>3. Same => SuspensionStays
  BY DEF SuspensionStays
<1>4. QED
  BY <1>1, <1>2, <1>3, PTL DEF Spec

-----------------------------------------------------------------------------
(* The API keys.                                                           *)

\* The primary key a row is given.
LEMMA LeastFree ==
  ASSUME NEW S, S \subseteq Nat, S # {}
  PROVE  (CHOOSE m \in S : \A n \in S : m <= n) \in S
<1> DEFINE R == OpToRel(<, Nat)
<1>1. IsWellFoundedOn(R, Nat)
  BY NatLessThanWellFounded
<1>2. \A m, n \in Nat : <<m, n>> \notin R => n <= m
  BY DEF OpToRel
<1> HIDE DEF R
<1>3. PICK m \in S : \A n \in S : ~(<<n, m>> \in R)
  BY <1>1, WFMin
<1>4. \A n \in S : m <= n
  BY <1>2, <1>3
<1>5. QED
  BY <1>4

Served == Cardinality(Workers)

KeyRow == [status : {"none", "active", "disabled", "deleted"}, expires : BOOLEAN,
           writes : BOOLEAN, parent : KeyIds \cup {0}]

\* The requests that have found k active and have not rotated it yet.
Rotations(k) == {w \in Workers : pc[w] = "rotate" /\ req[w].id = k}

\* Once the first rotation has disabled a key, the rotations under way use up
\* what room there is; each activation makes room for as many as are served.
Bounded(k) ==
  /\ keys[k].status = "none" => Successors(k) = {}
  /\ keys[k].status = "active" => Cardinality(Successors(k)) <= Served * enabled[k]
  /\ Cardinality(Successors(k)) + Cardinality(Rotations(k)) <= Served * enabled[k] + Served

KeyHeld(w) ==
  /\ pc[w] = "insert key" =>
       req[w].row \in KeyRow /\ req[w].row.status = "active" /\ req[w].row.parent = 0
  /\ pc[w] = "set key" =>
       /\ req[w].id \in KeyIds /\ keys[req[w].id].status # "none"
       /\ req[w].to \in {"active", "disabled", "deleted"}
       /\ req[w].op = "EnableAPIKey" <=> req[w].to = "active"
  /\ pc[w] = "rotate" =>
       req[w].id \in KeyIds /\ keys[req[w].id].status # "none" /\ req[w].row \in KeyRow

KeysInv ==
  /\ Serving /\ keys \in [KeyIds -> KeyRow] /\ enabled \in [KeyIds -> Nat]
  /\ area # "keys" => \A k \in KeyIds : Successors(k) = {}
  /\ area = "keys" => /\ \A w \in Workers : KeyHeld(w)
                      /\ \A k \in KeyIds : Bounded(k)

\* The sets that are counted are finite.
LEMMA CountedKeys ==
  ASSUME NEW k
  PROVE  /\ IsFiniteSet(Successors(k)) /\ Cardinality(Successors(k)) \in Nat
         /\ IsFiniteSet(Rotations(k)) /\ Cardinality(Rotations(k)) \in Nat
         /\ Cardinality(Rotations(k)) <= Served /\ Served \in Nat
BY KeyIdsAssumption, WorkersAssumption, FS_Subset, FS_CardinalityType
   DEF Successors, Rotations, Served

LEMMA Room ==
  ASSUME NEW M \in Nat, NEW e \in Nat
  PROVE  M * e \in Nat /\ M * (e + 1) = M * e + M /\ M * (1 + e) = M * e + M
OBVIOUS

\* A key that loses successors and rotations, and keeps its row, stays bounded.
LEMMA BoundedKept ==
  ASSUME KeysInv, NEW k \in KeyIds, Bounded(k),
         keys'[k].status = keys[k].status, enabled'[k] = enabled[k],
         Successors(k)' \subseteq Successors(k), Rotations(k)' \subseteq Rotations(k)
  PROVE  Bounded(k)'
<1>1. /\ Cardinality(Successors(k)') <= Cardinality(Successors(k))
      /\ Cardinality(Rotations(k)') <= Cardinality(Rotations(k))
      /\ Cardinality(Successors(k)') \in Nat /\ Cardinality(Rotations(k)') \in Nat
  BY CountedKeys, FS_Subset, FS_CardinalityType
<1>2. Served * enabled[k] \in Nat /\ Served \in Nat
  BY CountedKeys, Room DEF KeysInv
<1>3. Served' = Served
  BY DEF Served
<1>4. QED
  BY <1>1, <1>2, <1>3, CountedKeys DEF Bounded

\* What a request holds is right as long as no row disappears.
LEMMA HeldKept ==
  ASSUME NEW w, KeyHeld(w), pc'[w] = pc[w], req'[w] = req[w],
         \A k \in KeyIds : keys[k].status # "none" => keys'[k].status # "none"
  PROVE  KeyHeld(w)'
BY DEF KeyHeld, KeyRow

\* A request moves, the rows do not: it may only get to rotate an active key.
LEMMA KeysMoved ==
  ASSUME KeysInv, area = "keys", Serving', NEW w \in Workers, Alone(w),
         UNCHANGED <<area, keys, enabled>>, KeyHeld(w)',
         pc'[w] = "rotate" => keys[req'[w].id].status = "active"
  PROVE  KeysInv'
<1>1. ASSUME NEW v \in Workers
      PROVE  KeyHeld(v)'
  <2>1. CASE v # w
    <3>1. pc'[v] = pc[v] /\ req'[v] = req[v]
      BY <2>1 DEF Alone
    <3>2. QED
      BY <3>1, HeldKept DEF KeysInv
  <2>2. QED
    BY <2>1
<1>2. ASSUME NEW k \in KeyIds
      PROVE  Bounded(k)'
  <2>1. Successors(k)' = Successors(k) /\ Bounded(k)
    BY DEF Successors, KeysInv
  <2>2. CASE pc'[w] = "rotate" /\ req'[w].id = k
    <3>1. keys[k].status = "active" /\ Cardinality(Successors(k)) <= Served * enabled[k]
      BY <2>1, <2>2 DEF Bounded
    <3>2. Rotations(k)' \in SUBSET Workers
      BY DEF Rotations
    <3>3. Cardinality(Rotations(k)') <= Served /\ Cardinality(Rotations(k)') \in Nat
      BY <3>2, WorkersAssumption, FS_Subset, FS_CardinalityType DEF Served
    <3>4. Served * enabled[k] \in Nat /\ Served \in Nat /\ Served' = Served
      BY CountedKeys, Room DEF KeysInv, Served
    <3>5. QED
      BY <2>1, <3>1, <3>3, <3>4, CountedKeys DEF Bounded
  <2>3. CASE ~(pc'[w] = "rotate" /\ req'[w].id = k)
    <3>1. Rotations(k)' \subseteq Rotations(k)
      BY <2>3 DEF Rotations, Alone
    <3>2. QED
      BY <2>1, <3>1, BoundedKept
  <2>4. QED
    BY <2>2, <2>3
<1>3. QED
  BY <1>1, <1>2 DEF KeysInv, KeyRow

\* The handlers' first statements, and those that write no key.
LEMMA KeysReading ==
  ASSUME KeysInv, area = "keys", area' = area, NEW w \in Workers,
         \/ \E k \in KeyIds : \/ AdminAuth(w, k) \/ EnableAPIKey(w, k) \/ DisableAPIKey(w, k)
                              \/ DeleteAPIKey(w, k) \/ RotateAPIKey(w, k)
         \/ \E expires, writes \in BOOLEAN : CreateAPIKey(w, expires, writes)
         \/ Compare(w) \/ InsertKeyRefused(w) \/ SetKeyFails(w) \/ RotateRollback(w)
         \/ RotateCommitFails(w)
  PROVE  KeysInv'
<1> USE DEF keyVars
<1>1. Serving
  BY DEF KeysInv
<1>2. ASSUME NEW k \in KeyIds, AdminAuth(w, k)
      PROVE  KeysInv'
  <2>1. /\ Serving' /\ Alone(w) /\ pc'[w] = "compare" /\ UNCHANGED <<keys, enabled>>
    BY <1>1, <1>2, StartMoves DEF AdminAuth
  <2>2. QED
    BY <2>1, KeysMoved DEF KeyHeld
<1>3. ASSUME NEW k \in KeyIds, EnableAPIKey(w, k) \/ DisableAPIKey(w, k) \/ DeleteAPIKey(w, k)
      PROVE  KeysInv'
  <2>1. ASSUME NEW op, NEW to, Begin(w, "set key", Call(op, k, keys[k], to)), LiveKey(k),
               to \in {"active", "disabled", "deleted"}, op = "EnableAPIKey" <=> to = "active",
               UNCHANGED <<keys, enabled>>
        PROVE  KeysInv'
    <3> HIDE DEF keyVars
    <3> DEFINE row == keys[k]
    <3>0. Begin(w, "set key", Call(op, k, row, to))
      BY <2>1
    <3> HIDE DEF row
    <3>1. /\ Serving' /\ Alone(w) /\ pc'[w] = "set key"
          /\ req'[w].op = op /\ req'[w].id = k /\ req'[w].to = to
      BY <1>1, <3>0, BeginMoves
    <3>2. KeyHeld(w)'
      BY <2>1, <3>1 DEF KeyHeld, LiveKey
    <3>3. QED
      BY <2>1, <3>1, <3>2, KeysMoved
  <2>2. CASE EnableAPIKey(w, k)
    BY <2>1, <2>2 DEF EnableAPIKey
  <2>3. CASE DisableAPIKey(w, k)
    <3>1. "DisableAPIKey" = "EnableAPIKey" <=> "disabled" = "active"
      OBVIOUS
    <3>2. /\ Begin(w, "set key", Call("DisableAPIKey", k, keys[k], "disabled"))
          /\ LiveKey(k) /\ UNCHANGED <<keys, enabled>>
      BY <2>3 DEF DisableAPIKey
    <3>3. QED
      BY <2>1, <3>1, <3>2
  <2>4. CASE DeleteAPIKey(w, k)
    <3>1. "DeleteAPIKey" = "EnableAPIKey" <=> "deleted" = "active"
      OBVIOUS
    <3>2. /\ Begin(w, "set key", Call("DeleteAPIKey", k, keys[k], "deleted"))
          /\ LiveKey(k) /\ UNCHANGED <<keys, enabled>>
      BY <2>4 DEF DeleteAPIKey
    <3>3. QED
      BY <2>1, <3>1, <3>2
  <2>5. QED
    BY <1>3, <2>2, <2>3, <2>4
<1>4. ASSUME NEW k \in KeyIds, RotateAPIKey(w, k)
      PROVE  KeysInv'
  <2>1. /\ Begin(w, "rotate", Call("RotateAPIKey", k, keys[k], "disabled"))
        /\ keys[k].status = "active" /\ UNCHANGED <<keys, enabled>>
    BY <1>4 DEF RotateAPIKey
  <2>2. /\ Serving' /\ Alone(w) /\ pc'[w] = "rotate"
        /\ req'[w].id = k /\ req'[w].row = keys[k]
    <3> DEFINE row == keys[k]
    <3>1. Begin(w, "rotate", Call("RotateAPIKey", k, row, "disabled"))
      BY <2>1
    <3> HIDE DEF row
    <3>2. /\ Serving' /\ Alone(w) /\ pc'[w] = "rotate"
          /\ req'[w].id = k /\ req'[w].row = row
      BY <1>1, <3>1, BeginMoves
    <3>3. QED
      BY <3>2 DEF row
  <2>3. KeyHeld(w)'
    BY <2>1, <2>2 DEF KeyHeld, KeyRow, KeysInv
  <2>4. QED
    BY <2>1, <2>2, <2>3, KeysMoved
<1>5. ASSUME NEW expires \in BOOLEAN, NEW writes \in BOOLEAN, CreateAPIKey(w, expires, writes)
      PROVE  KeysInv'
  <2> DEFINE row == [status |-> "active", expires |-> expires, writes |-> writes, parent |-> 0]
  <2>1. UNCHANGED <<keys, enabled>> /\ Begin(w, "insert key", Call("CreateAPIKey", 0, row, "active"))
    BY <1>5 DEF CreateAPIKey
  <2>2. row \in KeyRow /\ row.status = "active" /\ row.parent = 0
    BY DEF KeyRow
  <2> HIDE DEF row
  <2>3. Begin(w, "insert key", Call("CreateAPIKey", 0, row, "active"))
    BY <2>1
  <2>4. /\ Serving' /\ Alone(w) /\ pc'[w] = "insert key" /\ req'[w].row = row
    BY <1>1, <2>3, BeginMoves
  <2>5. KeyHeld(w)'
    BY <2>2, <2>4 DEF KeyHeld, KeyRow
  <2>6. QED
    BY <2>1, <2>4, <2>5, KeysMoved
<1>6. ASSUME Compare(w) \/ InsertKeyRefused(w) \/ SetKeyFails(w) \/ RotateRollback(w)
             \/ RotateCommitFails(w)
      PROVE  KeysInv'
  <2>1. /\ Serving' /\ Alone(w) /\ pc'[w] \in {"admitted", "idle", "audit"}
        /\ UNCHANGED <<keys, enabled>>
    BY <1>1, <1>6, ProceedMoves, ProceedFailedMoves
       DEF Compare, InsertKeyRefused, SetKeyFails, RotateRollback, RotateCommitFails, ExecutionFails
  <2>2. QED
    BY <2>1, KeysMoved DEF KeyHeld
<1>7. QED
  BY <1>2, <1>3, <1>4, <1>5, <1>6

\* A row that is INSERTed gets a key that is nobody's parent, and that no
\* request is about.
LEMMA NewKeyFree ==
  ASSUME KeysInv, area = "keys", FreeKeys # {}
  PROVE  /\ NewKey \in KeyIds /\ keys[NewKey].status = "none"
         /\ Successors(NewKey) = {} /\ Rotations(NewKey) = {}
<1>1. FreeKeys \subseteq Nat
  BY KeyIdsAssumption, FS_CardinalityType DEF FreeKeys
<1>2. NewKey \in FreeKeys
  BY <1>1, LeastFree DEF NewKey
<1>3. NewKey \in KeyIds /\ keys[NewKey].status = "none"
  BY <1>2 DEF FreeKeys
<1>4. QED
  BY <1>3 DEF KeysInv, Bounded, Rotations, KeyHeld

LEMMA InsertKeyKeeps ==
  ASSUME KeysInv, area = "keys", area' = area, NEW w \in Workers, InsertKey(w)
  PROVE  KeysInv'
<1> DEFINE n == NewKey
           row == req[w].row
<1>1. Serving /\ KeyHeld(w)
  BY DEF KeysInv
<1>2. /\ Serving' /\ Alone(w) /\ pc[w] = "insert key" /\ pc'[w] = "audit"
  BY <1>1, ProceedMoves DEF InsertKey, Executed
<1>3. /\ n \in KeyIds /\ keys[n].status = "none" /\ Successors(n) = {} /\ Rotations(n) = {}
      /\ keys' = [keys EXCEPT ![n] = row] /\ enabled' = enabled
  BY NewKeyFree DEF InsertKey
<1> HIDE DEF n
<1>4. row \in KeyRow /\ row.status = "active" /\ row.parent = 0
  BY <1>1, <1>2 DEF KeyHeld
<1>5. keys' \in [KeyIds -> KeyRow] /\ enabled' \in [KeyIds -> Nat]
  BY <1>3, <1>4 DEF KeysInv
<1>6. ASSUME NEW v \in Workers
      PROVE  KeyHeld(v)'
  <2>1. CASE v = w
    BY <1>2, <2>1 DEF KeyHeld
  <2>2. CASE v # w
    <3>1. pc'[v] = pc[v] /\ req'[v] = req[v] /\ KeyHeld(v)
      BY <1>2, <2>2 DEF Alone, KeysInv
    <3>2. \A k \in KeyIds : keys[k].status # "none" => keys'[k].status # "none"
      BY <1>3, <1>4 DEF KeysInv
    <3>3. QED
      BY <3>1, <3>2, HeldKept
  <2>3. QED
    BY <2>1, <2>2
<1>7. ASSUME NEW k \in KeyIds
      PROVE  Bounded(k)'
  <2>1. \A j \in KeyIds : keys'[j].parent = IF j = n THEN 0 ELSE keys[j].parent
    BY <1>3, <1>4 DEF KeysInv
  <2>2. 0 \notin KeyIds
    BY KeyIdsAssumption, FS_CardinalityType
  <2>3. Successors(k)' \subseteq Successors(k)
    BY <2>1, <2>2 DEF Successors
  <2>4. Rotations(k)' \subseteq Rotations(k)
    BY <1>2 DEF Rotations, Alone
  <2>5. CASE k = n
    <3>1. Successors(k)' = {} /\ Rotations(k)' = {}
      BY <1>3, <2>3, <2>4, <2>5
    <3>2. Served * enabled[k] \in Nat /\ Served \in Nat /\ Served' = Served
      BY CountedKeys, Room DEF KeysInv, Served
    <3>3. QED
      BY <1>3, <3>1, <3>2, FS_EmptySet DEF Bounded
  <2>6. CASE k # n
    <3>1. keys'[k] = keys[k] /\ enabled'[k] = enabled[k]
      BY <1>3, <2>6 DEF KeysInv
    <3>2. QED
      BY <2>3, <2>4, <3>1, BoundedKept DEF KeysInv
  <2>7. QED
    BY <2>5, <2>6
<1>8. QED
  BY <1>2, <1>5, <1>6, <1>7 DEF KeysInv, KeyRow

LEMMA SetKeyKeeps ==
  ASSUME KeysInv, area = "keys", area' = area, NEW w \in Workers, SetKey(w)
  PROVE  KeysInv'
<1> DEFINE n == req[w].id
           to == req[w].to
           enables == req[w].op = "EnableAPIKey"
<1>1. Serving /\ KeyHeld(w)
  BY DEF KeysInv
<1>2. Serving' /\ Alone(w) /\ pc[w] = "set key" /\ pc'[w] = "audit"
  BY <1>1, ProceedMoves DEF SetKey, Executed
<1>3. /\ n \in KeyIds /\ keys[n].status # "none"
      /\ to \in {"active", "disabled", "deleted"} /\ (enables <=> to = "active")
  BY <1>1, <1>2 DEF KeyHeld
<1>4. /\ keys' = IF LiveKey(n) THEN [keys EXCEPT ![n].status = to] ELSE keys
      /\ enabled' = IF enables THEN [enabled EXCEPT ![n] = @ + 1] ELSE enabled
  BY DEF SetKey
<1> HIDE DEF n, to, enables
<1>5. keys[n] \in KeyRow /\ [keys[n] EXCEPT !.status = to] \in KeyRow
  BY <1>3 DEF KeysInv, KeyRow
<1>6. keys' \in [KeyIds -> KeyRow]
  BY <1>3, <1>4, <1>5 DEF KeysInv
<1>7. enabled' \in [KeyIds -> Nat]
  BY <1>3, <1>4 DEF KeysInv
<1>8. \A k \in KeyIds : /\ keys'[k].parent = keys[k].parent
                        /\ k # n => keys'[k] = keys[k] /\ enabled'[k] = enabled[k]
  BY <1>3, <1>4, <1>5 DEF KeysInv, KeyRow
<1>9. keys'[n].status = IF LiveKey(n) THEN to ELSE keys[n].status
  BY <1>3, <1>4, <1>5 DEF KeysInv, KeyRow
<1>10. ASSUME NEW v \in Workers
       PROVE  KeyHeld(v)'
  <2>1. CASE v = w
    BY <1>2, <2>1 DEF KeyHeld
  <2>2. CASE v # w
    <3>1. pc'[v] = pc[v] /\ req'[v] = req[v] /\ KeyHeld(v)
      BY <1>2, <2>2 DEF Alone, KeysInv
    <3>2. \A k \in KeyIds : keys[k].status # "none" => keys'[k].status # "none"
      BY <1>3, <1>8, <1>9
    <3>3. QED
      BY <3>1, <3>2, HeldKept
  <2>3. QED
    BY <2>1, <2>2
<1>11. ASSUME NEW k \in KeyIds
       PROVE  Bounded(k)'
  <2>1. Successors(k)' = Successors(k)
    BY <1>8 DEF Successors
  <2>2. Rotations(k)' \subseteq Rotations(k)
    BY <1>2 DEF Rotations, Alone
  <2>3. CASE k # n
    BY <1>8, <2>1, <2>2, <2>3, BoundedKept DEF KeysInv
  <2>4. CASE k = n /\ ~enables
    <3>1. enabled'[k] = enabled[k] /\ to # "active"
      BY <1>3, <1>4, <2>4
    <3>2. CASE ~LiveKey(n)
      BY <1>9, <2>1, <2>2, <2>4, <3>1, <3>2, BoundedKept DEF KeysInv
    <3>3. CASE LiveKey(n)
      <4>1. keys'[k].status = to
        BY <1>9, <2>4, <3>3
      <4>2. Cardinality(Rotations(k)') <= Cardinality(Rotations(k)) /\ Cardinality(Rotations(k)') \in Nat
        BY <2>2, CountedKeys, FS_Subset, FS_CardinalityType
      <4>3. Served * enabled[k] \in Nat /\ Served \in Nat /\ Served' = Served
        BY CountedKeys, Room DEF KeysInv, Served
      <4>4. QED
        BY <1>3, <2>1, <3>1, <4>1, <4>2, <4>3, CountedKeys DEF Bounded, KeysInv
    <3>4. QED
      BY <3>2, <3>3
  <2>5. CASE k = n /\ enables
    <3>1. enabled'[k] = enabled[k] + 1
      BY <1>3, <1>4, <2>5 DEF KeysInv
    <3>2. Served * enabled'[k] = Served * enabled[k] + Served /\ Served * enabled[k] \in Nat
          /\ Served \in Nat /\ Served' = Served
      BY <3>1, CountedKeys, Room DEF KeysInv, Served
    <3>3. Cardinality(Rotations(k)') <= Cardinality(Rotations(k)) /\ Cardinality(Rotations(k)') \in Nat
      BY <2>2, CountedKeys, FS_Subset, FS_CardinalityType
    <3>4. keys'[k].status # "none"
      BY <1>3, <1>9, <2>5
    <3>5. QED
      BY <2>1, <3>2, <3>3, <3>4, CountedKeys DEF Bounded, KeysInv
  <2>6. QED
    BY <2>3, <2>4, <2>5
<1>12. QED
  BY <1>2, <1>6, <1>7, <1>10, <1>11 DEF KeysInv, KeyRow

LEMMA RotateTransactionKeeps ==
  ASSUME KeysInv, area = "keys", area' = area, NEW w \in Workers, RotateTransaction(w)
  PROVE  KeysInv'
<1> DEFINE n == NewKey
           o == req[w].id
           row == [req[w].row EXCEPT !.status = "active", !.parent = o]
           old == IF LiveKey(o) THEN [keys EXCEPT ![o].status = "disabled"] ELSE keys
<1>1. Serving /\ KeyHeld(w)
  BY DEF KeysInv
<1>2. Serving' /\ Alone(w) /\ pc[w] = "rotate" /\ pc'[w] = "audit"
  BY <1>1, ProceedMoves DEF RotateTransaction, Executed
<1>3. o \in KeyIds /\ keys[o].status # "none" /\ req[w].row \in KeyRow /\ keys[o] \in KeyRow
  BY <1>1, <1>2 DEF KeyHeld, KeysInv
<1>4. row \in KeyRow /\ row.status = "active" /\ row.parent = o
  BY <1>3 DEF KeyRow
<1>5. old \in [KeyIds -> KeyRow] /\ old[o].status \in {"disabled", "deleted"}
  <2>1. [keys[o] EXCEPT !.status = "disabled"] \in KeyRow
    BY <1>3 DEF KeyRow
  <2>2. CASE LiveKey(o)
    BY <1>3, <2>1, <2>2 DEF KeysInv, KeyRow
  <2>3. CASE ~LiveKey(o)
    BY <1>3, <2>3 DEF KeysInv, LiveKey
  <2>4. QED
    BY <2>2, <2>3
<1>6. \A k \in KeyIds : old[k].parent = keys[k].parent /\ (k # o => old[k] = keys[k])
  BY <1>3 DEF KeysInv, KeyRow
<1>7. /\ n \in KeyIds /\ keys[n].status = "none" /\ Successors(n) = {} /\ Rotations(n) = {}
      /\ keys' = [old EXCEPT ![n] = row] /\ enabled' = enabled
  BY NewKeyFree DEF RotateTransaction
<1>8. w \in Rotations(o)
  BY <1>2 DEF Rotations
<1> HIDE DEF n, o, row, old
<1>9. n # o
  BY <1>3, <1>7
<1>10. keys' \in [KeyIds -> KeyRow] /\ enabled' \in [KeyIds -> Nat]
  BY <1>4, <1>5, <1>7 DEF KeysInv
<1>11. /\ \A k \in KeyIds : k # n => keys'[k] = old[k]
       /\ keys'[n] = row
  BY <1>4, <1>5, <1>7
<1>12. ASSUME NEW v \in Workers
       PROVE  KeyHeld(v)'
  <2>1. CASE v = w
    BY <1>2, <2>1 DEF KeyHeld
  <2>2. CASE v # w
    <3>1. pc'[v] = pc[v] /\ req'[v] = req[v] /\ KeyHeld(v)
      BY <1>2, <2>2 DEF Alone, KeysInv
    <3>2. \A k \in KeyIds : keys[k].status # "none" => keys'[k].status # "none"
      BY <1>4, <1>5, <1>6, <1>11
    <3>3. QED
      BY <3>1, <3>2, HeldKept
  <2>3. QED
    BY <2>1, <2>2
<1>13. ASSUME NEW k \in KeyIds
       PROVE  Bounded(k)'
  <2>1. k # o => Successors(k)' \subseteq Successors(k)
    BY <1>4, <1>6, <1>11 DEF Successors
  <2>2. Rotations(k)' \subseteq Rotations(k)
    BY <1>2 DEF Rotations, Alone
  <2>3. Served * enabled[k] \in Nat /\ Served \in Nat /\ Served' = Served
    BY CountedKeys, Room DEF KeysInv, Served
  <2>4. CASE k = n
    <3>1. Successors(k)' = {} /\ Rotations(k)' = {}
      BY <1>7, <1>9, <2>1, <2>2, <2>4
    <3>2. QED
      BY <1>4, <1>7, <1>11, <2>3, <2>4, <3>1, FS_EmptySet DEF Bounded
  <2>5. CASE k = o
    <3>1. Successors(k)' \subseteq Successors(k) \cup {n}
      BY <1>6, <1>11 DEF Successors
    <3>2. IsFiniteSet(Successors(k) \cup {n})
          /\ Cardinality(Successors(k) \cup {n}) <= Cardinality(Successors(k)) + 1
      <4>1. IsFiniteSet(Successors(k)) /\ Cardinality(Successors(k)) \in Nat
        BY CountedKeys
      <4>2. /\ IsFiniteSet(Successors(k) \cup {n})
            /\ Cardinality(Successors(k) \cup {n}) =
                 IF n \in Successors(k) THEN Cardinality(Successors(k))
                                        ELSE Cardinality(Successors(k)) + 1
        BY <4>1, FS_AddElement
      <4>3. QED
        BY <4>1, <4>2
    <3>3. /\ Cardinality(Successors(k)') <= Cardinality(Successors(k)) + 1
          /\ Cardinality(Successors(k)') \in Nat
      <4>1. /\ IsFiniteSet(Successors(k)')
            /\ Cardinality(Successors(k)') <= Cardinality(Successors(k) \cup {n})
        BY <3>1, <3>2, FS_Subset
      <4>2. Cardinality(Successors(k)') \in Nat /\ Cardinality(Successors(k) \cup {n}) \in Nat
        BY <3>2, <4>1, FS_CardinalityType
      <4>3. QED
        BY <3>2, <4>1, <4>2, CountedKeys
    <3>4. Rotations(k)' \subseteq Rotations(k) \ {w}
      BY <1>2, <2>2 DEF Rotations
    <3>5. /\ Cardinality(Rotations(k)') <= Cardinality(Rotations(k)) - 1
          /\ Cardinality(Rotations(k)') \in Nat
      <4>1. /\ IsFiniteSet(Rotations(k) \ {w})
            /\ Cardinality(Rotations(k) \ {w}) = Cardinality(Rotations(k)) - 1
        BY <1>8, <2>5, CountedKeys, FS_RemoveElement
      <4>2. QED
        BY <3>4, <4>1, FS_Subset, FS_CardinalityType
    <3>6. keys'[k].status \in {"disabled", "deleted"} /\ enabled'[k] = enabled[k]
      BY <1>5, <1>7, <1>9, <1>11, <2>5
    <3>7. Bounded(k)
      BY DEF KeysInv
    <3>8. QED
      BY <2>3, <3>3, <3>5, <3>6, <3>7, CountedKeys DEF Bounded
  <2>6. CASE k # n /\ k # o
    <3>1. keys'[k] = keys[k] /\ enabled'[k] = enabled[k]
      BY <1>6, <1>7, <1>11, <2>6
    <3>2. QED
      BY <2>1, <2>2, <2>6, <3>1, BoundedKept DEF KeysInv
  <2>7. QED
    BY <2>4, <2>5, <2>6
<1>14. QED
  BY <1>2, <1>10, <1>12, <1>13 DEF KeysInv, KeyRow

\* Every step keeps the bounds.
LEMMA StepKeys ==
  ASSUME KeysInv, [Next]_vars
  PROVE  KeysInv'
<1>1. Serving /\ Serving'
  BY StepServing DEF KeysInv
<1>2. CASE Keys
  <2>1. area = "keys" /\ area' = area /\ KeysNext
    BY <1>2 DEF Keys
  <2>2. CASE Expire
    BY <1>1, <2>1, <2>2
       DEF Expire, requestVars, KeysInv, KeyRow, KeyHeld, Bounded, Successors, Rotations, Served
  <2>3. CASE ~Expire
    BY <2>1, <2>3, KeysReading, InsertKeyKeeps, SetKeyKeeps, RotateTransactionKeeps DEF KeysNext
  <2>4. QED
    BY <2>2, <2>3
<1>3. CASE UNCHANGED <<area, keys, enabled>> /\ area # "keys"
  <2>1. \A k \in KeyIds : Successors(k)' = Successors(k)
    BY <1>3 DEF Successors
  <2>2. QED
    BY <1>1, <1>3, <2>1 DEF KeysInv, KeyRow
<1>4. CASE Log /\ area = "keys"
  <2>1. PICK w \in Workers : Audit(w) \/ AuditFails(w)
    BY <1>4 DEF Log, ConsoleNext
  <2>2. Alone(w) /\ pc'[w] = "idle"
    BY <1>1, <2>1, ProceedMoves, ProceedFailedMoves DEF Audit, AuditFails
  <2>3. UNCHANGED <<area, keys, enabled>>
    BY <1>4 DEF Log, keyVars
  <2>4. KeyHeld(w)'
    BY <2>2 DEF KeyHeld
  <2>5. QED
    BY <1>1, <1>4, <2>2, <2>3, <2>4, KeysMoved
<1>5. CASE Crash /\ area = "keys"
  <2>1. /\ \A v \in Workers : pc'[v] = "idle"
        /\ UNCHANGED <<area, keys, enabled>>
    BY <1>1, <1>5, CrashMoves DEF Crash, keyVars
  <2>2. \A v \in Workers : KeyHeld(v)'
    BY <2>1 DEF KeyHeld
  <2>3. ASSUME NEW k \in KeyIds
        PROVE  Bounded(k)'
    <3>1. Successors(k)' = Successors(k) /\ Rotations(k)' = {} /\ Bounded(k)
      BY <1>5, <2>1 DEF Successors, Rotations, KeysInv
    <3>2. QED
      BY <2>1, <3>1, BoundedKept
  <2>4. QED
    BY <1>1, <1>5, <2>1, <2>2, <2>3 DEF KeysInv, KeyRow
<1>6. CASE UNCHANGED vars
  BY <1>1, <1>6
     DEF vars, keyVars, requestVars, KeysInv, KeyRow, KeyHeld, Bounded, Successors, Rotations, Served
<1>7. CASE Nodes \/ Configs \/ Orgs
  BY <1>3, <1>7 DEF Nodes, Configs, Orgs, keyVars
<1>8. CASE (Log \/ Crash) /\ area # "keys"
  BY <1>3, <1>8 DEF Log, Crash, keyVars
<1>9. QED
  BY <1>2, <1>4, <1>5, <1>6, <1>7, <1>8 DEF Next

\* However many rotations of a key are asked for, and whenever, it gets no more
\* successors than requests are served at once, for each time it is activated.
THEOREM SuccessorBoundCorrect == Spec => []SuccessorBound
<1>1. Init => KeysInv
  <2> SUFFICES ASSUME Init PROVE KeysInv
    OBVIOUS
  <2>1. Serving /\ \A w \in Workers : pc[w] = "idle"
    BY InitServing DEF Quiet
  <2>2. PICK e \in BOOLEAN :
          keys = [k \in KeyIds |-> IF k = 1 THEN [NoKey EXCEPT !.status = "active", !.writes = TRUE,
                                                            !.expires = e] ELSE NoKey]
    BY DEF Init, KeysInit
  <2>3. \A k \in KeyIds : keys[k] \in KeyRow /\ keys[k].parent = 0
    BY <2>2 DEF NoKey, KeyRow
  <2>4. keys \in [KeyIds -> KeyRow] /\ enabled = [k \in KeyIds |-> 0]
    BY <2>2, <2>3 DEF Init, KeysInit
  <2>5. \A k \in KeyIds : Successors(k) = {} /\ Rotations(k) = {}
    <3>1. 0 \notin KeyIds
      BY KeyIdsAssumption, FS_CardinalityType
    <3>2. QED
      BY <2>1, <2>3, <3>1 DEF Successors, Rotations
  <2>6. \A k \in KeyIds : Bounded(k)
    <3>1. Served \in Nat /\ Served * 0 = 0
      BY WorkersAssumption, FS_CardinalityType DEF Served
    <3>2. QED
      BY <2>4, <2>5, <3>1, FS_EmptySet DEF Bounded
  <2>7. QED
    BY <2>1, <2>4, <2>5, <2>6 DEF KeysInv, KeyHeld
<1>2. KeysInv /\ [Next]_vars => KeysInv'
  BY StepKeys
<1>3. KeysInv => SuccessorBound
  <2> SUFFICES ASSUME KeysInv, NEW k \in KeyIds
               PROVE  Cardinality(Successors(k)) <= Served * (1 + enabled[k])
    BY DEF SuccessorBound, Served
  <2>1. enabled[k] \in Nat /\ Served \in Nat
    BY CountedKeys DEF KeysInv
  <2>2. Served * (1 + enabled[k]) = Served * enabled[k] + Served /\ Served * enabled[k] \in Nat
    BY <2>1, Room
  <2>3. CASE area = "keys"
    BY <2>1, <2>2, <2>3, CountedKeys DEF KeysInv, Bounded
  <2>4. CASE area # "keys"
    BY <2>1, <2>2, <2>4, FS_EmptySet DEF KeysInv
  <2>5. QED
    BY <2>3, <2>4
<1>4. QED
  BY <1>1, <1>2, <1>3, PTL DEF Spec

-----------------------------------------------------------------------------
(* The system configuration.                                               *)

\* Statements that fail are counted, and not forgotten.
LEMMA IllFaults ==
  ASSUME Serving, Ill
  PROVE  ~NoFault'
BY RequestBoundsAssumption DEF Ill, Serving, NoFault

LEMMA FaultsStay ==
  ASSUME Serving, [Next]_vars
  PROVE  NoFault' => NoFault
<1>1. CASE Crash
  BY <1>1, CrashMoves DEF Crash, NoFault
<1>2. CASE Next /\ ~Crash
  BY <1>2, StepAccounted, RequestBoundsAssumption
     DEF Accounted, Well, Ill, Serving, NoFault, requestVars
<1>3. CASE UNCHANGED vars
  BY <1>3 DEF vars, requestVars, NoFault
<1>4. QED
  BY <1>1, <1>2, <1>3

ConfigRow == [state : {"none", "live", "deleted"}, value : Nat]

\* The request is about to save a row that it has not found.
Creates(w) == pc[w] = "save config" /\ req[w].row.state = "new"

ConfigHeld(w) ==
  /\ pc[w] = "save config" =>
       /\ req[w].id \in ConfigKeys /\ req[w].to \in Nat
       /\ req[w].row.state # "new" => configs[req[w].id].state # "none" /\ req[w].id \notin Encrypted
  /\ pc[w] = "delete config" => req[w].id \in ConfigKeys /\ configs[req[w].id].state # "none"

\* The only one to create a key finds the index without it.
CreatesAlone(w) ==
  NoFault /\ Creates(w) /\ req[w].id \notin suspect =>
    /\ configs[req[w].id].state = "none"
    /\ \A v \in Workers : Creates(v) /\ req[v].id = req[w].id => v = w

ConfigRight(k) ==
  /\ configs[k].state = "deleted" => k \in suspect
  /\ k \in Encrypted => configs[k].state # "none" /\ configs[k].value = 0
  /\ NoFault /\ k \notin suspect /\ acknowledged[k] # 0 =>
       configs[k] = [state |-> "live", value |-> acknowledged[k]]

ConfigsInv ==
  /\ Serving /\ configs \in [ConfigKeys -> ConfigRow] /\ acknowledged \in [ConfigKeys -> Nat]
  /\ \A k \in ConfigKeys : ConfigRight(k)
  /\ area = "configs" => \A w \in Workers : ConfigHeld(w) /\ CreatesAlone(w)

\* A request moves, the rows do not.
LEMMA ConfigsMoved ==
  ASSUME ConfigsInv, area = "configs", Serving', NEW w \in Workers, Alone(w), NoFault' => NoFault,
         UNCHANGED <<area, configs, acknowledged>>, suspect \subseteq suspect', ConfigHeld(w)',
         NoFault' /\ Creates(w)' /\ req'[w].id \notin suspect' =>
           /\ configs[req'[w].id].state = "none"
           /\ \A v \in Workers : Creates(v) => req[v].id # req'[w].id
  PROVE  ConfigsInv'
<1>1. ASSUME NEW v \in Workers
      PROVE  ConfigHeld(v)'
  <2>1. CASE v # w
    BY <2>1 DEF Alone, ConfigsInv, ConfigHeld
  <2>2. QED
    BY <2>1
<1>2. ASSUME NEW v \in Workers
      PROVE  CreatesAlone(v)'
  <2> SUFFICES ASSUME NoFault', Creates(v)', req'[v].id \notin suspect'
               PROVE  /\ configs'[req'[v].id].state = "none"
                      /\ \A u \in Workers : Creates(u)' /\ req'[u].id = req'[v].id => u = v
    BY DEF CreatesAlone
  <2>1. \A u \in Workers : u # w => (Creates(u)' <=> Creates(u)) /\ req'[u] = req[u]
    BY DEF Alone, Creates
  <2>2. CASE v = w
    BY <2>1, <2>2
  <2>3. CASE v # w
    <3>1. CreatesAlone(v) /\ Creates(v) /\ req'[v] = req[v] /\ NoFault /\ req[v].id \notin suspect
      BY <2>1, <2>3 DEF ConfigsInv
    <3>2. Creates(w)' => req'[w].id # req'[v].id
      BY <2>1, <2>3, <3>1
    <3>3. QED
      BY <2>1, <3>1, <3>2 DEF CreatesAlone
  <2>4. QED
    BY <2>2, <2>3
<1>3. ASSUME NEW k \in ConfigKeys
      PROVE  ConfigRight(k)'
  BY DEF ConfigsInv, ConfigRight
<1>4. QED
  BY <1>1, <1>2, <1>3 DEF ConfigsInv, ConfigRow

\* What a request holds from its first statement on, whether that one failed or not.
LEMMA CallMoves ==
  ASSUME Serving, NEW w \in Workers, NEW p, NEW op, NEW id, NEW row, NEW to,
         Start(w, p, Call(op, id, row, to))
  PROVE  /\ Serving' /\ Alone(w) /\ pc[w] = "idle" /\ pc'[w] = p
         /\ req'[w].op = op /\ req'[w].id = id /\ req'[w].row = row /\ req'[w].to = to
         /\ NoFault' => NoFault
BY StartMoves DEF Call, Well, NoFault

LEMMA CallFailedMoves ==
  ASSUME Serving, NEW w \in Workers, NEW p, NEW op, NEW id, NEW row, NEW to,
         StartFailed(w, p, Call(op, id, row, to))
  PROVE  /\ Serving' /\ Alone(w) /\ pc[w] = "idle" /\ pc'[w] = p
         /\ req'[w].op = op /\ req'[w].id = id /\ req'[w].row = row /\ req'[w].to = to
         /\ ~NoFault'
<1>1. Serving' /\ Alone(w) /\ Ill /\ pc[w] = "idle" /\ pc'[w] = p /\ req'[w] = Call(op, id, row, to)
  BY StartFailedMoves
<1>2. ~NoFault'
  BY <1>1, IllFaults
<1>3. QED
  BY <1>1, <1>2 DEF Call

\* The first statements.
LEMMA DeleteConfigKeeps ==
  ASSUME ConfigsInv, area = "configs", area' = area, NEW w \in Workers, NEW k \in ConfigKeys,
         DeleteConfig(w, k)
  PROVE  ConfigsInv'
<1>1. PICK row : Start(w, "delete config", Call("DeleteConfig", k, row, 0))
  BY DEF DeleteConfig
<1>2. Serving' /\ Alone(w) /\ pc'[w] = "delete config" /\ req'[w].id = k /\ (NoFault' => NoFault)
  BY <1>1, CallMoves DEF ConfigsInv
<1>3. LiveConfig(k) /\ UNCHANGED <<configs, acknowledged, suspect>>
  BY DEF DeleteConfig, configVars
<1>4. ConfigHeld(w)' /\ ~Creates(w)'
  BY <1>2, <1>3 DEF ConfigHeld, LiveConfig, Creates
<1>5. QED
  BY <1>2, <1>3, <1>4, ConfigsMoved

LEMMA UpdateConfigKeeps ==
  ASSUME ConfigsInv, area = "configs", area' = area, NEW w \in Workers, NEW k \in ConfigKeys,
         UpdateConfig(w, k)
  PROVE  ConfigsInv'
<1>1. Serving
  BY DEF ConfigsInv
<1>2. Serial \in Nat
  BY DEF ConfigsInv, Serving, Serial
<1>3. ASSUME NEW row, row = configs[k], NEW to, to = Serial, LiveConfig(k), k \notin Encrypted,
             Start(w, "save config", Call("UpdateConfig", k, row, to)),
             UNCHANGED <<configs, acknowledged, suspect>>
      PROVE  ConfigsInv'
  <2>1. /\ Serving' /\ Alone(w) /\ pc'[w] = "save config"
        /\ req'[w].id = k /\ req'[w].row = row /\ req'[w].to = to
        /\ NoFault' => NoFault
    <3>1. Start(w, "save config", Call("UpdateConfig", k, row, to))
      BY <1>3
    <3>2. QED
      BY <1>1, <3>1, CallMoves
  <2>2. ConfigHeld(w)' /\ ~Creates(w)'
    BY <1>2, <1>3, <2>1 DEF ConfigHeld, LiveConfig, Creates
  <2>3. QED
    BY <1>3, <2>1, <2>2, ConfigsMoved
<1>4. ASSUME NEW row, row.state = "new", NEW to, to = Serial,
             \/ ~LiveConfig(k) /\ Start(w, "save config", Call("UpdateConfig", k, row, to))
             \/ StartFailed(w, "save config", Call("UpdateConfig", k, row, to)),
             suspect' = IF Creating(k) THEN suspect \cup {k} ELSE suspect,
             UNCHANGED <<configs, acknowledged>>
      PROVE  ConfigsInv'
  <2>1. ASSUME Serving', Alone(w), pc'[w] = "save config",
               req'[w].id = k, req'[w].row = row, req'[w].to = to,
               NoFault' => NoFault /\ ~LiveConfig(k)
        PROVE  ConfigsInv'
    <3>1. ConfigHeld(w)'
      BY <1>2, <1>4, <2>1 DEF ConfigHeld
    <3>2. k \notin suspect' => /\ ~LiveConfig(k) => configs[k].state = "none"
                               /\ \A v \in Workers : Creates(v) => req[v].id # k
      BY <1>4 DEF Creating, Creates, LiveConfig, ConfigsInv, ConfigRight, ConfigRow
    <3>3. suspect \subseteq suspect'
      BY <1>4
    <3>4. QED
      BY <1>4, <2>1, <3>1, <3>2, <3>3, ConfigsMoved
  <2>2. CASE ~LiveConfig(k) /\ Start(w, "save config", Call("UpdateConfig", k, row, to))
    <3>1. Start(w, "save config", Call("UpdateConfig", k, row, to))
      BY <2>2
    <3>2. /\ Serving' /\ Alone(w) /\ pc'[w] = "save config"
          /\ req'[w].id = k /\ req'[w].row = row /\ req'[w].to = to
          /\ NoFault' => NoFault
      BY <1>1, <3>1, CallMoves
    <3>3. QED
      BY <2>2, <3>2, <2>1
  <2>3. CASE StartFailed(w, "save config", Call("UpdateConfig", k, row, to))
    <3>1. /\ Serving' /\ Alone(w) /\ pc'[w] = "save config"
          /\ req'[w].id = k /\ req'[w].row = row /\ req'[w].to = to
          /\ ~NoFault'
      BY <1>1, <2>3, CallFailedMoves
    <3>2. QED
      BY <3>1, <2>1
  <2>4. QED
    BY <1>4, <2>2, <2>3
<1>5. CASE /\ LiveConfig(k) /\ k \notin Encrypted
           /\ Start(w, "save config", Call("UpdateConfig", k, configs[k], Serial))
           /\ UNCHANGED <<configVars, consoleVars>>
  BY <1>3, <1>5 DEF configVars
<1>6. QED
  BY <1>4, <1>5 DEF UpdateConfig

\* A statement that fails writes nothing.
LEMMA ConfigFailureKeeps ==
  ASSUME ConfigsInv, area = "configs", area' = area, NEW w \in Workers, NEW p,
         ExecutionFails(w, p), UNCHANGED configVars
  PROVE  ConfigsInv'
<1>1. /\ Serving' /\ Alone(w) /\ Ill /\ pc'[w] = "audit"
      /\ UNCHANGED <<configs, acknowledged, suspect>>
  BY ProceedFailedMoves DEF ExecutionFails, ConfigsInv, configVars
<1>2. NoFault' => NoFault
  BY <1>1, IllFaults DEF ConfigsInv
<1>3. ConfigHeld(w)' /\ ~Creates(w)'
  BY <1>1 DEF ConfigHeld, Creates
<1>4. QED
  BY <1>1, <1>2, <1>3, ConfigsMoved

\* Save: the one that creates the key is not refused, the one that found it writes the row.
LEMMA SaveConfigKeeps ==
  ASSUME ConfigsInv, area = "configs", area' = area, NEW w \in Workers, SaveConfig(w)
  PROVE  ConfigsInv'
<1> DEFINE k == req[w].id
           to == req[w].to
           refused == Creates(w) /\ configs[k].state # "none"
<1>1. /\ Serving' /\ Alone(w) /\ Well /\ pc[w] = "save config" /\ pc'[w] = "audit"
      /\ req'[w] = req[w]
  BY ProceedMoves DEF SaveConfig, Executed, ConfigsInv
<1>2. /\ k \in ConfigKeys /\ to \in Nat
      /\ ~Creates(w) => configs[k].state # "none" /\ k \notin Encrypted
  BY <1>1 DEF ConfigsInv, ConfigHeld, Creates
<1>3. /\ configs' = IF refused THEN configs
                    ELSE [configs EXCEPT ![k] = [state |-> "live", value |-> to]]
      /\ acknowledged' = [acknowledged EXCEPT ![k] = to]
      /\ suspect' = suspect
  BY <1>1 DEF SaveConfig, Creates
<1>4. NoFault' <=> NoFault
  BY <1>1 DEF Well, NoFault
<1>5. NoFault /\ k \notin suspect => ~refused
  BY <1>2 DEF ConfigsInv, CreatesAlone
<1>6. k \in Encrypted => refused
  BY <1>2 DEF ConfigsInv, ConfigRight
<1> HIDE DEF k, to, refused
<1>7. /\ configs' \in [ConfigKeys -> ConfigRow] /\ acknowledged' \in [ConfigKeys -> Nat]
      /\ \A j \in ConfigKeys \ {k} : configs'[j] = configs[j] /\ acknowledged'[j] = acknowledged[j]
      /\ acknowledged'[k] = to
      /\ refused => configs'[k] = configs[k]
      /\ ~refused => configs'[k] = [state |-> "live", value |-> to]
  BY <1>2, <1>3 DEF ConfigsInv, ConfigRow
<1>8. ASSUME NEW j \in ConfigKeys
      PROVE  ConfigRight(j)'
  <2>1. CASE j # k
    BY <1>3, <1>4, <1>7, <2>1 DEF ConfigsInv, ConfigRight
  <2>2. CASE j = k
    BY <1>3, <1>4, <1>5, <1>6, <1>7, <2>2 DEF ConfigsInv, ConfigRight
  <2>3. QED
    BY <2>1, <2>2
<1>9. \A j \in ConfigKeys : configs[j].state # "none" => configs'[j].state # "none"
  BY <1>7
<1>10. ASSUME NEW v \in Workers
       PROVE  ConfigHeld(v)' /\ CreatesAlone(v)'
  <2>1. CASE v = w
    BY <1>1, <2>1 DEF ConfigHeld, CreatesAlone, Creates
  <2>2. CASE v # w
    <3>1. pc'[v] = pc[v] /\ req'[v] = req[v] /\ ConfigHeld(v) /\ CreatesAlone(v)
      BY <1>1, <2>2 DEF Alone, ConfigsInv
    <3>2. ConfigHeld(v)'
      BY <1>9, <3>1 DEF ConfigHeld
    <3>3. ASSUME NoFault, Creates(v), req[v].id \notin suspect
          PROVE  /\ configs'[req[v].id].state = "none"
                 /\ \A u \in Workers : Creates(u)' /\ req'[u].id = req[v].id => u = v
      <4>1. /\ configs[req[v].id].state = "none" /\ req[v].id \in ConfigKeys
            /\ \A u \in Workers : Creates(u) /\ req[u].id = req[v].id => u = v
        BY <3>1, <3>3 DEF CreatesAlone, ConfigHeld, Creates
      <4>2. req[v].id # k
        BY <1>2, <2>2, <4>1 DEF k
      <4>3. \A u \in Workers : Creates(u)' => Creates(u) /\ req'[u] = req[u]
        BY <1>1 DEF Alone, Creates
      <4>4. QED
        BY <1>7, <4>1, <4>2, <4>3
    <3>4. QED
      BY <1>3, <1>4, <3>1, <3>2, <3>3 DEF CreatesAlone, Creates
  <2>3. QED
    BY <2>1, <2>2
<1>11. QED
  BY <1>1, <1>7, <1>8, <1>10 DEF ConfigsInv

\* A deleted row makes its key suspect.
LEMMA DeleteConfigRowKeeps ==
  ASSUME ConfigsInv, area = "configs", area' = area, NEW w \in Workers, DeleteConfigRow(w)
  PROVE  ConfigsInv'
<1> DEFINE k == req[w].id
<1>1. /\ Serving' /\ Alone(w) /\ Well /\ pc[w] = "delete config" /\ pc'[w] = "audit"
      /\ req'[w] = req[w]
  BY ProceedMoves DEF DeleteConfigRow, Executed, ConfigsInv
<1>2. k \in ConfigKeys /\ configs[k].state # "none"
  BY <1>1 DEF ConfigsInv, ConfigHeld
<1>3. /\ configs' = [configs EXCEPT ![k] = [configs[k] EXCEPT !.state = "deleted"]]
      /\ acknowledged' = [acknowledged EXCEPT ![k] = 0]
      /\ suspect' = suspect \cup {k}
  BY DEF DeleteConfigRow
<1>4. NoFault' <=> NoFault
  BY <1>1 DEF Well, NoFault
<1> HIDE DEF k
<1>5. [configs[k] EXCEPT !.state = "deleted"] \in ConfigRow
      /\ [configs[k] EXCEPT !.state = "deleted"].value = configs[k].value
      /\ [configs[k] EXCEPT !.state = "deleted"].state = "deleted"
  BY <1>2 DEF ConfigsInv, ConfigRow
<1>6. /\ configs' \in [ConfigKeys -> ConfigRow] /\ acknowledged' \in [ConfigKeys -> Nat]
      /\ \A j \in ConfigKeys \ {k} : configs'[j] = configs[j] /\ acknowledged'[j] = acknowledged[j]
      /\ acknowledged'[k] = 0 /\ configs'[k].state = "deleted" /\ configs'[k].value = configs[k].value
  BY <1>2, <1>3, <1>5 DEF ConfigsInv
<1>7. ASSUME NEW j \in ConfigKeys
      PROVE  ConfigRight(j)'
  <2>1. CASE j # k
    BY <1>3, <1>4, <1>6, <2>1 DEF ConfigsInv, ConfigRight
  <2>2. CASE j = k
    BY <1>3, <1>6, <2>2 DEF ConfigsInv, ConfigRight
  <2>3. QED
    BY <2>1, <2>2
<1>8. ASSUME NEW v \in Workers
      PROVE  ConfigHeld(v)' /\ CreatesAlone(v)'
  <2>1. CASE v = w
    BY <1>1, <2>1 DEF ConfigHeld, CreatesAlone, Creates
  <2>2. CASE v # w
    <3>1. pc'[v] = pc[v] /\ req'[v] = req[v] /\ ConfigHeld(v) /\ CreatesAlone(v)
      BY <1>1, <2>2 DEF Alone, ConfigsInv
    <3>2. ConfigHeld(v)'
      BY <1>6, <3>1 DEF ConfigHeld
    <3>3. ASSUME NoFault, Creates(v), req[v].id \notin suspect \cup {k}
          PROVE  /\ configs'[req[v].id].state = "none"
                 /\ \A u \in Workers : Creates(u)' /\ req'[u].id = req[v].id => u = v
      <4>1. /\ configs[req[v].id].state = "none" /\ req[v].id \in ConfigKeys \ {k}
            /\ \A u \in Workers : Creates(u) /\ req[u].id = req[v].id => u = v
        BY <3>1, <3>3 DEF CreatesAlone, ConfigHeld, Creates
      <4>2. \A u \in Workers : Creates(u)' => Creates(u) /\ req'[u] = req[u]
        BY <1>1 DEF Alone, Creates
      <4>3. QED
        BY <1>6, <4>1, <4>2
    <3>4. QED
      BY <1>3, <1>4, <3>1, <3>2, <3>3 DEF CreatesAlone, Creates
  <2>3. QED
    BY <2>1, <2>2
<1>9. QED
  BY <1>1, <1>6, <1>7, <1>8 DEF ConfigsInv

\* Every step keeps the keys right.
LEMMA StepConfigs ==
  ASSUME ConfigsInv, [Next]_vars
  PROVE  ConfigsInv'
<1>1. Serving /\ Serving' /\ (NoFault' => NoFault)
  BY StepServing, FaultsStay DEF ConfigsInv
<1>2. CASE Configs
  <2>1. area = "configs" /\ area' = area /\ ConfigsNext
    BY <1>2 DEF Configs
  <2>2. ASSUME NEW w \in Workers, SaveConfigFails(w) \/ DeleteConfigFails(w)
        PROVE  ConfigsInv'
    BY <2>1, <2>2, ConfigFailureKeeps DEF SaveConfigFails, DeleteConfigFails
  <2>3. QED
    BY <2>1, <2>2, UpdateConfigKeeps, DeleteConfigKeeps, SaveConfigKeeps, DeleteConfigRowKeeps
       DEF ConfigsNext
<1>3. CASE UNCHANGED <<area, configs, acknowledged, suspect>> /\ area # "configs"
  BY <1>1, <1>3 DEF ConfigsInv, ConfigRow, ConfigRight
<1>4. CASE Log /\ area = "configs"
  <2>1. PICK w \in Workers : Audit(w) \/ AuditFails(w)
    BY <1>4 DEF Log, ConsoleNext
  <2>2. Alone(w) /\ pc'[w] = "idle"
    BY <1>1, <2>1, ProceedMoves, ProceedFailedMoves DEF Audit, AuditFails
  <2>3. UNCHANGED <<area, configs, acknowledged, suspect>>
    BY <1>4 DEF Log, configVars
  <2>4. ConfigHeld(w)' /\ ~Creates(w)'
    BY <2>2 DEF ConfigHeld, Creates
  <2>5. QED
    BY <1>1, <1>4, <2>2, <2>3, <2>4, ConfigsMoved
<1>5. CASE Crash /\ area = "configs"
  <2>1. /\ \A v \in Workers : pc'[v] = "idle"
        /\ UNCHANGED <<area, configs, acknowledged, suspect>>
    BY <1>1, <1>5, CrashMoves DEF Crash, configVars
  <2>2. \A v \in Workers : ConfigHeld(v)' /\ CreatesAlone(v)'
    BY <2>1 DEF ConfigHeld, CreatesAlone, Creates
  <2>3. QED
    BY <1>1, <2>1, <2>2 DEF ConfigsInv, ConfigRow, ConfigRight
<1>6. CASE UNCHANGED vars
  BY <1>1, <1>6
     DEF vars, configVars, requestVars, ConfigsInv, ConfigRow, ConfigRight, ConfigHeld,
         CreatesAlone, Creates, NoFault
<1>7. CASE Keys \/ Nodes \/ Orgs
  BY <1>3, <1>7 DEF Keys, Nodes, Orgs, configVars
<1>8. CASE (Log \/ Crash) /\ area # "configs"
  BY <1>3, <1>8 DEF Log, Crash, configVars
<1>9. QED
  BY <1>2, <1>4, <1>5, <1>6, <1>7, <1>8 DEF Next

\* An acknowledged value is the one stored, however updates, deletions, failures and
\* crashes interleave, as long as the key is not suspect and no statement failed; an
\* encrypted value is kept even then.
THEOREM ConfigAcknowledgedCorrect == Spec => []ConfigAcknowledged
<1>1. Init => ConfigsInv
  <2> SUFFICES ASSUME Init PROVE ConfigsInv
    OBVIOUS
  <2>1. Serving /\ \A w \in Workers : pc[w] = "idle"
    BY InitServing DEF Quiet
  <2>2. /\ configs = [k \in ConfigKeys |->
                        [state |-> IF k \in Encrypted THEN "live" ELSE "none", value |-> 0]]
        /\ acknowledged = [k \in ConfigKeys |-> 0]
    BY DEF Init, ConfigsInit
  <2>3. \A k \in ConfigKeys : ConfigRight(k) /\ configs[k] \in ConfigRow
    BY <2>2 DEF ConfigRight, ConfigRow
  <2>4. QED
    BY <2>1, <2>2, <2>3 DEF ConfigsInv, ConfigHeld, CreatesAlone, Creates
<1>2. ConfigsInv /\ [Next]_vars => ConfigsInv'
  BY StepConfigs
<1>3. ConfigsInv => ConfigAcknowledged
  BY DEF ConfigsInv, ConfigRight, ConfigAcknowledged
<1>4. QED
  BY <1>1, <1>2, <1>3, PTL DEF Spec

-----------------------------------------------------------------------------
(* Organisations.                                                          *)

OrgRow == [status : {"none", "live", "deleted"}, parent : OrgIds \cup {0}]

OrgHeld(w) ==
  /\ pc[w] = "update org" => req[w].id \in OrgIds /\ req[w].to \in OrgIds \cup {0}
  /\ pc[w] \in {"look up member", "insert member"} => req[w].id \in OrgIds
  /\ pc[w] \in {"count children", "count members", "delete org"} =>
       req[w].op = "DeleteOrg" /\ req[w].id \in OrgIds

\* Nobody counts the children, the members of o any more.
Closed(o) == Gone(o) \/ AtStep(o, {"count members", "delete org"})
Sealed(o) == Gone(o) \/ AtStep(o, {"delete org"})

Memberships(u, o) == {m \in members : m[1] = u /\ m[2] = o}
Inserting(u, o) ==
  {w \in Workers : pc[w] = "insert member" /\ req[w].to = u /\ req[w].id = o}

ChildrenKnown(o) == Closed(o) => \A c \in Children(o) : <<"child", c, o>> \in late
MembersKnown(o) == Sealed(o) => \A m \in MembersOf(o) : <<"member", m[1], o>> \in late

\* The requests that have found no membership are counted with the memberships.
FewMemberships(u, o) ==
  Cardinality(Memberships(u, o)) + Cardinality(Inserting(u, o)) <= Cardinality(Workers)

OrgsInv ==
  /\ Serving /\ IsFiniteSet(members) /\ orgs \in [OrgIds -> OrgRow]
  /\ area # "orgs" => members = {} /\ \A o \in OrgIds : orgs[o].status = "none"
  /\ area = "orgs" =>
       /\ \A w \in Workers : OrgHeld(w)
       /\ NoFault => \A o \in OrgIds :
            ChildrenKnown(o) /\ MembersKnown(o) /\ \A u \in Members : FewMemberships(u, o)

\* The sets that are counted are finite.
LEMMA CountedMembers ==
  ASSUME IsFiniteSet(members), NEW u, NEW o
  PROVE  /\ IsFiniteSet(Memberships(u, o)) /\ Cardinality(Memberships(u, o)) \in Nat
         /\ IsFiniteSet(Inserting(u, o)) /\ Cardinality(Inserting(u, o)) \in Nat
         /\ Cardinality(Inserting(u, o)) <= Cardinality(Workers) /\ Cardinality(Workers) \in Nat
BY WorkersAssumption, FS_Subset, FS_CardinalityType DEF Memberships, Inserting

LEMMA FewKept ==
  ASSUME IsFiniteSet(members), NEW u, NEW o, FewMemberships(u, o),
         Memberships(u, o)' \subseteq Memberships(u, o), Inserting(u, o)' \subseteq Inserting(u, o)
  PROVE  FewMemberships(u, o)'
<1>1. /\ Cardinality(Memberships(u, o)') <= Cardinality(Memberships(u, o))
      /\ Cardinality(Inserting(u, o)') <= Cardinality(Inserting(u, o))
      /\ Cardinality(Memberships(u, o)') \in Nat /\ Cardinality(Inserting(u, o)') \in Nat
  BY CountedMembers, FS_Subset, FS_CardinalityType
<1>2. QED
  BY <1>1, CountedMembers DEF FewMemberships

LEMMA FewWithout ==
  ASSUME NEW u, NEW o, Memberships(u, o)' = {}
  PROVE  FewMemberships(u, o)'
<1>1. /\ Cardinality(Inserting(u, o)') <= Cardinality(Workers)
      /\ Cardinality(Inserting(u, o)') \in Nat /\ Cardinality(Workers) \in Nat
  BY WorkersAssumption, FS_Subset, FS_CardinalityType DEF Inserting
<1>2. Cardinality(Memberships(u, o)') = 0
  BY FS_EmptySet
<1>3. QED
  BY <1>1, <1>2 DEF FewMemberships

\* The other requests hold what they held, and count what they counted.
LEMMA OthersHeld ==
  ASSUME OrgsInv, area = "orgs", NEW w \in Workers, Alone(w), OrgHeld(w)'
  PROVE  /\ \A v \in Workers : OrgHeld(v)'
         /\ \A o, steps : pc'[w] \notin steps => (AtStep(o, steps)' => AtStep(o, steps))
         /\ pc'[w] # "insert member" => \A u, o : Inserting(u, o)' \subseteq Inserting(u, o)
BY DEF OrgsInv, OrgHeld, Alone, AtStep, Inserting

\* A request moves, the rows do not: it counts nothing, or has counted none.
LEMMA OrgsMoved ==
  ASSUME OrgsInv, area = "orgs", Serving', NEW w \in Workers, Alone(w), NoFault' => NoFault,
         UNCHANGED <<area, orgs, members, late>>, OrgHeld(w)',
         NoFault' /\ pc'[w] = "count members" => Children(req'[w].id) = {},
         NoFault' /\ pc'[w] = "delete org" =>
           pc[w] = "count members" /\ req'[w] = req[w] /\ MembersOf(req[w].id) = {},
         NoFault' /\ pc'[w] = "insert member" => Memberships(req'[w].to, req'[w].id) = {}
  PROVE  OrgsInv'
<1>1. \A v \in Workers : OrgHeld(v)'
  BY OthersHeld
<1>2. ASSUME NoFault', NEW o \in OrgIds
      PROVE  ChildrenKnown(o)' /\ MembersKnown(o)'
  <2>1. ChildrenKnown(o) /\ MembersKnown(o)
    BY <1>2 DEF OrgsInv
  <2>2. Children(o)' = Children(o) /\ MembersOf(o)' = MembersOf(o) /\ (Gone(o)' <=> Gone(o))
    BY DEF Children, LiveOrg, MembersOf, Gone
  <2>3. \A v \in Workers : v # w => pc'[v] = pc[v] /\ req'[v] = req[v]
    BY DEF Alone
  <2>4. Closed(o)' => Closed(o) \/ Children(o) = {}
    <3>1. SUFFICES ASSUME AtStep(o, {"count members", "delete org"})'
                   PROVE  Closed(o) \/ Children(o) = {}
      BY <2>2 DEF Closed
    <3>2. PICK v \in Workers :
            pc'[v] \in {"count members", "delete org"} /\ req'[v].op = "DeleteOrg" /\ req'[v].id = o
      BY <3>1 DEF AtStep
    <3>3. QED
      BY <1>2, <2>3, <3>2 DEF Closed, AtStep
  <2>5. Sealed(o)' => Sealed(o) \/ MembersOf(o) = {}
    <3>1. SUFFICES ASSUME AtStep(o, {"delete org"})'
                   PROVE  Sealed(o) \/ MembersOf(o) = {}
      BY <2>2 DEF Sealed
    <3>2. PICK v \in Workers :
            pc'[v] = "delete org" /\ req'[v].op = "DeleteOrg" /\ req'[v].id = o
      BY <3>1 DEF AtStep
    <3>3. QED
      BY <1>2, <2>3, <3>2 DEF Sealed, AtStep
  <2>6. QED
    BY <2>1, <2>2, <2>4, <2>5 DEF ChildrenKnown, MembersKnown
<1>3. ASSUME NoFault', NEW o \in OrgIds, NEW u \in Members
      PROVE  FewMemberships(u, o)'
  <2>1. FewMemberships(u, o) /\ IsFiniteSet(members) /\ Memberships(u, o)' = Memberships(u, o)
    BY <1>3 DEF OrgsInv, Memberships
  <2>2. CASE pc'[w] = "insert member" /\ req'[w].to = u /\ req'[w].id = o
    <3>1. Memberships(u, o)' = {}
      BY <1>3, <2>1, <2>2
    <3>2. QED
      BY <3>1, FewWithout
  <2>3. CASE ~(pc'[w] = "insert member" /\ req'[w].to = u /\ req'[w].id = o)
    <3>1. Inserting(u, o)' \subseteq Inserting(u, o)
      BY <2>3 DEF Inserting, Alone
    <3>2. QED
      BY <2>1, <3>1, FewKept
  <2>4. QED
    BY <2>2, <2>3
<1>4. QED
  BY <1>1, <1>2, <1>3 DEF OrgsInv, OrgRow

\* A row gets a parent: nobody but the request that attaches it moves.
LEMMA AttachedKeeps ==
  ASSUME OrgsInv, area = "orgs", Serving', NEW w \in Workers, Alone(w), Well, pc'[w] = "audit",
         UNCHANGED <<area, members>>, orgs' \in [OrgIds -> OrgRow], late \subseteq late',
         \A o \in OrgIds : orgs'[o].status = "deleted" <=> orgs[o].status = "deleted",
         \A o \in OrgIds : \A c \in Children(o)' :
           c \in Children(o) \/ (Closed(o) => <<"child", c, o>> \in late')
  PROVE  OrgsInv'
<1>1. NoFault' <=> NoFault
  BY DEF Well, NoFault
<1>2. /\ \A v \in Workers : OrgHeld(v)'
      /\ \A o : AtStep(o, {"count members", "delete org"})' => AtStep(o, {"count members", "delete org"})
      /\ \A o : AtStep(o, {"delete org"})' => AtStep(o, {"delete org"})
      /\ \A u, o : Inserting(u, o)' \subseteq Inserting(u, o)
  BY OthersHeld DEF OrgHeld
<1>3. ASSUME NoFault, NEW o \in OrgIds
      PROVE  ChildrenKnown(o)' /\ MembersKnown(o)'
  <2>1. ChildrenKnown(o) /\ MembersKnown(o)
    BY <1>3 DEF OrgsInv
  <2>2. /\ Closed(o)' => Closed(o)
        /\ Sealed(o)' => Sealed(o)
        /\ MembersOf(o)' = MembersOf(o)
    BY <1>2 DEF Closed, Sealed, Gone, MembersOf
  <2>3. ChildrenKnown(o)'
    BY <2>1, <2>2 DEF ChildrenKnown
  <2>4. MembersKnown(o)'
    BY <2>1, <2>2 DEF MembersKnown
  <2>5. QED
    BY <2>3, <2>4
<1>4. ASSUME NoFault, NEW o \in OrgIds, NEW u \in Members
      PROVE  FewMemberships(u, o)'
  <2>1. FewMemberships(u, o) /\ IsFiniteSet(members) /\ Memberships(u, o)' = Memberships(u, o)
    BY <1>4 DEF OrgsInv, Memberships
  <2>2. QED
    BY <1>2, <2>1, FewKept
<1>5. QED
  BY <1>1, <1>2, <1>3, <1>4 DEF OrgsInv

LEMMA CreateOrgKeeps ==
  ASSUME OrgsInv, area = "orgs", area' = area, NEW w \in Workers, NEW parent \in OrgIds \cup {0},
         CreateOrg(w, parent)
  PROVE  OrgsInv'
<1> DEFINE free == {o \in OrgIds : orgs[o].status = "none"}
           o == CHOOSE i \in free : \A p \in free : i <= p
           row == [status |-> "live", parent |-> parent]
<1>1. /\ free # {}
      /\ orgs' = [orgs EXCEPT ![o] = row] /\ members' = members /\ Attached(o, parent)
      /\ Start(w, "audit", Call("CreateOrg", o, NoOrg, parent))
  BY DEF CreateOrg
<1>2. o \in free
  <2>1. free \subseteq Nat
    BY OrgIdsAssumption, FS_CardinalityType
  <2>2. QED
    BY <1>1, <2>1, LeastFree
<1>3. o \in OrgIds /\ orgs[o].status = "none" /\ row \in OrgRow
  BY <1>2 DEF OrgRow
<1>4. row.status = "live" /\ row.parent = parent
  OBVIOUS
<1> HIDE DEF o, row
<1>5. Serving' /\ Alone(w) /\ Well /\ pc'[w] = "audit"
  BY <1>1, StartMoves DEF OrgsInv
<1>6. /\ orgs' \in [OrgIds -> OrgRow] /\ orgs'[o] = row
      /\ \A i \in OrgIds : i # o => orgs'[i] = orgs[i]
  BY <1>1, <1>3 DEF OrgsInv
<1>7. /\ \A i \in OrgIds : orgs'[i].status = "deleted" <=> orgs[i].status = "deleted"
      /\ \A i \in OrgIds : \A c \in Children(i)' : c \in Children(i) \/ (c = o /\ i = parent)
  BY <1>3, <1>4, <1>6 DEF Children, LiveOrg
<1>8. late \subseteq late' /\ (Closed(parent) => <<"child", o, parent>> \in late')
  BY <1>1 DEF Attached, Closed
<1>9. QED
  BY <1>1, <1>5, <1>6, <1>7, <1>8, AttachedKeeps

LEMMA SetParentKeeps ==
  ASSUME OrgsInv, area = "orgs", area' = area, NEW w \in Workers, SetParent(w)
  PROVE  OrgsInv'
<1> DEFINE o == req[w].id
           parent == req[w].to
           row == [orgs[o] EXCEPT !.parent = parent]
<1>1. /\ Serving' /\ Alone(w) /\ Well /\ pc[w] = "update org" /\ pc'[w] = "audit"
  BY ProceedMoves DEF SetParent, Executed, OrgsInv
<1>2. o \in OrgIds /\ parent \in OrgIds \cup {0}
  BY <1>1 DEF OrgsInv, OrgHeld
<1>3. CASE LiveOrg(o)
  <2>1. orgs' = [orgs EXCEPT ![o] = row] /\ members' = members /\ Attached(o, parent)
    BY <1>3 DEF SetParent
  <2>2. row \in OrgRow /\ row.status = orgs[o].status /\ row.parent = parent
    BY <1>2 DEF OrgsInv, OrgRow
  <2> HIDE DEF o, parent, row
  <2>3. /\ orgs' \in [OrgIds -> OrgRow] /\ orgs'[o] = row
        /\ \A i \in OrgIds : i # o => orgs'[i] = orgs[i]
    BY <1>2, <2>1, <2>2 DEF OrgsInv
  <2>4. /\ \A i \in OrgIds : orgs'[i].status = "deleted" <=> orgs[i].status = "deleted"
        /\ \A i \in OrgIds : \A c \in Children(i)' : c \in Children(i) \/ (c = o /\ i = parent)
    BY <2>2, <2>3 DEF Children, LiveOrg
  <2>5. late \subseteq late' /\ (Closed(parent) => <<"child", o, parent>> \in late')
    BY <2>1 DEF Attached, Closed
  <2>6. QED
    BY <1>1, <2>1, <2>3, <2>4, <2>5, AttachedKeeps
<1>4. CASE ~LiveOrg(o)
  <2>1. UNCHANGED <<area, orgs, members, late>>
    BY <1>4 DEF SetParent
  <2>2. OrgHeld(w)' /\ (NoFault' => NoFault)
    BY <1>1 DEF OrgHeld, Well, NoFault
  <2>3. QED
    BY <1>1, <2>1, <2>2, OrgsMoved
<1>5. QED
  BY <1>3, <1>4

\* A membership is one of those its request was counted among.
LEMMA InsertMemberKeeps ==
  ASSUME OrgsInv, area = "orgs", area' = area, NEW w \in Workers, InsertMember(w)
  PROVE  OrgsInv'
<1> DEFINE o == req[w].id
           u == req[w].to
           m == <<u, o, req[w].serial>>
<1>1. /\ Serving' /\ Alone(w) /\ Well /\ pc[w] = "insert member" /\ pc'[w] = "audit"
      /\ members' = members \cup {m} /\ orgs' = orgs
      /\ late' = IF Sealed(o) THEN late \cup {<<"member", u, o>>} ELSE late
  BY ProceedMoves DEF InsertMember, Executed, OrgsInv, Sealed
<1>2. m[1] = u /\ m[2] = o
  OBVIOUS
<1>3. o \in OrgIds
  BY <1>1 DEF OrgsInv, OrgHeld
<1>4. /\ NoFault' <=> NoFault
      /\ IsFiniteSet(members) /\ IsFiniteSet(members')
  BY <1>1, FS_AddElement DEF Well, NoFault, OrgsInv
<1> HIDE DEF m
<1>5. /\ \A v \in Workers : OrgHeld(v)'
      /\ \A i : AtStep(i, {"count members", "delete org"})' => AtStep(i, {"count members", "delete org"})
      /\ \A i : AtStep(i, {"delete org"})' => AtStep(i, {"delete org"})
      /\ \A x, i : Inserting(x, i)' \subseteq Inserting(x, i)
  BY <1>1, OthersHeld DEF OrgHeld
<1>6. ASSUME NoFault, NEW i \in OrgIds
      PROVE  ChildrenKnown(i)' /\ MembersKnown(i)'
  <2>1. ChildrenKnown(i) /\ MembersKnown(i)
    BY <1>6 DEF OrgsInv
  <2>2. /\ Closed(i)' => Closed(i)
        /\ Sealed(i)' => Sealed(i)
        /\ Children(i)' = Children(i)
    BY <1>1, <1>5 DEF Closed, Sealed, Gone, Children, LiveOrg
  <2>3. late \subseteq late'
    BY <1>1
  <2>4. ChildrenKnown(i)'
    BY <2>1, <2>2, <2>3 DEF ChildrenKnown
  <2>5. MembersKnown(i)'
    BY <1>1, <1>2, <2>1, <2>2, <2>3 DEF MembersKnown, MembersOf
  <2>6. QED
    BY <2>4, <2>5
<1>7. ASSUME NoFault, NEW i \in OrgIds, NEW x \in Members
      PROVE  FewMemberships(x, i)'
  <2>1. FewMemberships(x, i)
    BY <1>7 DEF OrgsInv
  <2>2. CASE x = u /\ i = o
    <3>1. Memberships(x, i)' \subseteq Memberships(x, i) \cup {m}
      BY <1>1 DEF Memberships
    <3>2. Inserting(x, i)' \subseteq Inserting(x, i) \ {w} /\ w \in Inserting(x, i)
      <4>1. w \notin Inserting(x, i)'
        BY <1>1 DEF Inserting
      <4>2. w \in Inserting(x, i)
        BY <1>1, <2>2 DEF Inserting
      <4>3. QED
        BY <1>5, <4>1, <4>2
    <3>3. /\ IsFiniteSet(Memberships(x, i) \cup {m})
          /\ Cardinality(Memberships(x, i) \cup {m}) <= Cardinality(Memberships(x, i)) + 1
      <4>1. /\ IsFiniteSet(Memberships(x, i) \cup {m})
            /\ Cardinality(Memberships(x, i) \cup {m}) =
                 IF m \in Memberships(x, i) THEN Cardinality(Memberships(x, i))
                                            ELSE Cardinality(Memberships(x, i)) + 1
        BY <1>4, CountedMembers, FS_AddElement
      <4>2. QED
        BY <1>4, <4>1, CountedMembers
    <3>4. /\ Cardinality(Memberships(x, i)') <= Cardinality(Memberships(x, i)) + 1
          /\ Cardinality(Memberships(x, i)') \in Nat
      <4>1. /\ IsFiniteSet(Memberships(x, i)')
            /\ Cardinality(Memberships(x, i)') <= Cardinality(Memberships(x, i) \cup {m})
        BY <3>1, <3>3, FS_Subset
      <4>2. Cardinality(Memberships(x, i)') \in Nat /\ Cardinality(Memberships(x, i) \cup {m}) \in Nat
        BY <3>3, <4>1, FS_CardinalityType
      <4>3. QED
        BY <1>4, <3>3, <4>1, <4>2, CountedMembers
    <3>5. /\ Cardinality(Inserting(x, i)') <= Cardinality(Inserting(x, i)) - 1
          /\ Cardinality(Inserting(x, i)') \in Nat
      <4>1. /\ IsFiniteSet(Inserting(x, i) \ {w})
            /\ Cardinality(Inserting(x, i) \ {w}) = Cardinality(Inserting(x, i)) - 1
        BY <1>4, <3>2, CountedMembers, FS_RemoveElement
      <4>2. QED
        BY <3>2, <4>1, FS_Subset, FS_CardinalityType
    <3>6. QED
      BY <1>4, <2>1, <3>4, <3>5, CountedMembers DEF FewMemberships
  <2>3. CASE ~(x = u /\ i = o)
    <3>1. Memberships(x, i)' \subseteq Memberships(x, i)
      BY <1>1, <1>2, <2>3 DEF Memberships
    <3>2. QED
      BY <1>4, <1>5, <2>1, <3>1, FewKept
  <2>4. QED
    BY <2>2, <2>3
<1>8. QED
  BY <1>1, <1>4, <1>5, <1>6, <1>7 DEF OrgsInv

\* The children and the members of a deleted organisation were known when it was deleted.
LEMMA DeleteOrgRowKeeps ==
  ASSUME OrgsInv, area = "orgs", area' = area, NEW w \in Workers, DeleteOrgRow(w)
  PROVE  OrgsInv'
<1> DEFINE o == req[w].id
           row == [orgs[o] EXCEPT !.status = "deleted"]
<1>1. /\ Serving' /\ Alone(w) /\ Well /\ pc[w] = "delete org" /\ pc'[w] = "audit"
      /\ orgs' = [orgs EXCEPT ![o] = row] /\ UNCHANGED <<members, late>>
  BY ProceedMoves DEF DeleteOrgRow, Executed, OrgsInv
<1>2. o \in OrgIds /\ AtStep(o, {"delete org"}) /\ AtStep(o, {"count members", "delete org"})
  BY <1>1 DEF OrgsInv, OrgHeld, AtStep
<1>3. row \in OrgRow /\ row.status = "deleted" /\ row.parent = orgs[o].parent
  BY <1>2 DEF OrgsInv, OrgRow
<1> HIDE DEF o, row
<1>4. /\ orgs' \in [OrgIds -> OrgRow] /\ orgs'[o] = row
      /\ \A i \in OrgIds : i # o => orgs'[i] = orgs[i]
  BY <1>1, <1>2, <1>3 DEF OrgsInv
<1>5. NoFault' <=> NoFault
  BY <1>1 DEF Well, NoFault
<1>6. /\ \A v \in Workers : OrgHeld(v)'
      /\ \A i : AtStep(i, {"count members", "delete org"})' => AtStep(i, {"count members", "delete org"})
      /\ \A i : AtStep(i, {"delete org"})' => AtStep(i, {"delete org"})
      /\ \A x, i : Inserting(x, i)' \subseteq Inserting(x, i)
  BY <1>1, OthersHeld DEF OrgHeld
<1>7. ASSUME NoFault, NEW i \in OrgIds
      PROVE  ChildrenKnown(i)' /\ MembersKnown(i)'
  <2>1. ChildrenKnown(i) /\ MembersKnown(i)
    BY <1>7 DEF OrgsInv
  <2>2. /\ Closed(i)' => Closed(i)
        /\ Sealed(i)' => Sealed(i)
    BY <1>2, <1>4, <1>6 DEF Closed, Sealed, Gone
  <2>3. Children(i)' \subseteq Children(i) /\ MembersOf(i)' = MembersOf(i)
    BY <1>1, <1>3, <1>4 DEF Children, LiveOrg, MembersOf
  <2>4. ChildrenKnown(i)'
    BY <1>1, <2>1, <2>2, <2>3 DEF ChildrenKnown
  <2>5. MembersKnown(i)'
    BY <1>1, <2>1, <2>2, <2>3 DEF MembersKnown
  <2>6. QED
    BY <2>4, <2>5
<1>8. ASSUME NoFault, NEW i \in OrgIds, NEW u \in Members
      PROVE  FewMemberships(u, i)'
  <2>1. FewMemberships(u, i) /\ IsFiniteSet(members) /\ Memberships(u, i)' = Memberships(u, i)
    BY <1>1, <1>8 DEF OrgsInv, Memberships
  <2>2. QED
    BY <1>6, <2>1, FewKept
<1>9. QED
  BY <1>1, <1>4, <1>5, <1>6, <1>7, <1>8 DEF OrgsInv

\* The statements that write no row.
LEMMA OrgReadKeeps ==
  ASSUME OrgsInv, area = "orgs", area' = area, NEW w \in Workers,
         UNCHANGED <<orgs, members, late>>,
         NEW p, NEW op, NEW id \in OrgIds, NEW row, NEW to, Start(w, p, Call(op, id, row, to)),
         \/ p = "update org" /\ to \in OrgIds \cup {0}
         \/ p = "look up member"
         \/ p = "count children" /\ op = "DeleteOrg"
  PROVE  OrgsInv'
<1>1. /\ Serving' /\ Alone(w) /\ pc'[w] = p
      /\ req'[w].op = op /\ req'[w].id = id /\ req'[w].to = to
      /\ NoFault' => NoFault
  <2>1. Serving
    BY DEF OrgsInv
  <2>2. QED
    BY <2>1, CallMoves
<1>2. OrgHeld(w)'
  BY <1>1 DEF OrgHeld
<1>3. p \notin {"count members", "delete org", "insert member"}
  OBVIOUS
<1>4. QED
  BY <1>1, <1>2, <1>3, OrgsMoved

LEMMA OrgReadsKeep ==
  ASSUME OrgsInv, area = "orgs", area' = area, NEW w \in Workers, NEW o \in OrgIds,
         \/ DeleteOrg(w, o)
         \/ \E parent \in OrgIds \cup {0} : UpdateOrg(w, o, parent)
         \/ \E u \in Members : AddOrgMember(w, o, u)
  PROVE  OrgsInv'
<1> USE DEF orgVars
<1>1. CASE DeleteOrg(w, o)
  <2>1. PICK row : Start(w, "count children", Call("DeleteOrg", o, row, 0))
    BY <1>1 DEF DeleteOrg
  <2>2. UNCHANGED <<orgs, members, late>>
    BY <1>1 DEF DeleteOrg
  <2>3. QED
    BY <2>1, <2>2, OrgReadKeeps
<1>2. ASSUME NEW parent \in OrgIds \cup {0}, UpdateOrg(w, o, parent)
      PROVE  OrgsInv'
  <2>1. PICK row : Start(w, "update org", Call("UpdateOrg", o, row, parent))
    BY <1>2 DEF UpdateOrg
  <2>2. UNCHANGED <<orgs, members, late>>
    BY <1>2 DEF UpdateOrg
  <2>3. QED
    BY <2>1, <2>2, OrgReadKeeps
<1>3. ASSUME NEW u \in Members, AddOrgMember(w, o, u)
      PROVE  OrgsInv'
  <2>1. PICK row : Start(w, "look up member", Call("AddOrgMember", o, row, u))
    BY <1>3 DEF AddOrgMember
  <2>2. UNCHANGED <<orgs, members, late>>
    BY <1>3 DEF AddOrgMember
  <2>3. QED
    BY <2>1, <2>2, OrgReadKeeps
<1>4. QED
  BY <1>1, <1>2, <1>3

\* A count that sees none goes on, a lookup that sees none goes on.
LEMMA OrgCountsKeep ==
  ASSUME OrgsInv, area = "orgs", area' = area, NEW w \in Workers,
         LookUpMember(w) \/ CountChildren(w) \/ CountMembers(w)
  PROVE  OrgsInv'
<1>1. Serving /\ OrgHeld(w) /\ UNCHANGED <<area, orgs, members, late>>
  BY DEF OrgsInv, LookUpMember, CountChildren, CountMembers, orgVars
<1>2. ASSUME NEW q, NEW p, Proceed(w, p, q),
             \/ /\ p = "look up member"
                /\ q = "idle" \/ (q = "insert member" /\ Memberships(req[w].to, req[w].id) = {})
             \/ /\ p = "count children"
                /\ q = "idle" \/ (q = "count members" /\ Children(req[w].id) = {})
             \/ /\ p = "count members"
                /\ q = "idle" \/ (q = "delete org" /\ MembersOf(req[w].id) = {})
      PROVE  OrgsInv'
  <2>1. /\ Serving' /\ Alone(w) /\ Well /\ pc[w] = p /\ pc'[w] = q
        /\ q # "idle" => req'[w] = req[w]
    BY <1>1, <1>2, ProceedMoves
  <2>2. OrgHeld(w)' /\ (NoFault' => NoFault)
    BY <1>1, <1>2, <2>1 DEF OrgHeld, Well, NoFault
  <2>3. QED
    BY <1>1, <1>2, <2>1, <2>2, OrgsMoved
<1>3. CASE CountChildren(w)
  BY <1>2, <1>3 DEF CountChildren
<1>4. CASE CountMembers(w)
  BY <1>2, <1>4 DEF CountMembers
<1>5. CASE Proceed(w, "look up member",
             IF \E m \in MembersOf(req[w].id) : m[1] = req[w].to THEN "idle" ELSE "insert member")
  BY <1>2, <1>5 DEF MembersOf, Memberships
<1>6. CASE ProceedFailed(w, "look up member", "insert member")
  <2>1. /\ Serving' /\ Alone(w) /\ Ill /\ pc[w] = "look up member" /\ pc'[w] = "insert member"
        /\ req'[w] = req[w]
    BY <1>1, <1>6, ProceedFailedMoves
  <2>2. OrgHeld(w)'
    BY <1>1, <2>1 DEF OrgHeld
  <2>3. ~NoFault'
    BY <1>1, <2>1, IllFaults
  <2>4. QED
    BY <1>1, <2>1, <2>2, <2>3, OrgsMoved
<1>7. QED
  BY <1>3, <1>4, <1>5, <1>6 DEF LookUpMember

\* A statement that fails answers, or goes on as if it had counted none.
LEMMA OrgFailuresKeep ==
  ASSUME OrgsInv, area = "orgs", area' = area, NEW w \in Workers,
         SetParentFails(w) \/ InsertMemberFails(w) \/ CountFails(w) \/ DeleteOrgFails(w)
  PROVE  OrgsInv'
<1>1. Serving /\ OrgHeld(w) /\ UNCHANGED <<area, orgs, members, late>>
  BY DEF OrgsInv, SetParentFails, InsertMemberFails, CountFails, DeleteOrgFails, orgVars
<1>2. PICK p, q : /\ ProceedFailed(w, p, q)
                  /\ \/ q = "idle"
                     \/ p = "count children" /\ q = "count members"
                     \/ p = "count members" /\ q = "delete org"
  BY DEF SetParentFails, InsertMemberFails, CountFails, DeleteOrgFails
<1>3. /\ Serving' /\ Alone(w) /\ Ill /\ pc[w] = p /\ pc'[w] = q
      /\ q # "idle" => req'[w] = req[w]
  BY <1>1, <1>2, ProceedFailedMoves
<1>4. OrgHeld(w)'
  BY <1>1, <1>2, <1>3 DEF OrgHeld
<1>5. ~NoFault'
  BY <1>1, <1>3, IllFaults
<1>6. QED
  BY <1>1, <1>3, <1>4, <1>5, OrgsMoved

\* Every step keeps the organisations.
LEMMA StepOrgs ==
  ASSUME OrgsInv, [Next]_vars
  PROVE  OrgsInv'
<1>1. Serving /\ Serving' /\ (NoFault' => NoFault)
  BY StepServing, FaultsStay DEF OrgsInv
<1>2. CASE Orgs
  <2>1. area = "orgs" /\ area' = area /\ OrgsNext
    BY <1>2 DEF Orgs
  <2>2. QED
    BY <2>1, CreateOrgKeeps, OrgReadsKeep, SetParentKeeps, InsertMemberKeeps, DeleteOrgRowKeeps,
       OrgCountsKeep, OrgFailuresKeep
       DEF OrgsNext
<1>3. CASE UNCHANGED <<area, orgs, members, late>> /\ area # "orgs"
  BY <1>1, <1>3 DEF OrgsInv, OrgRow
<1>4. CASE Log /\ area = "orgs"
  <2>1. PICK w \in Workers : Audit(w) \/ AuditFails(w)
    BY <1>4 DEF Log, ConsoleNext
  <2>2. Alone(w) /\ pc'[w] = "idle"
    BY <1>1, <2>1, ProceedMoves, ProceedFailedMoves DEF Audit, AuditFails
  <2>3. UNCHANGED <<area, orgs, members, late>>
    BY <1>4 DEF Log, orgVars
  <2>4. OrgHeld(w)'
    BY <2>2 DEF OrgHeld
  <2>5. QED
    BY <1>1, <1>4, <2>2, <2>3, <2>4, OrgsMoved
<1>5. CASE Crash /\ area = "orgs"
  <2>1. /\ \A v \in Workers : pc'[v] = "idle"
        /\ UNCHANGED <<area, orgs, members, late>>
    BY <1>1, <1>5, CrashMoves DEF Crash, orgVars
  <2>2. /\ \A v \in Workers : OrgHeld(v)'
        /\ \A o, steps : "idle" \notin steps => ~AtStep(o, steps)'
        /\ \A u, o : Inserting(u, o)' \subseteq Inserting(u, o)
    BY <2>1 DEF OrgHeld, AtStep, Inserting
  <2>3. ASSUME NoFault, NEW o \in OrgIds
        PROVE  ChildrenKnown(o)' /\ MembersKnown(o)'
    <3>1. ChildrenKnown(o) /\ MembersKnown(o)
      BY <1>5, <2>3 DEF OrgsInv
    <3>2. /\ Closed(o)' => Closed(o)
          /\ Sealed(o)' => Sealed(o)
          /\ Children(o)' = Children(o) /\ MembersOf(o)' = MembersOf(o)
      BY <2>1, <2>2 DEF Closed, Sealed, Gone, Children, LiveOrg, MembersOf
    <3>3. QED
      BY <2>1, <3>1, <3>2 DEF ChildrenKnown, MembersKnown
  <2>4. ASSUME NoFault, NEW o \in OrgIds, NEW u \in Members
        PROVE  FewMemberships(u, o)'
    <3>1. FewMemberships(u, o) /\ IsFiniteSet(members) /\ Memberships(u, o)' = Memberships(u, o)
      BY <1>5, <2>1, <2>4 DEF OrgsInv, Memberships
    <3>2. QED
      BY <2>2, <3>1, FewKept
  <2>5. QED
    BY <1>1, <1>5, <2>1, <2>2, <2>3, <2>4 DEF OrgsInv, OrgRow
<1>6. CASE UNCHANGED vars
  <2>1. UNCHANGED <<area, pc, req, orgs, members, late>>
    BY <1>6 DEF vars, orgVars, requestVars
  <2>2. /\ \A w \in Workers : OrgHeld(w)' <=> OrgHeld(w)
        /\ \A o : ChildrenKnown(o)' <=> ChildrenKnown(o)
        /\ \A o : MembersKnown(o)' <=> MembersKnown(o)
    BY <2>1 DEF OrgHeld, ChildrenKnown, MembersKnown, Closed, Sealed, Gone, AtStep, Children,
                LiveOrg, MembersOf
  <2>3. \A u, o : FewMemberships(u, o)' <=> FewMemberships(u, o)
    BY <2>1 DEF FewMemberships, Memberships, Inserting
  <2>4. QED
    BY <1>1, <2>1, <2>2, <2>3 DEF OrgsInv, OrgRow
<1>7. CASE Keys \/ Nodes \/ Configs
  BY <1>3, <1>7 DEF Keys, Nodes, Configs, orgVars
<1>8. CASE (Log \/ Crash) /\ area # "orgs"
  BY <1>3, <1>8 DEF Log, Crash, orgVars
<1>9. QED
  BY <1>2, <1>4, <1>5, <1>6, <1>7, <1>8 DEF Next

\* A deleted organisation keeps no child and no member, unless a count failed or it was
\* attached behind the count's back; and no user has more memberships of an organisation
\* than requests are served at once.
THEOREM NoOrphansCorrect == Spec => []NoOrphans
<1>1. Init => OrgsInv
  <2> SUFFICES ASSUME Init PROVE OrgsInv
    OBVIOUS
  <2>1. Serving /\ \A w \in Workers : pc[w] = "idle"
    BY InitServing DEF Quiet
  <2>2. orgs = [o \in OrgIds |-> NoOrg] /\ members = {}
    BY DEF Init, OrgsInit
  <2>3. orgs \in [OrgIds -> OrgRow] /\ \A o \in OrgIds : orgs[o].status = "none"
    BY <2>2 DEF NoOrg, OrgRow
  <2>4. \A w \in Workers : OrgHeld(w)
    BY <2>1 DEF OrgHeld
  <2>5. ASSUME NEW o \in OrgIds
        PROVE  ChildrenKnown(o) /\ MembersKnown(o) /\ \A u : FewMemberships(u, o)
    <3>1. ~Closed(o) /\ ~Sealed(o)
      BY <2>1, <2>3 DEF Closed, Sealed, Gone, AtStep
    <3>2. \A u : Memberships(u, o) = {} /\ Inserting(u, o) = {}
      BY <2>1, <2>2 DEF Memberships, Inserting
    <3>3. Cardinality(Workers) \in Nat
      BY WorkersAssumption, FS_CardinalityType
    <3>4. QED
      BY <3>1, <3>2, <3>3, FS_EmptySet DEF ChildrenKnown, MembersKnown, FewMemberships
  <2>6. IsFiniteSet(members)
    BY <2>2, FS_EmptySet
  <2>7. QED
    BY <2>1, <2>2, <2>3, <2>4, <2>5, <2>6 DEF OrgsInv
<1>2. OrgsInv /\ [Next]_vars => OrgsInv'
  BY StepOrgs
<1>3. OrgsInv => NoOrphans
  <2> SUFFICES ASSUME OrgsInv, NoFault, NEW o \in OrgIds
               PROVE  /\ orgs[o].status = "deleted" =>
                           /\ \A c \in Children(o) : <<"child", c, o>> \in late
                           /\ \A m \in MembersOf(o) : <<"member", m[1], o>> \in late
                      /\ \A u \in Members : Cardinality(Memberships(u, o)) <= Cardinality(Workers)
    BY DEF NoOrphans, Memberships
  <2>1. CASE area = "orgs"
    <3>1. ChildrenKnown(o) /\ MembersKnown(o) /\ \A u \in Members : FewMemberships(u, o)
      BY <2>1 DEF OrgsInv
    <3>2. \A u \in Members : Cardinality(Memberships(u, o)) <= Cardinality(Workers)
      BY <3>1, CountedMembers DEF OrgsInv, FewMemberships
    <3>3. QED
      BY <3>1, <3>2 DEF ChildrenKnown, MembersKnown, Closed, Sealed, Gone
  <2>2. CASE area # "orgs"
    <3>1. orgs[o].status = "none" /\ \A u : Memberships(u, o) = {}
      BY <2>2 DEF OrgsInv, Memberships
    <3>2. Cardinality(Workers) \in Nat
      BY WorkersAssumption, FS_CardinalityType
    <3>3. QED
      BY <3>1, <3>2, FS_EmptySet
  <2>3. QED
    BY <2>1, <2>2
<1>4. QED
  BY <1>1, <1>2, <1>3, PTL DEF Spec
=============================================================================
