----------------------------- MODULE OasConsole -----------------------------
(***************************************************************************)
(* The OAS console's process, whose requests share its crashes and its     *)
(* audit log.  API keys, federation nodes, system configuration and        *)
(* organisations share no table, so a behaviour exercises one of them.     *)
(***************************************************************************)
EXTENDS ApiKeys, FederationNodes, SystemConfig, Organisations

CONSTANT Areas \* the areas behaviours exercise: "keys", "nodes", "configs", "orgs"

VARIABLE area

vars == <<area, requestVars, consoleVars, keyVars, nodeVars, configVars, orgVars>>

Init ==
  /\ area \in Areas
  /\ RequestsInit /\ ConsoleInit /\ KeysInit /\ NodesInit /\ ConfigsInit /\ OrgsInit
  /\ area # "keys" => ~keys[1].expires

Keys == area = "keys" /\ KeysNext /\ UNCHANGED <<area, nodeVars, configVars, orgVars>>

Nodes == area = "nodes" /\ NodesNext /\ UNCHANGED <<area, keyVars, configVars, orgVars>>

Configs == area = "configs" /\ ConfigsNext /\ UNCHANGED <<area, keyVars, nodeVars, orgVars>>

Orgs == area = "orgs" /\ OrgsNext /\ UNCHANGED <<area, keyVars, nodeVars, configVars>>

Log == ConsoleNext /\ UNCHANGED <<area, keyVars, nodeVars, configVars, orgVars>>

\* The process dies with its requests, and is started again on its database.
Crash ==
  /\ CrashRequests
  /\ UNCHANGED <<area, consoleVars, keyVars, nodeVars, configVars, orgVars>>

Next == Keys \/ Nodes \/ Configs \/ Orgs \/ Log \/ Crash

Spec == Init /\ [][Next]_vars
=============================================================================
