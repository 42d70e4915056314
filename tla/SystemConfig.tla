---------------------------- MODULE SystemConfig ----------------------------
(***************************************************************************)
(* The system configuration of the admin plane: one row per key, found by  *)
(* its key, whose index is unique among the rows that are soft-deleted     *)
(* too.  UpdateConfig looks at no error but that of First, which it takes  *)
(* for a key that has no row.                                              *)
(***************************************************************************)
EXTENDS ConsoleRequests

CONSTANTS ConfigKeys, \* the keys that keyBanned lets pass
          Encrypted   \* those whose row is encrypted, as stored beforehand

ASSUME EncryptedAssumption == Encrypted \subseteq ConfigKeys

VARIABLES
  configs,      \* the rows: state and value
  acknowledged, \* history: the value last answered to be stored, 0 for none
  suspect       \* history: keys whose row was deleted, or that were created twice at once

configVars == <<configs, acknowledged, suspect>>

-----------------------------------------------------------------------------
LiveConfig(k) == configs[k].state = "live"

\* Values are told apart by the request that sends them.
Creating(k) == \E w \in Workers : pc[w] = "save config" /\ req[w].id = k /\ req[w].row.state = "new"

UpdateConfig(w, k) ==
  \/ /\ LiveConfig(k) /\ k \notin Encrypted
     /\ Start(w, "save config", Call("UpdateConfig", k, configs[k], Serial))
     /\ UNCHANGED <<configVars, consoleVars>>
  \/ /\ \/ ~LiveConfig(k) /\ Start(w, "save config", Call("UpdateConfig", k, [state |-> "new", value |-> 0], Serial))
        \/ StartFailed(w, "save config", Call("UpdateConfig", k, [state |-> "new", value |-> 0], Serial))
     /\ suspect' = IF Creating(k) THEN suspect \cup {k} ELSE suspect
     /\ UNCHANGED <<configs, acknowledged, consoleVars>>

\* Mutant: the row is INSERTed, whether it was found or not.
SaveConfig_Insert(w) ==
  /\ Executed(w, "save config")
  /\ LET k == req[w].id
     IN /\ configs' = IF configs[k].state # "none" THEN configs
                      ELSE [configs EXCEPT ![k] = [state |-> "live", value |-> req[w].to]]
        /\ acknowledged' = [acknowledged EXCEPT ![k] = req[w].to]
  /\ UNCHANGED suspect

\* Save of a row that was found: all columns, and if the row has been deleted
\* since, it is brought back.  Save of a new row: an INSERT, which the index
\* refuses when there is a row, deleted or not.
SaveConfig(w) ==
  /\ Executed(w, "save config")
  /\ LET k == req[w].id
         refused == req[w].row.state = "new" /\ configs[k].state # "none"
     IN /\ configs' = IF refused THEN configs
                      ELSE [configs EXCEPT ![k] = [state |-> "live", value |-> req[w].to]]
        /\ acknowledged' = [acknowledged EXCEPT ![k] = req[w].to]
  /\ UNCHANGED suspect

SaveConfigFails(w) == ExecutionFails(w, "save config") /\ UNCHANGED configVars

\* An encrypted row can be deleted.
DeleteConfig(w, k) ==
  /\ LiveConfig(k) /\ Start(w, "delete config", Call("DeleteConfig", k, configs[k], 0))
  /\ UNCHANGED <<configVars, consoleVars>>

DeleteConfigRow(w) ==
  /\ Executed(w, "delete config")
  /\ LET k == req[w].id
     IN /\ configs' = [configs EXCEPT ![k].state = "deleted"]
        /\ acknowledged' = [acknowledged EXCEPT ![k] = 0]
        /\ suspect' = suspect \cup {k}

DeleteConfigFails(w) == ExecutionFails(w, "delete config") /\ UNCHANGED configVars

-----------------------------------------------------------------------------
ConfigsInit ==
  /\ configs = [k \in ConfigKeys |-> [state |-> IF k \in Encrypted THEN "live" ELSE "none", value |-> 0]]
  /\ acknowledged = [k \in ConfigKeys |-> 0] /\ suspect = {}

ConfigsNext ==
  \/ \E w \in Workers, k \in ConfigKeys : UpdateConfig(w, k) \/ DeleteConfig(w, k)
  \/ \E w \in Workers :
       SaveConfig(w) \/ SaveConfigFails(w) \/ DeleteConfigRow(w) \/ DeleteConfigFails(w)

-----------------------------------------------------------------------------
\* A value that an update has acknowledged is the one stored, through crashes
\* and overlapping updates, unless a statement failed, the key was created by
\* two requests at once, or its row has been deleted: from then on every
\* update of the key is acknowledged and lost, the index refusing the row.
\* The same index keeps an encrypted value, even when First fails and the
\* update takes the key for a new one.
ConfigAcknowledged ==
  \A k \in ConfigKeys :
    /\ NoFault /\ k \notin suspect /\ acknowledged[k] # 0 =>
         configs[k] = [state |-> "live", value |-> acknowledged[k]]
    /\ k \in Encrypted => configs[k].value = 0
=============================================================================
