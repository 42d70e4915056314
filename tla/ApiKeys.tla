------------------------------- MODULE ApiKeys -------------------------------
(***************************************************************************)
(* The API keys of the admin plane: their life cycle, and the requests     *)
(* they authenticate.  A key is looked up before bcrypt, and a rotation    *)
(* reads its key before the transaction, so what was read may be history   *)
(* when it is used.                                                        *)
(***************************************************************************)
EXTENDS ConsoleRequests

CONSTANT KeyIds \* primary keys, taken in order

ASSUME KeyIdsAssumption == IsFiniteSet(KeyIds) /\ KeyIds = 1..Cardinality(KeyIds)

VARIABLES
  keys,   \* the rows: status, expiry, whether the scopes allow writes, parent
  past,   \* whether the expiry of the keys that have one has come
  enabled \* history: Enable statements executed on each key

keyVars == <<keys, past, enabled>>

-----------------------------------------------------------------------------
NoKey == [status |-> "none", expires |-> FALSE, writes |-> FALSE, parent |-> 0]
LiveKey(k) == keys[k].status \notin {"none", "deleted"}
Expired(k) == keys[k].expires /\ past
FreeKeys == {k \in KeyIds : keys[k].status = "none"}
NewKey == CHOOSE k \in FreeKeys : \A j \in FreeKeys : k <= j

\* The first statement of a handler, under a JWT, or under a key that has been
\* admitted: both are on whitelist B.
Begin(w, next, r) ==
  \/ Start(w, next, r)
  \/ /\ pc[w] = "admitted"
     /\ pc' = [pc EXCEPT ![w] = next]
     /\ req' = [req EXCEPT ![w] = [r EXCEPT !.serial = req[w].serial]]
     /\ UNCHANGED budget

\* AdminAuth finds the key by its prefix, active and not expired.
AdminAuth(w, k) ==
  /\ keys[k].status = "active" /\ ~Expired(k)
  /\ Start(w, "compare", Call("AdminAuth", k, keys[k], keys[k]))
  /\ UNCHANGED <<keyVars, consoleVars>>

\* bcrypt takes its time; then APIKeyScopeGate looks at the scopes read.
Compare(w) ==
  /\ Proceed(w, "compare", IF req[w].row.writes THEN "admitted" ELSE "idle")
  /\ UNCHANGED <<keyVars, consoleVars>>

-----------------------------------------------------------------------------
CreateAPIKey(w, expires, writes) ==
  /\ Begin(w, "insert key", Call("CreateAPIKey", 0,
       [status |-> "active", expires |-> expires, writes |-> writes, parent |-> 0], "active"))
  /\ UNCHANGED <<keyVars, consoleVars>>

InsertKey(w) ==
  /\ Executed(w, "insert key") /\ FreeKeys # {}
  /\ keys' = [keys EXCEPT ![NewKey] = req[w].row]
  /\ UNCHANGED <<past, enabled>>

\* The INSERT fails, or the prefix, nanoseconds modulo 10000, is taken: the
\* answer, and the audit log, are that the key is created.
InsertKeyRefused(w) == Proceed(w, "insert key", "audit") /\ UNCHANGED <<keyVars, consoleVars>>

EnableAPIKey(w, k) ==
  /\ LiveKey(k) /\ ~Expired(k)
  /\ Begin(w, "set key", Call("EnableAPIKey", k, keys[k], "active"))
  /\ UNCHANGED <<keyVars, consoleVars>>

DisableAPIKey(w, k) ==
  /\ LiveKey(k)
  /\ Begin(w, "set key", Call("DisableAPIKey", k, keys[k], "disabled"))
  /\ UNCHANGED <<keyVars, consoleVars>>

DeleteAPIKey(w, k) ==
  /\ LiveKey(k)
  /\ Begin(w, "set key", Call("DeleteAPIKey", k, keys[k], "deleted"))
  /\ UNCHANGED <<keyVars, consoleVars>>

\* An UPDATE of the status column, or a soft deletion: both leave a row that
\* is deleted as it is.
SetKey(w) ==
  /\ Executed(w, "set key")
  /\ LET k == req[w].id
     IN /\ keys' = IF LiveKey(k) THEN [keys EXCEPT ![k].status = req[w].to] ELSE keys
        /\ enabled' = IF req[w].op = "EnableAPIKey" THEN [enabled EXCEPT ![k] = @ + 1] ELSE enabled
  /\ UNCHANGED past

SetKeyFails(w) == ExecutionFails(w, "set key") /\ UNCHANGED keyVars

\* Mutant: a key in any status is rotated.
RotateAPIKey_Any(w, k) ==
  /\ LiveKey(k)
  /\ Begin(w, "rotate", Call("RotateAPIKey", k, keys[k], "disabled"))
  /\ UNCHANGED <<keyVars, consoleVars>>

RotateAPIKey(w, k) ==
  /\ LiveKey(k) /\ keys[k].status = "active"
  /\ Begin(w, "rotate", Call("RotateAPIKey", k, keys[k], "disabled"))
  /\ UNCHANGED <<keyVars, consoleVars>>

\* The transaction: the old key, unless it has been deleted, is disabled, and
\* its successor is INSERTed with the scopes and expiry that were read.
RotateTransaction(w) ==
  /\ Executed(w, "rotate") /\ FreeKeys # {}
  /\ LET k == req[w].id
         old == IF LiveKey(k) THEN [keys EXCEPT ![k].status = "disabled"] ELSE keys
     IN keys' = [old EXCEPT ![NewKey] = [req[w].row EXCEPT !.status = "active", !.parent = k]]
  /\ UNCHANGED <<past, enabled>>

\* A statement fails, or the prefix is taken: both are rolled back.
RotateRollback(w) == Proceed(w, "rotate", "idle") /\ UNCHANGED <<keyVars, consoleVars>>

\* The error of Commit is not looked at: the new key is answered and audited.
RotateCommitFails(w) == ExecutionFails(w, "rotate") /\ UNCHANGED keyVars

Expire == ~past /\ past' = TRUE /\ UNCHANGED <<keys, enabled, requestVars, consoleVars>>

-----------------------------------------------------------------------------
\* One key has been created already.
KeysInit ==
  /\ keys \in {[k \in KeyIds |-> IF k = 1 THEN [NoKey EXCEPT !.status = "active", !.writes = TRUE,
                                                         !.expires = e] ELSE NoKey] : e \in BOOLEAN}
  /\ past = FALSE /\ enabled = [k \in KeyIds |-> 0]

KeysNext ==
  \/ \E w \in Workers, k \in KeyIds :
       \/ AdminAuth(w, k) \/ EnableAPIKey(w, k) \/ DisableAPIKey(w, k)
       \/ DeleteAPIKey(w, k) \/ RotateAPIKey(w, k)
  \/ \E w \in Workers, expires, writes \in BOOLEAN : CreateAPIKey(w, expires, writes)
  \/ \E w \in Workers :
       \/ Compare(w) \/ InsertKey(w) \/ InsertKeyRefused(w)
       \/ SetKey(w) \/ SetKeyFails(w)
       \/ RotateTransaction(w) \/ RotateRollback(w) \/ RotateCommitFails(w)
  \/ Expire

-----------------------------------------------------------------------------
Successors(k) == {j \in KeyIds : keys[j].parent = k}

\* A key may have several successors, the status being read outside the
\* transaction, and even after its deletion; but however many rotations are
\* asked for, there are no more than requests served at once, for the first
\* rotation disables the key and those that start later refuse it, until an
\* administrator enables it again.
SuccessorBound ==
  \A k \in KeyIds : Cardinality(Successors(k)) <= Cardinality(Workers) * (1 + enabled[k])
=============================================================================
