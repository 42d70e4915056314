--------------------------- MODULE ConsoleRequests ---------------------------
(***************************************************************************)
(* The handlers of the OAS console: each has passed the gates of its       *)
(* route, reads a row with First, executes its statements one by one, and  *)
(* INSERTs an audit log row last.                                          *)
(***************************************************************************)
EXTENDS Requests

VARIABLE untold \* history: the <<request, operation, row>> executed and not in the audit log

consoleVars == <<untold>>

ConsoleInit == untold = {}

\* What a request holds: its operation, the key and the content of the row it
\* has read, and what it is going to write.
Call(op, id, row, to) ==
  [op |-> op, id |-> id, row |-> row, to |-> to, serial |-> Serial]

Entry(w) == <<req[w].serial, req[w].op, req[w].id>>

\* Mutant: the handler answers without an audit row.
Executed_Unaudited(w, step) == Proceed(w, step, "idle") /\ untold' = untold \cup {Entry(w)}

\* The request's statement has been executed, and the audit row is left.
Executed(w, step) == Proceed(w, step, "audit") /\ untold' = untold \cup {Entry(w)}

\* The statement fails, the error is not looked at, and audited all the same.
ExecutionFails(w, step) == ProceedFailed(w, step, "audit") /\ UNCHANGED consoleVars

Audit(w) == Proceed(w, "audit", "idle") /\ untold' = untold \ {Entry(w)}

AuditFails(w) == ProceedFailed(w, "audit", "idle") /\ UNCHANGED consoleVars

ConsoleNext == \E w \in Workers : Audit(w) \/ AuditFails(w)

-----------------------------------------------------------------------------
\* The audit log tells of every statement once its request is answered, unless
\* an INSERT failed or the process crashed before it: the log is no part of a
\* transaction.  The converse does not hold: statements that failed, found the
\* row deleted, or were refused are in it too.
AuditTells == NoFault /\ NoCrash /\ Quiet => untold = {}
=============================================================================
