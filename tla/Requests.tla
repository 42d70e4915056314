------------------------------ MODULE Requests ------------------------------
(***************************************************************************)
(* The HTTP requests a gin process is serving: each runs its handler in a  *)
(* goroutine of its own, statement by statement, and the statements of     *)
(* overlapping requests interleave.  Modules of the MBS process and of the *)
(* OAS console say what the statements do.                                 *)
(***************************************************************************)
EXTENDS Naturals, FiniteSets

CONSTANTS
  Workers,     \* concurrent requests
  MaxRequests, \* bound: requests that are served
  MaxFaults,   \* bound: database statements that fail
  MaxCrashes   \* bound: crashes of the process

ASSUME WorkersAssumption == IsFiniteSet(Workers) /\ Workers # {}
ASSUME RequestBoundsAssumption ==
  MaxRequests \in Nat /\ MaxFaults \in Nat /\ MaxCrashes \in Nat

VARIABLES
  pc,    \* the statement each request is at, "idle" when there is no request
  req,   \* what the request holds: its arguments and the rows it has read
  budget \* what is left of the three bounds

requestVars == <<pc, req, budget>>

NoRequest == [op |-> "none"]

RequestsInit ==
  /\ pc = [w \in Workers |-> "idle"] /\ req = [w \in Workers |-> NoRequest]
  /\ budget = [requests |-> MaxRequests, faults |-> MaxFaults, crashes |-> MaxCrashes]

Spend(b) == budget[b] > 0 /\ budget' = [budget EXCEPT ![b] = @ - 1]

\* The number of the request that is about to start: no two share it.
Serial == budget.requests

\* A request arrives, executes its first statement and holds r.
Start(w, next, r) ==
  /\ pc[w] = "idle" /\ Spend("requests")
  /\ pc' = [pc EXCEPT ![w] = next] /\ req' = [req EXCEPT ![w] = r]

\* The same, when that statement fails and the handler goes on.
StartFailed(w, next, r) ==
  /\ pc[w] = "idle" /\ budget.requests > 0 /\ budget.faults > 0
  /\ budget' = [budget EXCEPT !.requests = @ - 1, !.faults = @ - 1]
  /\ pc' = [pc EXCEPT ![w] = next] /\ req' = [req EXCEPT ![w] = r]

\* A request that is answered after its only statement.
StartAndAnswer(w) == pc[w] = "idle" /\ Spend("requests") /\ UNCHANGED <<pc, req>>

\* The statement at step executes; the next one, or the answer, is left.
Goto(w, step, next) ==
  /\ pc[w] = step
  /\ pc' = [pc EXCEPT ![w] = next]
  /\ req' = IF next = "idle" THEN [req EXCEPT ![w] = NoRequest] ELSE req

Proceed(w, step, next) == Goto(w, step, next) /\ UNCHANGED budget

\* The statement at step fails; the handler does not look at the error.
ProceedFailed(w, step, next) == Goto(w, step, next) /\ Spend("faults")

\* The process dies and is started again: what its requests held is gone.
CrashRequests ==
  /\ Spend("crashes")
  /\ pc' = [w \in Workers |-> "idle"] /\ req' = [w \in Workers |-> NoRequest]

Quiet == \A w \in Workers : pc[w] = "idle"
NoFault == budget.faults = MaxFaults
NoCrash == budget.crashes = MaxCrashes
=============================================================================
