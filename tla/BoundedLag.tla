----------------------------- MODULE BoundedLag -----------------------------
(***************************************************************************)
(* What a reader of cached policies may rely on: an answer is a set of     *)
(* policies that the authority had, and stopped having no more than limit  *)
(* ticks ago.  Nothing is promised of the order of the answers, nor that   *)
(* an invalidation makes them fresh.                                       *)
(***************************************************************************)
EXTENDS Naturals

CONSTANT MaxVersion \* bound: changes of the policies

VARIABLES
  version, \* the policies the authority has now, numbered
  since,   \* ticks since each version was replaced
  answer,  \* the last answer: its version, and how long ago it was replaced
  limit    \* the promise

lagVars == <<version, since, answer, limit>>

LagInit ==
  /\ version = 0 /\ since = [v \in 0..MaxVersion |-> 0]
  /\ answer = [version |-> 0, lag |-> 0] /\ limit \in Nat

Change == version < MaxVersion /\ version' = version + 1 /\ UNCHANGED <<since, answer, limit>>

Pass ==
  /\ since' = [v \in 0..MaxVersion |-> IF v < version THEN since[v] + 1 ELSE 0]
  /\ UNCHANGED <<version, answer, limit>>

Reply(v) ==
  /\ v \in 0..version /\ since[v] <= limit
  /\ answer' = [version |-> v, lag |-> since[v]] /\ UNCHANGED <<version, since, limit>>

LagNext == Change \/ Pass \/ \E v \in 0..MaxVersion : Reply(v)

LagSpec == LagInit /\ [][LagNext]_lagVars
=============================================================================
