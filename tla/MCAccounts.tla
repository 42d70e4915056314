------------------------------ MODULE MCAccounts ------------------------------
(* Instances of Accounts for TLC.                                            *)
EXTENDS Accounts, TLC

CONSTANTS r1, r2, auAdmin, operator, staff, AU, TAM

TwoRequests == {r1, r2}
AuAdminSeed == auAdmin :> AU
OperatorSeed == operator :> AU

Symmetry == Permutations({r1, r2})
=============================================================================
