-------------------------- MODULE MCInvestmentCase --------------------------
(* Instances of InvestmentCase for TLC.                                     *)
EXTENDS InvestmentCase, TLC

CONSTANTS r1, r2

OneRequest == {r1}
TwoRequests == {r1, r2}

Symmetry == Permutations({r1, r2})
=============================================================================
