---------------------------- MODULE MCOasConsole ----------------------------
(* Instances of OasConsole for TLC.                                          *)
EXTENDS OasConsole, TLC

CONSTANTS r1, r2

TwoRequests == {r1, r2}
FourKeys == 1..4
TwoNodes == 1..2
TwoOrgs == 1..2

Symmetry == Permutations({r1, r2})
=============================================================================
