---------------------------- MODULE MCPolicySync ----------------------------
(* Instances of PolicySync for TLC: the sizes are given in the cfg files.   *)
EXTENDS PolicySync, TLC

CONSTANTS boot, a, b, torn

OneAdmin == {boot, a}
TwoAdmins == {boot, a, b}
MCRules == 1..2
OneSeed == {1}
MCRows == 1..2

\* The two request threads are interchangeable; the boot thread is not.
Symmetry == Permutations({a, b})
=============================================================================
