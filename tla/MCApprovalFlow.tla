--------------------------- MODULE MCApprovalFlow ---------------------------
(* Instances of ApprovalFlow for TLC.                                       *)
EXTENDS ApprovalFlow, TLC

CONSTANTS ou, su, oam, key, r1, r2

MCAdmins == {ou, su, oam, key}
MCKeys == {key}
MCWhitelistB == {ou, su, key}
MCOUAU == {ou}
TwoRequests == {r1, r2}

Symmetry == Permutations({r1, r2})
=============================================================================
