----------------------------- MODULE MCOAuthCode -----------------------------
(* Instances of OAuthCode for TLC.                                          *)
EXTENDS OAuthCode, TLC

CONSTANTS r1, r2, a1, a2

TwoRequests == {r1, r2}
TwoUris == {a1, a2}

Symmetry == Permutations({r1, r2}) \cup Permutations({a1, a2})
=============================================================================
