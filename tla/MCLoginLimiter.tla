--------------------------- MODULE MCLoginLimiter ---------------------------
(* Instances of LoginLimiter for TLC: the sizes are given in the cfg files. *)
EXTENDS LoginLimiter, TLC

CONSTANTS t1, t2

Symmetry == Permutations({t1, t2})
=============================================================================
