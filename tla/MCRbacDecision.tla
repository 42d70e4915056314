--------------------------- MODULE MCRbacDecision ---------------------------
(* Instances of RbacDecision for TLC.                                       *)
EXTENDS RbacDecision, TLC

MCWords == {"bos", "cos"}
SomePatterns == {<<"bos", Star>>, <<"bos", Param>>, <<Star, "cos">>}
AllPaths == UNION {[1 .. n -> MCWords] : n \in 1 .. 3}
=============================================================================
