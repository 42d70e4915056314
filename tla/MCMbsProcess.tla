---------------------------- MODULE MCMbsProcess ----------------------------
(* Instances of MbsProcess for TLC.                                          *)
EXTENDS MbsProcess

ThreeItems == 1..3

\* Every table some handler writes.
AllTables == {h.table : h \in Handlers}
=============================================================================
