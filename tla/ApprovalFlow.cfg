CONSTANTS
  ou = ou
  su = su
  oam = oam
  key = key
  r1 = r1
  r2 = r2
  Nobody = nobody
  Anonymous = anonymous
  Admins <- MCAdmins
  Keys <- MCKeys
  WhitelistB <- MCWhitelistB
  OUAU <- MCOUAU
  Ids = {1, 2}
  Workers <- TwoRequests
  MaxRequests = 4
  MaxCrashes = 1
  MaxFaults = 1
SPECIFICATION Spec
INVARIANT DecisionAttributed
INVARIANT AuditTruthful
INVARIANT AuditComplete
SYMMETRY Symmetry
\* With no budget left, nothing has to happen.
CHECK_DEADLOCK FALSE
