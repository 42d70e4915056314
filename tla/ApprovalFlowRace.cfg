CONSTANTS
  ou = ou
  su = su
  oam = oam
  key = key
  r1 = r1
  r2 = r2
  Nobody = nobody
  Anonymous = anonymous
  Admins <- MCAdmins
  Keys <- MCKeys
  WhitelistB <- MCWhitelistB
  OUAU <- MCOUAU
  Ids = {1}
  Workers <- TwoRequests
  MaxRequests = 4
  MaxCrashes = 0
  MaxFaults = 0
SPECIFICATION Spec
PROPERTY DecisionFinal
\* With no budget left, nothing has to happen.
CHECK_DEADLOCK FALSE
