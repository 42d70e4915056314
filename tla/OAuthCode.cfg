CONSTANTS
  r1 = r1
  r2 = r2
  a1 = a1
  a2 = a2
  Nobody = nobody
  Clients = {console, booth}
  SeedClients = {console}
  Users = {u1}
  Uris <- TwoUris
  Codes = {1, 2}
  Workers <- TwoRequests
  CodeLife = 1
  DevEnv = TRUE
  MaxTime = 2
  MaxRequests = 4
  MaxChanges = 1
  MaxFaults = 1
  MaxCrashes = 1
SPECIFICATION Spec
INVARIANT TypeOK
INVARIANT SingleUseBound
INVARIANT WithdrawnBound
INVARIANT TokenMatchesGrant
SYMMETRY Symmetry
\* With no budget left, nothing has to happen.
CHECK_DEADLOCK FALSE
