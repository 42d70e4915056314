CONSTANTS
  r1 = r1
  r2 = r2
  Workers <- TwoRequests
  MaxRequests = 3
  MaxFaults = 1
  MaxCrashes = 1
  KeyIds <- FourKeys
  NodeIds <- TwoNodes
  ConfigKeys = {plain, encrypted}
  Encrypted = {encrypted}
  OrgIds <- TwoOrgs
  Members = {alice}
  Areas = {"keys", "nodes", "configs", "orgs"}
SPECIFICATION Spec
INVARIANT AuditTells
INVARIANT SuccessorBound
INVARIANT SuspensionStays
INVARIANT ConfigAcknowledged
INVARIANT NoOrphans
SYMMETRY Symmetry
\* With no budget left, nothing has to happen.
CHECK_DEADLOCK FALSE
