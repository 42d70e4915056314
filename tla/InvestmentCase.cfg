CONSTANTS
  r1 = r1
  r2 = r2
  Cases = {c1}
  Workers <- TwoRequests
  BodyFields = {}
  MaxRequests = 5
  MaxCrashes = 1
  MaxFaults = 1
SPECIFICATION Spec
INVARIANT TypeOK
INVARIANT TripartySign
INVARIANT DeployedHasPosition
SYMMETRY Symmetry
\* With no budget left, nothing has to happen.
CHECK_DEADLOCK FALSE
