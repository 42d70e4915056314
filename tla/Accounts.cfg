CONSTANTS
  r1 = r1
  r2 = r2
  auAdmin = auAdmin
  operator = operator
  staff = staff
  AU = AU
  TAM = TAM
  NoRole = norole
  NoUser = nouser
  Users = {auAdmin, operator, staff}
  Roles = {AU, TAM}
  Governed = {AU}
  Xam = {TAM}
  AdminSeed <- AuAdminSeed
  TestSeed <- OperatorSeed
  Workers <- TwoRequests
  MaxRequests = 3
  MaxFaults = 1
  MaxCrashes = 1
SPECIFICATION Spec
INVARIANT TypeOK
INVARIANT WithdrawnRolesGone
INVARIANT AssignedRoleKept
INVARIANT StaysOut
SYMMETRY Symmetry
\* With no budget left, nothing has to happen.
CHECK_DEADLOCK FALSE
