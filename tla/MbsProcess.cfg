CONSTANTS
  Workers = {r1, r2}
  MaxRequests = 4
  MaxFaults = 1
  MaxCrashes = 1
  Ids = {1}
  Tables <- AllTables
  Topics = {"completed"}
  Subscribers = {audit}
  ItemIds <- ThreeItems
  Sections = {"products", "orders", "applications", "profile", "inventory"}
  Drivers = {"sqlite", "postgres"}
  L1TTL = 2
  L2TTL = 2
  MaxHold = 1
  MaxVersion = 1
  MaxTicks = 5
  Areas = {"rows", "market", "cache"}
SPECIFICATION Spec
INVARIANT TrailFaithful
INVARIANT GraduationRecorded
INVARIANT ChainKept
INVARIANT DatesMatchStatus
INVARIANT CounterExact
INVARIANT StoreTraceable
INVARIANT UpsertBound
PROPERTY EventsReach
PROPERTY AnswersBounded
\* With no budget left, nothing has to happen.
CHECK_DEADLOCK FALSE
