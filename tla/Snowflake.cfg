CONSTANTS
  Machines = {1, 2}
  SeqSize = 2
  MaxClock = 3
  MaxServed = 7
SPECIFICATION IdSpec
INVARIANT TypeOK
PROPERTY AlwaysNew
CONSTRAINT Bounded
