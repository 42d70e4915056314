CONSTANTS
  boot = boot
  a = a
  b = b
  torn = torn
  Boot = boot
  Torn = torn
  Rules <- MCRules
  SeedRules <- OneSeed
  Rows <- MCRows
  Workers <- TwoAdmins
  FineClock = TRUE
  MaxRequests = 2
  MaxFaults = 0
SPECIFICATION Spec
INVARIANT CsvMatchesAuthority
SYMMETRY Symmetry
\* Between ticks that find nothing new, with no request, nothing happens.
CHECK_DEADLOCK FALSE
