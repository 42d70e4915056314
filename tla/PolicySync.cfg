CONSTANTS
  boot = boot
  a = a
  b = b
  torn = torn
  Boot = boot
  Torn = torn
  Rules <- MCRules
  SeedRules <- OneSeed
  Rows <- MCRows
  Workers <- OneAdmin
  FineClock = TRUE
  MaxRequests = 2
  MaxFaults = 1
SPECIFICATION FairSpec
INVARIANT TypeOK
INVARIANT ReloadComplete
INVARIANT NoForeignRule
INVARIANT CsvMatchesAuthority
PROPERTY WatcherCatchesUp
PROPERTY EnforcedMatchesAuthority
\* Between ticks that find nothing new, with no request, nothing happens.
CHECK_DEADLOCK FALSE
