SPECIFICATION FairSpec
CONSTANTS
  TicksPerSecond = 2
  HelloIntervalIni = 1
  MaxTimeout = 13
  MaxDue = 2
INVARIANTS TypeOK RemovalMatchesEntry
PROPERTIES GivenUpOnlyWhenSilent SilentIsGivenUp
