SPECIFICATION FairSpec
CONSTANTS
  MaxMounts = 2
  MaxChanges = 2
  MaxWire = 2
  MaxFaults = 1
INVARIANTS TypeOK OneAttempt
PROPERTIES DoneIsQuiet Reconnected CacheConverges
CHECK_DEADLOCK FALSE
