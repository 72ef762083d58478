SPECIFICATION FairSpec
CONSTANTS
  MaxBroadcasters = 3
  Viewers = {v1, v2}
  QueueSize = 2
INVARIANTS TypeOK OverlapIsExcused WindowIsUnwatched StoppedUnwatched
PROPERTIES SingleUpstream UnwatchedCloses WaitingDials
CHECK_DEADLOCK FALSE
