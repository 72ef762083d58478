SPECIFICATION FairSpec
CONSTANTS
  Uses = {{"auto"}, {"queue"}, {"dry"}}
  MaxTasks = 2
  MaxPrints = 2
  MaxPolls = 1
  MaxCallbacks = 2
INVARIANTS TypeOK TimerIsCancellable EntryIsLive 
PROPERTIES  OffTasksEnd
CHECK_DEADLOCK FALSE
