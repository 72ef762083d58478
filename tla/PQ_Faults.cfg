SPECIFICATION Spec
CONSTANTS
  Items = {i1}
  Printers = {p1}
  AnyPrinter = AnyPrinter
  NoPrinter = NoPrinter
  MaxAttempts = 2
  UploadLimit = 1
  Gated = {}
  Outcome = {"completed"}
  MaxCallbacks = 1
  PlateGate = TRUE
  Env = {"foreign", "late", "offline", "restart", "dbfault", "reassign", "lag", "unseen"}
INVARIANTS TypeOK RetryBudget WatchdogOwnsRetry
 
CHECK_DEADLOCK FALSE
