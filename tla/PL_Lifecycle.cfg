SPECIFICATION Spec
CONSTANTS
  MaxJobs = 3
  Files = {f1, f2}
  Env = {"offline", "restart", "plug"}
SYMMETRY FileSymmetry
INVARIANTS TypeOK RunEndsWithPrint TrackedWhileConnected
PROPERTY EventsInOrder
CHECK_DEADLOCK FALSE
