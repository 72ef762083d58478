SPECIFICATION Spec
CONSTANTS
  j1 = j1
  j2 = j2
  s1 = s1
  s2 = s2
  Jobs = {j1, j2}
  Slices = {}
  MaxDispatches = 1
  MaxWire = 2
  MaxPolls = 2
  MaxFaults = 0
  UserDismisses = FALSE
PROPERTY DismissedWhenOver
CHECK_DEADLOCK FALSE
