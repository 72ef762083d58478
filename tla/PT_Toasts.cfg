SPECIFICATION FairSpec
CONSTANTS
  j1 = j1
  j2 = j2
  s1 = s1
  s2 = s2
  Jobs = {j1, j2}
  Slices = {s1}
  MaxDispatches = 2
  MaxWire = 2
  MaxPolls = 2
  MaxFaults = 1
  UserDismisses = TRUE
INVARIANTS TypeOK ToastTells SpinnerTells
PROPERTIES ToastGoes SpinnerEnds
CHECK_DEADLOCK FALSE
