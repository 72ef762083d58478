SPECIFICATION Spec
CONSTANTS
  Items = {i1}
  Printers = {p1, p2}
  AnyPrinter = AnyPrinter
  NoPrinter = NoPrinter
  MaxAttempts = 2
  UploadLimit = 1
  Gated = {}
  Outcome = {"completed", "failed"}
  MaxCallbacks = 1
  PlateGate = FALSE
  Env = {"reassign", "offline", "late", "restart"}
SYMMETRY PrinterSymmetry
INVARIANTS ClaimDiscipline RowFollowsDispatch CancelWins
CHECK_DEADLOCK FALSE
