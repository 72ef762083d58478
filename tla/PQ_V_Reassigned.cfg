SPECIFICATION Spec
CONSTANTS
  Items = {i1, i2}
  Printers = {p1, p2}
  AnyPrinter = AnyPrinter
  NoPrinter = NoPrinter
  MaxAttempts = 2
  UploadLimit = 2
  Gated = {}
  Outcome = {"completed"}
  MaxCallbacks = 1
  PlateGate = FALSE
  Env = {"reassign"}

INVARIANT OnePrintingRow
CHECK_DEADLOCK FALSE
