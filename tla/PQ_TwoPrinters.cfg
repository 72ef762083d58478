SPECIFICATION Spec
CONSTANTS
  Items = {i1, i2}
  Printers = {p1, p2}
  AnyPrinter = AnyPrinter
  NoPrinter = NoPrinter
  MaxAttempts = 1
  UploadLimit = 1
  Gated = {i2}
  Outcome = {"completed"}
  MaxCallbacks = 1
  PlateGate = FALSE
  Env = {}
SYMMETRY PrinterSymmetry
INVARIANTS OnePrintingRow UnacknowledgedStartIsHeld
 
CHECK_DEADLOCK FALSE
