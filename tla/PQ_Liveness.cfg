SPECIFICATION FairSpec
CONSTANTS
  Items = {i1, i2}
  Printers = {p1}
  AnyPrinter = AnyPrinter
  NoPrinter = NoPrinter
  MaxAttempts = 1
  UploadLimit = 1
  Gated = {}
  Outcome = {"completed"}
  MaxCallbacks = 1
  PlateGate = FALSE
  Env = {"late"}
 
PROPERTIES DispatchEnds 
CHECK_DEADLOCK FALSE
