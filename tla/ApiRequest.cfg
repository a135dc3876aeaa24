SPECIFICATION Spec
CONSTANTS
  Api = {tls, onion}
  Uid <- OfBoth
  Byte = 2
  Request <- Requests
  NoRequest = NoRequest
  Outcome = {"done", "lost", "failed"}
  MaxTimes = 2
  MaxRestart = 1
SYMMETRY Processes
INVARIANTS TakesEffectOnce SentIsStored
CHECK_DEADLOCK FALSE
