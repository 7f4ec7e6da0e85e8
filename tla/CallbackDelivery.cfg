\* Two deliveries of a job queued twice, workers stopping under them.
CONSTANTS
  d1 = d1
  d2 = d2
  Deliveries = {d1, d2}
  MaxRuns = 2
  MaxTries = 2
  ArqMaxTries = 2
  StopFaults = {"stop"}
SPECIFICATION CallbackFairSpec
INVARIANTS Accounted NoSilentDrop NewestReported
PROPERTIES Settles
