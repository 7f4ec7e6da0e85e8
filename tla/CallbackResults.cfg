\* A retry while a delivery waits.
CONSTANTS
  d1 = d1
  d2 = d2
  Deliveries = {d1, d2}
  MaxRuns = 2
  MaxTries = 2
  ArqMaxTries = 2
  StopFaults = {}
SPECIFICATION CallbackSpec
INVARIANTS ResultsOnly
