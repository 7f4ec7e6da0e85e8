\* Two runs of a suite that is edited or whose rate the column rounds, with stops and the time limit.
CONSTANTS
  r1 = r1
  r2 = r2
  NoRun = NoRun
  Evals = {r1, r2}
  Suites = {0, 1, 3}
  MaxAttempts = 2
  ArqMaxTries = 2
  Faults = {"stop", "limit"}
SPECIFICATION EvalFairSpec
INVARIANTS HonestRate AlertsMatch
PROPERTIES RecordStays Ends
