\* Two runs of a suite of three cases.
CONSTANTS
  r1 = r1
  r2 = r2
  NoRun = NoRun
  Evals = {r1, r2}
  Suites = {3}
  MaxAttempts = 2
  ArqMaxTries = 1
  Faults = {}
SPECIFICATION EvalSpec
SYMMETRY Symmetry
INVARIANTS AlertsExact
