\* A worker stops between the commit of a rate and its alert.
CONSTANTS
  r1 = r1
  r2 = r2
  NoRun = NoRun
  Evals = {r1, r2}
  Suites = {1}
  MaxAttempts = 2
  ArqMaxTries = 2
  Faults = {"stop"}
SPECIFICATION EvalSpec
SYMMETRY Symmetry
INVARIANTS RegressionTold
