\* Every fault, a retry, and two submissions with one key, one of them synchronous.
CONSTANTS
  j1 = j1
  j2 = j2
  e1 = e1
  e2 = e2
  e3 = e3
  s1 = s1
  s2 = s2
  r1 = r1
  r2 = r2
  Jobs = {j1, j2}
  Entries = {e1, e2, e3}
  Submitters = {s1, s2}
  Retriers = {r1}
  Sync = {s2}
  Keyed = {s1, s2}
  WithCallback = {j1}
  MaxPrompt = 1
  MaxTries = 1
  ArqMaxTries = 2
  Cap = 1
  RunOutcomes = {"succeeded", "failed"}
  Faults = {"shutdown", "crash", "error", "apiStop"}
  NoJob = NoJob
SPECIFICATION Spec
SYMMETRY Symmetry
INVARIANTS LiveOwed CallbackOwed OneJobPerKey
