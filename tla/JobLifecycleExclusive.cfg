\* No fault, at most one retry: one deliverer per job.
CONSTANTS
  j1 = j1
  j2 = j2
  e1 = e1
  e2 = e2
  e3 = e3
  s1 = s1
  s2 = s2
  r1 = r1
  Jobs = {j1, j2}
  Entries = {e1, e2, e3}
  Submitters = {s1, s2}
  Retriers = {r1}
  Sync = {s2}
  Keyed = {}
  WithCallback = {j1}
  MaxPrompt = 2
  MaxTries = 2
  ArqMaxTries = 2
  Cap = 0
  RunOutcomes = {"succeeded", "failed", "timeout"}
  Faults = {}
  NoJob = NoJob
SPECIFICATION Spec
SYMMETRY Symmetry
INVARIANTS NoFaultNoLoss OneRun OneInstruction
