\* Two jobs of a tenant whose cap is one.
CONSTANTS
  j1 = j1
  j2 = j2
  e1 = e1
  e2 = e2
  e3 = e3
  s1 = s1
  s2 = s2
  Jobs = {j1, j2}
  Entries = {e1, e2, e3}
  Submitters = {s1, s2}
  Retriers = {}
  Sync = {}
  Keyed = {}
  WithCallback = {j1}
  MaxPrompt = 1
  MaxTries = 1
  ArqMaxTries = 2
  Cap = 1
  RunOutcomes = {"succeeded", "failed"}
  Faults = {}
  NoJob = NoJob
SPECIFICATION Spec
INVARIANTS CapHolds
