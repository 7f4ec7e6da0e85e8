\* Two people retry the same failed job.
CONSTANTS
  j1 = j1
  e1 = e1
  e2 = e2
  e3 = e3
  s1 = s1
  r1 = r1
  r2 = r2
  Jobs = {j1}
  Entries = {e1, e2, e3}
  Submitters = {s1}
  Retriers = {r1, r2}
  Sync = {}
  Keyed = {}
  WithCallback = {j1}
  MaxPrompt = 1
  MaxTries = 1
  ArqMaxTries = 2
  Cap = 0
  RunOutcomes = {"succeeded", "failed"}
  Faults = {}
  NoJob = NoJob
SPECIFICATION Spec
PROPERTIES OnlyFailedRetried
