\* One job of a tenant whose cap is one meets a transient provider error.
CONSTANTS
  j1 = j1
  e1 = e1
  e2 = e2
  s1 = s1
  Jobs = {j1}
  Entries = {e1, e2}
  Submitters = {s1}
  Retriers = {}
  Sync = {}
  Keyed = {}
  WithCallback = {j1}
  MaxPrompt = 1
  MaxTries = 2
  ArqMaxTries = 2
  Cap = 1
  RunOutcomes = {"succeeded", "failed"}
  Faults = {}
  NoJob = NoJob
SPECIFICATION FairSpec
PROPERTIES Completes
