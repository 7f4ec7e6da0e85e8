\* One job whose worker is restarted while an owner saves another prompt.
CONSTANTS
  j1 = j1
  e1 = e1
  s1 = s1
  Jobs = {j1}
  Entries = {e1}
  Submitters = {s1}
  Retriers = {}
  Sync = {}
  Keyed = {}
  WithCallback = {}
  MaxPrompt = 2
  MaxTries = 2
  ArqMaxTries = 2
  Cap = 0
  RunOutcomes = {"succeeded", "failed"}
  Faults = {"shutdown"}
  NoJob = NoJob
SPECIFICATION Spec
PROPERTIES PinsKept
