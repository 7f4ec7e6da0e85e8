\* Workers that shut down, die or raise while a prompt changes, no retry and no cap.
CONSTANTS
  j1 = j1
  j2 = j2
  e1 = e1
  e2 = e2
  s1 = s1
  s2 = s2
  Jobs = {j1, j2}
  Entries = {e1, e2}
  Submitters = {s1, s2}
  Retriers = {}
  Sync = {}
  Keyed = {}
  WithCallback = {}
  MaxPrompt = 2
  MaxTries = 2
  ArqMaxTries = 3
  Cap = 0
  RunOutcomes = {"succeeded", "failed"}
  Faults = {"shutdown", "crash", "error"}
  NoJob = NoJob
SPECIFICATION FairSpec
INVARIANTS OneInstruction
PROPERTIES RowSpec Completes
