\* A job that is retried after its memory was rolled back.
CONSTANTS
  f = f
  u = u
  j = j
  Runs = {}
  Folds = {f}
  SameJob = {}
  Gated = {}
  Escalations = {}
  Reviewers = {}
  Rollers = {u}
  Jobs = {j}
  MaxVersion = 2
SPECIFICATION Spec
INVARIANTS RejectedNeverInjected
CHECK_DEADLOCK FALSE
