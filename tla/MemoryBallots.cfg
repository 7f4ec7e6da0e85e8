\* Two votes on one result, cast at once.
CONSTANTS
  f = f
  g = g
  Runs = {}
  Folds = {f, g}
  SameJob = {f, g}
  Gated = {}
  Escalations = {}
  Reviewers = {}
  Rollers = {}
  Jobs = {}
  MaxVersion = 2
SPECIFICATION Spec
INVARIANTS OneVotePerJob
CHECK_DEADLOCK FALSE
