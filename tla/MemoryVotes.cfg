\* Two votes folded at the same time.
CONSTANTS
  f = f
  g = g
  Runs = {}
  Folds = {f, g}
  SameJob = {}
  Gated = {}
  Escalations = {}
  Reviewers = {}
  Rollers = {}
  Jobs = {}
  MaxVersion = 3
SPECIFICATION Spec
INVARIANTS VotesFolded
CHECK_DEADLOCK FALSE
