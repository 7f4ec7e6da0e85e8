\* Two pending versions, the newer one approved first.
CONSTANTS
  a = a
  f = f
  r1 = r1
  Runs = {a}
  Folds = {f}
  SameJob = {}
  Gated = {a, f}
  Escalations = {}
  Reviewers = {r1}
  Rollers = {}
  Jobs = {}
  MaxVersion = 2
SPECIFICATION Spec
PROPERTIES ApprovedIsInjected
CHECK_DEADLOCK FALSE
