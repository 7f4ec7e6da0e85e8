\* A gated run, a gated and an ungated vote, two reviewers, a rollback, a job and an escalation.
CONSTANTS
  a = a
  f = f
  g = g
  esc = esc
  r1 = r1
  r2 = r2
  u = u
  j = j
  Runs = {a}
  Folds = {f, g}
  SameJob = {f, g}
  Gated = {a, f}
  Escalations = {esc}
  Reviewers = {r1, r2}
  Rollers = {u}
  Jobs = {j}
  MaxVersion = 2
SPECIFICATION Spec
SYMMETRY Symmetry
INVARIANTS ItemTracksVersion ApprovalGoverns
PROPERTIES RejectedIsFinal MemoryDecidedOnce
CHECK_DEADLOCK FALSE
