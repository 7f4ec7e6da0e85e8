\* Two owners on one agent, two versions, one alias, one job.
CONSTANTS
  o1 = o1
  o2 = o2
  c1 = c1
  c2 = c2
  a1 = a1
  j1 = j1
  j2 = j2
  Clients = {o1, o2}
  Owners = {o1, o2}
  Aliases = {a1}
  Jobs = {j1}
  MaxNo = 2
  NoOne = NoOne
SPECIFICATION Spec
SYMMETRY Symmetry
INVARIANTS PointersResolve Runnable PromotionStands
PROPERTIES VersionsImmutable
CHECK_DEADLOCK FALSE
