CONSTANTS
  o1 = o1
  c1 = c1
  c2 = c2
  a1 = a1
  j1 = j1
  j2 = j2
  Clients = {o1, c1}
  Owners = {o1}
  Aliases = {a1}
  Jobs = {j1}
  MaxNo = 2
  NoOne = NoOne
SPECIFICATION Spec
INVARIANTS PromotionKept
CHECK_DEADLOCK FALSE
