\* A caller and a call; the caller's timeout.
CONSTANTS
  j1 = j1
  j2 = j2
  a1 = a1
  a2 = a2
  NoJob = NoJob
  NoAgent = NoAgent
  Agents = {a1, a2}
  Jobs = {j1, j2}
  Roots = {j1}
  Scope <- Everyone
  MaxDepth = 3
  JobMaxTries = 2
  ArqMaxTries = 2
  Faults = {}
SPECIFICATION Spec
SYMMETRY Symmetry
INVARIANTS NoneStranded
