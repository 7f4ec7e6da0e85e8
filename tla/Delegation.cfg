\* One tree of four jobs of four agents, calls two deep, under timeouts, shutdowns, crashes and retries; an entry is started twice.
CONSTANTS
  j1 = j1
  j2 = j2
  j3 = j3
  j4 = j4
  a1 = a1
  a2 = a2
  a3 = a3
  a4 = a4
  NoJob = NoJob
  NoAgent = NoAgent
  Agents = {a1, a2, a3, a4}
  Jobs = {j1, j2, j3, j4}
  Roots = {j1}
  Scope <- Everyone
  MaxDepth = 3
  JobMaxTries = 2
  ArqMaxTries = 2
  Faults = {"shutdown", "crash"}
SPECIFICATION Spec
SYMMETRY Symmetry
INVARIANTS DepthBounded NoCycle CallerWaits LiveRuns
CONSTRAINT OneRetried
