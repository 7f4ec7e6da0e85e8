CONSTANTS
  Jobs = {j1, j2}
  Files = {f1}
  Slots = 2
  Limit = 2
  Kinds = {"table", "aggregator"}
  MaxCall = 1
  MaxCalls = 3
  MonthStart = 1
  LastDay = 3
  Retention = 1
  Ttl = 1
  MaxCrashes = 1
  NoFile = NoFile
SPECIFICATION Spec
CONSTRAINT Apart
INVARIANT NoneBroken
