CONSTANTS
  root = root
  ed = ed
  here = here
  there = there
  s1 = s1
  s2 = s2
  v1 = v1
  f1 = f1
  m1 = m1
  m2 = m2
  m3 = m3
  test = test
  real = real
  Clients = {root}
  Superusers = {root}
  Administers <- MCAdministers
  Owners = {root}
  Home = here
  Conns = {s1, s2, v1, f1}
  Conn <- MCConn
  Models = {m1, m2, m3}
  Model <- MCModel
  Seeded = {m1}
  Prefix <- MCPrefix
  Providers = {test, real}
  Offered = {real}
  Jobs = {j1}
  Grants <- OneOrNone
  MaxVersions = 2
  MaxChanges = 5
  NoRow = NoRow
  Environment = Environment
SPECIFICATION PagesSpec
PROPERTY PageDeletesSpare
CHECK_DEADLOCK FALSE
