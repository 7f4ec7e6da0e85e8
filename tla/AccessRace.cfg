CONSTANTS
  root = root
  ann = ann
  org1 = org1
  team1 = team1
  org2 = org2
  t1 = t1
  t2 = t2
  Users = {root, ann}
  Supers = {root}
  Founder = root
  Address <- OwnAddress
  Cases = {"lower"}
  Teams = {org1, team1, org2}
  Tenants = {t1, t2}
  TenantOf <- MCTenantOf
  OrgTeams = {org1, org2}
  FirstTeam = org1
  KeyIds = {k1, k2, k3}
  FirstKey = k1
  Browsers = {}
  Requests = {q1, q2}
  Providers = {t2}
  Given <- MCGiven
  Issued <- MCIssued
  NoUser = NoUser
  NoKey = NoKey
  Everywhere = Everywhere
SPECIFICATION Spec
SYMMETRY Symmetry
PROPERTIES OwnerAlways
CHECK_DEADLOCK FALSE
