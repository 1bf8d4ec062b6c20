CONSTANTS
  c1 = c1
  c2 = c2
  org = org
  b1 = b1
  b2 = b2
  Conns <- MCConns
  Orgs <- MCOrgs
  OrgOf <- MCOrgOf
  Bearers <- MCBearers
  ConnOf <- MCConnOf
  Burst <- MCBurst
  Rate <- MCRate
  Cost = 2
  SweepEvery = 3
  Memo = 1
  Suppress = 2
  MaxTime = 3
  MaxWaiting = 2
SPECIFICATION Spec
INVARIANTS
  EpisodesSpaced
PROPERTIES
  ImplementsBucket
  MemoFollowsRefusal
