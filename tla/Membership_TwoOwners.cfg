CONSTANTS
  o1 = o1
  o2 = o2
  Orgs <- MCOrgs
  Kinds <- MCKinds
  Founders <- MCFounders
  Users = {u1, u2}
  Requests = {r1, r2}
  Invites = {i1, i2}
  SeatLimit = 2
  Nobody = Nobody
SPECIFICATION Spec
SYMMETRY Symmetric
INVARIANT EveryOrgHasAnOwner
