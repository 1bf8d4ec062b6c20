CONSTANTS
  Clients = {c1}
  Orgs = {o1, o2}
  Workers = {w1, w2}
  Requests = {r1, r2}
  MaxMinted = 4
  Lines = {l1, l2}
  NoLine = NoLine
  Mixed = Mixed
SPECIFICATION MCSpec
INVARIANTS
  GrantHasOnePair
  DisconnectedStaysOut
  OnlyFreshDeathsAreFelt
  PolicyAsWritten
PROPERTIES
  EveryRequestEnds
CHECK_DEADLOCK FALSE
