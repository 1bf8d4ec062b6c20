CONSTANTS
  People = {p1, p2}
  Teams = {t1, t2}
  SlackUsers = {u1}
  Refs = {ref1, ref2}
  Channels = {c1, c2}
  LinkJobs = {j1, j2}
  MaxInstalls = 2
  MaxDrawn = 2
  None = None
SPECIFICATION MCSpec
SYMMETRY Symmetry
INVARIANTS
  CardsKeepTheirHour
PROPERTIES
  RepointIsConfirmed
CHECK_DEADLOCK FALSE
