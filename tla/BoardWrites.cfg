CONSTANTS
  Bites = {b1, b2, b3}
  Requests = {r1, r2}
  Statuses = {"todo", "done"}
  Scale = 2
  MaxWhole = 1
  MaxBatch = 2
  None = None
  Keep = Keep
  Gone = Gone
  Rows = {s1, s2}
  Unknown = Unknown
  NoOne = NoOne
  Calls = {"one", "other"}
  Sweeps = {"sweep"}
  Processes = {m1, m2}
  BatchLimit = 2
SPECIFICATION MCSpec
SYMMETRY Symmetric
INVARIANTS
  TiesAreRaces
  AsLastMeant
  AllOrNothing
PROPERTIES
  LandsWhereAsked
  EveryCallEnds
CHECK_DEADLOCK FALSE
