CONSTANTS
  Slices = {s1, s2}
  Areas = {a1}
  Keys = {k1}
  Users = {u1}
  Statuses = {"open", "shipped"}
  Requests = {r1, r2}
  Kinds = {"create", "update", "mark", "move", "delete"}
  Inbox = Inbox
  NoKey = NoKey
  Nobody = Nobody
  Keep = Keep
  NoEvent = NoEvent
SPECIFICATION Spec
SYMMETRY Symmetric
INVARIANTS NumbersGapless
PROPERTIES ThreadTellsTheStory
