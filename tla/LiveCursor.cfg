CONSTANTS
  Mine = {m1}
  Theirs = {w1, w2}
  MaxId = 3
  MaxLost = 1
SPECIFICATION FairSpec
INVARIANTS
  NeverTwice
  NothingMissed
PROPERTIES
  EventuallySeen
