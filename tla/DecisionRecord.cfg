CONSTANTS
  q1 = q1
  q2 = q2
  o1 = o1
  o2 = o2
  n1 = n1
  NoNode = NoNode
  NodeIds <- MCIds
  Batches <- MCBatches
  MaxTime = 1
  Heights <- MCHeights
  RowGap = 4
SPECIFICATION MCSpec
INVARIANTS
  RecordReadsWhole
PROPERTIES
  AppendOnly
  LockedAnswerStays
