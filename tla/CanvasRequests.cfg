CONSTANTS
  q1 = q1
  q2 = q2
  o1 = o1
  o2 = o2
  NoNode = NoNode
  NodeIds <- MCIds
  Batches <- MCBatches
  Agents = {a1}
  Browsers = {b1}
  Tokens = {t1, t2}
  WatchTTL = 2
  AnswerGrace = 1
  MaxTime = 3
SPECIFICATION Spec
INVARIANTS
  RecordNeverTorn
  WatchesFollowTheRecord
PROPERTIES
  WatchNeverTurnsBack
  ClickReachesItsWatches
  ImplementsPromise
