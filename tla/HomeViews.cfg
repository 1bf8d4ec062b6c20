INIT MCInit
NEXT MCNext
CONSTANTS
  Slices = {s1, s2}
  Areas = {a1, a2}
  Inbox = Inbox
  Priorities = {1}
  Unranked = Unranked
  Steps = 1
  RoadmapLimit = 1
  BoardLimit = 1
  Members = {m1}
  Visits = {v1, v2}
  ShownLimit = 2
  MaxTime = 4
  Tabs = {t1, t2}
  MaxEvents = 2
  AreaIds = {x1}
  SliceIds = {y1, y2}
  BiteIds = {z1}
  NoArea = NoArea
  MaxLog = 2
  MaxWrites = 2
SYMMETRY Symmetry
CHECK_DEADLOCK FALSE
INVARIANTS
  EverySliceIsOnAScreen
  ScreensAgree
  NewsIsBadgedOnce
  ChecklistIsHonest
  ExportIsWhole
