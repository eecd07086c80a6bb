CONSTANTS
  NearShift = 1
  LevelShift = 1
  Levels = 4
  Session = {s1, s2}
  MaxDiff = 2
SPECIFICATION FairSpec
INVARIANTS TypeOK OnTime InPlace Once SetOrder
PROPERTIES NoneLost Fires
