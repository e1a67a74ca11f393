SPECIFICATION Spec
CONSTANTS
  Client = {c1, c2}
  Key = {k1, k2}
  MaxSaves = 3
  MaxVersion = 5
SYMMETRY Symmetry
INVARIANT SavesStayWhole
PROPERTY FollowsHistory
CHECK_DEADLOCK FALSE
