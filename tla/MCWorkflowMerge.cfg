SPECIFICATION Spec
CONSTANTS
  Client = {c1, c2}
  Key = {k1, k2}
  MaxSaves = 3
  MaxVersion = 4
SYMMETRY Symmetry
INVARIANT ReplacementIsAtomic
CHECK_DEADLOCK FALSE
