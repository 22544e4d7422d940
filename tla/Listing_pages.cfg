SPECIFICATION Spec
CONSTANTS
  Ids = {i1, i2, i3, i4, b1}
  Bad = {b1}
  Limits = {0, 1, 2, 3}
  MaxLimit = 2
  Blocks = {0, 1}
  MaxChanges = 3
SYMMETRY ItemSymmetry
INVARIANT TypeOK
INVARIANT WalkMissesAreBounded
INVARIANT WalkRepeatsAreBounded
INVARIANT BlocksPartitionTheList
CHECK_DEADLOCK FALSE
