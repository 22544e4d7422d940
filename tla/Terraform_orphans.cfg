SPECIFICATION Spec
CONSTANTS
  None = None
  Resources = {vm, volume}
  Volumes = {volume}
  Objects = {o1, o2}
  Existing = {}
  Sizes = {small, large}
  Tasks = {t1, t2}
  PollInterval = 1
  PollTimeout = 1
  HttpTimeout = 1
  Rewrites = TRUE
  Foreign = TRUE
  Failures = TRUE
SYMMETRY Symmetry
INVARIANT TypeOK
INVARIANT NoUnreportedOrphan
INVARIANT WaitBounded
PROPERTY DestroyedIsDeleted
