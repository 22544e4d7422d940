SPECIFICATION FairSpec
CONSTANTS
  None = None
  Resources = {vm}
  Volumes = {}
  Objects = {o1}
  Existing = {}
  Sizes = {small, large}
  Tasks = {t1, t2, t3}
  PollInterval = 1
  PollTimeout = 1
  HttpTimeout = 1
  Rewrites = FALSE
  Foreign = FALSE
  Failures = FALSE
PROPERTY CleanUpdateConverges
PROPERTY MethodsReturn
