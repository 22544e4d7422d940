SPECIFICATION Spec
CONSTANTS
  Requests = {r1}
  Servers = {s1, s2}
  Existing = {s1}
  Operations = {"create_vm", "delete_vm", "resize_vm"}
  DefaultNetwork = FALSE
  Faults = {}
  PollInterval = 1
  PollTimeout = 2
  ResizeConfirmDelay = 1
  JobTimeout = 2
  MaxTries = 2
  MaxJobs = 2
SYMMETRY RequestSymmetry
INVARIANTS
  NoStrandedTask
CHECK_DEADLOCK FALSE
