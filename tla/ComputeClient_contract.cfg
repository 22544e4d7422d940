SPECIFICATION Spec
CONSTANTS
  Requests = {r1, r2, r3}
  Servers = {s1}
  Existing = {}
  Operations = {"create_vm", "delete_vm", "resize_vm", "create_snapshot", "action", "console", "get_vm"}
  DefaultNetwork = FALSE
  Faults = {"sdk", "api_crash"}
  PollInterval = 1
  PollTimeout = 2
  ResizeConfirmDelay = 1
  JobTimeout = 2
  MaxTries = 2
  MaxJobs = 2
SYMMETRY RequestSymmetry
INVARIANTS
  OnlyCreatesStranded
  RefusalLeavesNothing
PROPERTIES
  RefinesLifecycle
  ImplementsApi
CHECK_DEADLOCK FALSE
