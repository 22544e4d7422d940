SPECIFICATION Spec
CONSTANTS
  Requests = {r1, r2}
  Servers = {s1, s2}
  Existing = {s1}
  Operations = {"create_vm", "delete_vm", "resize_vm", "create_snapshot", "action", "console", "get_vm"}
  DefaultNetwork = FALSE
  Faults = {"sdk", "redis", "api_crash", "expire"}
  PollInterval = 1
  PollTimeout = 2
  ResizeConfirmDelay = 1
  JobTimeout = 3
  MaxTries = 2
  MaxJobs = 2
SYMMETRY RequestSymmetry
INVARIANTS
  FinishedJobClosesTask
  AckedTaskTracked
  DeleteSuccessIsDeleted
  ResizeSuccessTookEffect
  ErrorMatchesStatus
  NoSilentOrphan
PROPERTIES
  ImplementsApi
CHECK_DEADLOCK FALSE
