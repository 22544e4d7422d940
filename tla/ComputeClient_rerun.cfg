SPECIFICATION Spec
CONSTANTS
  Requests = {r1}
  Servers = {s1, s2}
  Existing = {s1}
  Operations = {"create_vm", "delete_vm", "resize_vm"}
  DefaultNetwork = FALSE
  Faults = {"worker_crash"}
  PollInterval = 1
  PollTimeout = 2
  ResizeConfirmDelay = 1
  JobTimeout = 3
  MaxTries = 2
  MaxJobs = 2
SYMMETRY RequestSymmetry
PROPERTIES
  TerminalIsFinal
CHECK_DEADLOCK FALSE
