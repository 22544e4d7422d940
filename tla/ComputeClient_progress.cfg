SPECIFICATION FairSpec
CONSTANTS
  Requests = {r1, r2}
  Servers = {s1, s2}
  Existing = {s1}
  Operations = {"create_vm", "delete_vm", "resize_vm"}
  DefaultNetwork = FALSE
  Faults = {"worker_crash", "stall"}
  PollInterval = 1
  PollTimeout = 2
  ResizeConfirmDelay = 1
  JobTimeout = 2
  MaxTries = 2
  MaxJobs = 1
INVARIANTS
  TypeOK
  FinishedJobClosesTask
  CreateSuccessWasActive
  ResizeSuccessTookEffect
PROPERTIES
  AckedCompletes
  ImplementsApi
CHECK_DEADLOCK FALSE
