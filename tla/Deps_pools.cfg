SPECIFICATION Spec
CONSTANTS
  None = None
  Requests = {r1, r2}
  PollRequests = {}
  Probes = {}
  RedisUrl = TRUE
SYMMETRY Symmetry
INVARIANT OnePool
