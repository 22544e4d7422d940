SPECIFICATION Spec
CONSTANTS
  None = None
  Requests = {h1}
  PollRequests = {}
  Probes = {h1}
  RedisUrl = TRUE
SYMMETRY Symmetry
INVARIANT ReadyWhenReachable
