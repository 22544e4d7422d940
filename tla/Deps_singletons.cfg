SPECIFICATION Spec
CONSTANTS
  None = None
  Requests = {r1, h1, p1}
  PollRequests = {p1}
  Probes = {h1}
  RedisUrl = TRUE
SYMMETRY Symmetry
INVARIANT TypeOK
INVARIANT OneConnection
INVARIANT ReadyIsComplete
INVARIANT UnavailableWasSo
