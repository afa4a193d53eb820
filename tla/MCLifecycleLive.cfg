SPECIFICATION FairSpec
CONSTANTS
  Roots = {}
  User = user
  Digests = {d1}
  EnabledDigests = {d1}
  Envs = {e, f}
  Requests = {r1, r2}
  Guards = {g1}
  ContainerKeys = {}
  Offered = {"tools", "call", "stop"}
  QueueLimit = 1
  None = None
VIEW View
PROPERTIES RequestsEnd ShutdownEnds OrphansEnd KeepsCurrent CallsCurrent
