SPECIFICATION Spec
CONSTANTS
  Roots = {}
  User = user
  Digests = {d1}
  EnabledDigests = {d1}
  Envs = {e}
  Requests = {r1, r2}
  Guards = {g1, g2}
  ContainerKeys = {user}
  Offered = {"start", "call", "stop", "uninstall"}
  QueueLimit = 2
  None = None
SYMMETRY Symmetry
VIEW View
INVARIANTS OneOwnedProcess NoLostGuard ContainerRecorded DeletesQuiescent
PROPERTY StopIsTrue
