SPECIFICATION MCSpec
CONSTANTS
  InFlight = 1
  MaxId = 3
  Callers = 3
  None = None
INVARIANTS CancelsAbandoned HonestServerKept ServerLoad
PROPERTIES RequestsEnd CancelKeepsConnection
CHECK_DEADLOCK FALSE
