SPECIFICATION FairSpec
CONSTANTS
  Processes = {p, q}
  Endpoints = {u, v}
  p = p
  q = q
  u = u
  v = v
  Tools = {t}
  Keys = {k}
  Edits <- WrittenEdits
  Cursors = {c}
  Pages = 2
  Rounds = 1
  Targets = {t}
  Offered <- OfferedCommands
  None = None
INVARIANT ReferenceStored
PROPERTIES SentCurrent NothingLost CommandsEnd
