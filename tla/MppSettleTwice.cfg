\* A violation: close by sessionId edits a detached copy, so a session is
\* settled by every close that names it.
SPECIFICATION Spec
CONSTANTS
  Calls = {c1}
  Agents = {a1}
  SameId = {}
  Probe = Probe
  Lookups = {"id"}
  Torn = Torn
  None = None
  Lanes = {1}
  KeepRows = 3
  ListRows = 2
  MaxIds = 1
  MaxOps = 3
INVARIANT SettledOnce
CHECK_DEADLOCK FALSE
