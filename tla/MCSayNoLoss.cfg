\* Refuted: what was appended to the log can be loaded.
SPECIFICATION DocSpec
CONSTANTS
  Client = {c1, c2}
  MaxUpdates = 2
  MaxSnapshots = 2
  MaxOps = 2
  Nobody = Nobody
INVARIANTS
  NothingLost
CHECK_DEADLOCK FALSE
