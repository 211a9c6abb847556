\* A superseded run ends the turn that replaced it.
SPECIFICATION Spec
CONSTANTS
  i1 = i1
  i2 = i2
  away = away
  Inst = {i1}
  Runs = {r1, r2}
  Subs = {}
  Home <- HomeIsI1
  None = None
  Paths = {"abort"}
  MaxTokens = 1
  MaxPokes = 0
INVARIANTS
  DonePublishedOnce
