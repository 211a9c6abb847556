\* A reader joins an unsubscribed channel in mid-turn.
SPECIFICATION Spec
CONSTANTS
  i1 = i1
  i2 = i2
  away = away
  Inst = {i1}
  Runs = {r1}
  Subs = {s1}
  Home <- HomeIsI1
  None = None
  Paths = {}
  MaxTokens = 2
  MaxPokes = 0
INVARIANTS
  ResumeMissesNothing
