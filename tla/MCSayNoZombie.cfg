\* A request that is rejected or throws after its session was opened.
SPECIFICATION Spec
CONSTANTS
  i1 = i1
  i2 = i2
  away = away
  Inst = {i1}
  Runs = {r1}
  Subs = {}
  Home <- HomeIsI1
  None = None
  Paths = {"reject"}
  MaxTokens = 1
  MaxPokes = 0
INVARIANTS
  NoZombie
