\* Two turns, a reader, the reaper and failing subscriptions.
SPECIFICATION Spec
CONSTANTS
  i1 = i1
  i2 = i2
  away = away
  Inst = {i1}
  Runs = {r1, r2}
  Subs = {s1}
  Home <- HomeIsI1
  None = None
  Paths = {"reap", "redis"}
  MaxTokens = 1
  MaxPokes = 0
INVARIANTS
  StreamSound
