\* A blocked turn, and a reader that comes while it is open.
SPECIFICATION FairSpec
CONSTANTS
  i1 = i1
  i2 = i2
  away = away
  Inst = {i1}
  Runs = {r1}
  Subs = {s1}
  Home <- HomeIsI1
  None = None
  Paths = {"block"}
  MaxTokens = 1
  MaxPokes = 0
PROPERTIES
  ReturningReaderSeesEnd
