\* Two turns, the second one may begin before the first is over.
SPECIFICATION FairSpec
CONSTANTS
  i1 = i1
  i2 = i2
  away = away
  Inst = {i1}
  Runs = {r1, r2}
  Subs = {}
  Home <- HomeIsI1
  None = None
  Paths = {"reject", "block", "direct", "media", "abort"}
  MaxTokens = 1
  MaxPokes = 0
INVARIANTS
  ReplayIsCurrent
  IdsIdentify
PROPERTIES
  DoneIsForGood
  TurnEnds
