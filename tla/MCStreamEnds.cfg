\* One turn and its ends through finish, one reader on its instance and one on the other.
SPECIFICATION FairSpec
CONSTANTS
  i1 = i1
  i2 = i2
  away = s2
  Inst = {i1, i2}
  Runs = {r1}
  Subs = {s1, s2}
  Home <- HomeIsI1
  None = None
  Paths = {"block", "media", "abort"}
  MaxTokens = 1
  MaxPokes = 0
INVARIANTS
  PresentReaderMissesNothing
PROPERTIES
  EndIsSeen
