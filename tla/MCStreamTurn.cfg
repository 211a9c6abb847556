\* One turn, every way it can end, two readers.
SPECIFICATION Spec
CONSTANTS
  i1 = i1
  i2 = i2
  away = away
  Inst = {i1}
  Runs = {r1}
  Subs = {s1, s2}
  Home <- HomeIsI1
  None = None
  Paths = {"reject", "block", "media", "throw", "abort", "post", "reason"}
  MaxTokens = 1
  MaxPokes = 1
SYMMETRY Symm
INVARIANTS
  StreamSound
PROPERTIES
  SilenceAfterDone
