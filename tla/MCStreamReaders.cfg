\* One turn that completes, two readers on its instance and one on the other.
SPECIFICATION Spec
CONSTANTS
  i1 = i1
  i2 = i2
  away = s3
  Inst = {i1, i2}
  Runs = {r1}
  Subs = {s1, s2, s3}
  Home <- HomeIsI1
  None = None
  Paths = {}
  MaxTokens = 1
  MaxPokes = 0
INVARIANTS
  WarmReaderMissesNothing
  ReaderReachable
