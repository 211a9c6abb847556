\* Two turns on one thread, a downgraded one and one of a premium plan, one expiry.
SPECIFICATION GateFairSpec
CONSTANTS
  a = a
  b = b
  c = c
  d = d
  i1 = i1
  i2 = i2
  t1 = t1
  t2 = t2
  u1 = u1
  u2 = u2
  w1 = w1
  w2 = w2
  Req = {a, b, c, d}
  Thread = {t1, t2}
  User = {u1, u2}
  Workspace = {w1, w2}
  Inst = {i1, i2}
  None = None
  Ticket <- Mixed
  SharedCap = 3
  ReservedCap = 1
  MaxLapses = 1
INVARIANTS
  GateSound
  ThreadExclusive
  UserCeiling
  CountersMatchLeases
PROPERTIES
  RefusedIsAnswered
