\* A premium turn that overflows into the shared pool.
SPECIFICATION GateSpec
CONSTANTS
  a = a
  b = b
  c = c
  d = d
  i1 = i1
  i2 = i2
  t1 = t1
  t2 = t2
  u1 = u1
  u2 = u2
  w1 = w1
  w2 = w2
  Req = {a, b, c, d}
  Thread = {t1, t2}
  User = {u1, u2}
  Workspace = {w1, w2}
  Inst = {i1, i2}
  None = None
  Ticket <- Overflow
  SharedCap = 3
  ReservedCap = 1
  MaxLapses = 0
INVARIANTS
  LeaseReturned
