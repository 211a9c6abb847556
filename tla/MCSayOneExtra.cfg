\* Three turns at once where one message is left.
SPECIFICATION BillingSpec
CONSTANTS
  p1 = p1
  p2 = p2
  p3 = p3
  p4 = p4
  u1 = u1
  o1 = o1
  o2 = o2
  s1 = s1
  s2 = s2
  Proc = {p1, p2, p3, p4}
  User = {u1}
  Order = {o1, o2}
  Sub = {s1, s2}
  Resolver = {r1}
  None = None
  Calls <- SpentMeanwhile
  MaxFaults = 0
  free = free
  pro = pro
  Plan = {free, pro}
  Slot = {t1, t2, t3}
  MessageCap <- Messages
  SessionCostCap <- SessionCost
  WeeklyCap <- Weekly
  TokenCap <- Tokens
  SpendCap = 2
  Cost = {2}
  Credits = 1
  MaxTurns = 3
  MaxMisses = 0
  Missing = Missing
INVARIANTS
  OneExtraMessage
CHECK_DEADLOCK FALSE
