\* Orders and subscriptions under four scripts, and a user's turns at the caps.
SPECIFICATION BillingSpec
CONSTANTS
  p1 = p1
  p2 = p2
  p3 = p3
  p4 = p4
  u1 = u1
  o1 = o1
  o2 = o2
  s1 = s1
  s2 = s2
  Proc = {p1, p2, p3, p4}
  User = {u1}
  Order = {o1, o2}
  Sub = {s1, s2}
  Resolver = {r1}
  None = None
  Calls <- Scenarios
  MaxFaults = 1
  free = free
  pro = pro
  Plan = {free, pro}
  Slot = {t1, t2}
  MessageCap <- Messages
  SessionCostCap <- SessionCost
  WeeklyCap <- Weekly
  TokenCap <- Tokens
  SpendCap = 2
  Cost = {2}
  Credits = 3
  MaxTurns = 3
  MaxMisses = 1
  Missing = Missing
INVARIANTS
  LedgerChain
  BooksSound
  AnsweredIsBooked
  TableFollowsLastEvent
  TierFresh
  MetersSound
CHECK_DEADLOCK FALSE
