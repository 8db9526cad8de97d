SPECIFICATION MCSpec
CONSTANTS
  s1 = s1
  s2 = s2
  d1 = d1
  d2 = d2
  d3 = d3
  x1 = x1
  x2 = x2
  NoSub = NoSub
  Subs = {s1, s2}
  Deliveries = {d1, d2, d3}
  SubOf <- MCSubOf
  Dispatchers = {x1, x2}
  Updates = {u1}
  BatchSize = 2
  MaxAttempts = 3
  MaxReplays = 2
  MaxLosses = 1
INVARIANTS AttemptsAreReal
PROPERTIES DeliveryEnds
CHECK_DEADLOCK FALSE
