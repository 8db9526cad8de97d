\* Two pollers, three rows, one lost update or restart.
SPECIFICATION FairSpec
CONSTANTS
  Rows = {r1, r2, r3}
  Pollers = {p1, p2}
  BatchSize = 2
  MaxRetries = 1
  MaxLosses = 1
  Streams = {a1, a2}
  Keys = {}
  NoKey = NoKey
  StreamOf <- MCStreamOf
  r1 = r1
  r2 = r2
  r3 = r3
  a1 = a1
  a2 = a2
INVARIANTS ProcessedIsStored 
PROPERTIES RowsAreRelayed
CHECK_DEADLOCK FALSE
