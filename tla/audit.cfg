SPECIFICATION MCSpec
CONSTANTS
  e1 = e1
  e2 = e2
  e3 = e3
  e4 = e4
  e5 = e5
  e6 = e6
  e7 = e7
  i1 = i1
  i2 = i2
  NoEvent = NoEvent
  Events = {e1, e2, e3, e4, e5, e6, e7}
  DayOf <- MCDayOf
  NumberOf <- MCNumberOf
  PayloadOf <- MCPayloadOf
  TypeOf <- MCTypeOf
  LastDay = 3
  Backfill = 2
  Instances = {i1, i2}
  MaxCrashes = 1
  MaxErrors = 1
  PageSizes = {0, 1, 2}
  MaxTrail = 4
INVARIANTS ProofsVerify BatchVerifies PagesMissNothing
 
CHECK_DEADLOCK FALSE
