\* The answer of an accepted charge is lost and the charge requested again.
SPECIFICATION MCSpec
CONSTANTS
  Payments = {p1}
  Keys = {k1}
  KeyOf <- SameKey
  Callbacks = {h1}
  MaxAttempts = 3
  Workloads <- OneCall
  NoRef = NoRef
  NoPayment = NoPayment
INVARIANT OneChargePerPayment
CHECK_DEADLOCK FALSE
