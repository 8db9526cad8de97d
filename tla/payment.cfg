\* One call with retries and two callbacks, or two calls with one key and a callback.
SPECIFICATION MCSpec
CONSTANTS
  Payments = {p1, p2}
  Keys = {k1}
  KeyOf <- SameKey
  Callbacks = {h1, h2}
  MaxAttempts = 2
  Workloads <- RetriesAndRaces
  NoRef = NoRef
  NoPayment = NoPayment
SYMMETRY Symmetry
INVARIANTS ChargeIsOnRecord CompletedIsSettled RowIsAnnouncedUncut OnePaymentPerKeyInTurn
PROPERTIES RowsFollowLifecycle
CHECK_DEADLOCK FALSE
