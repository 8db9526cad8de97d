\* Two runs of a saga of three steps, two of them payments, and two CancelSaga calls.
SPECIFICATION FairSpec
CONSTANTS
  Runs = {r1, r2}
  N = 3
  PaymentSteps = {1, 2}
  Compensated = {1, 2, 3}
  Cancels = {x1, x2}
  NoRun = NoRun
INVARIANTS FinalStatusIsTrue UncancelledAsksEveryRefund 
CHECK_DEADLOCK FALSE
