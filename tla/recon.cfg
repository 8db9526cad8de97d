SPECIFICATION MCSpec
CONSTANTS
  A = A
  B = B
  R0 = R0
  R1 = R1
  R2 = R2
  NoRef = NoRef
  Runs = {R0, R1, R2}
  Resolvers = {W1}
  Statements <- MCStatements
  Tolerances = {0, 1}
  MaxResolve = 2
  Faults = TRUE
  Fractions = 2
  Rules <- MCRules
INVARIANTS EveryTransactionIsAccounted ExactMatchIsBagDifference 
PROPERTIES NothingIsUndone
CHECK_DEADLOCK FALSE
