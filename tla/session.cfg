SPECIFICATION MCSpec
CONSTANTS
  i1 = i1
  i2 = i2
  NoInstance = NoInstance
  Types <- AllTypes
  Instances = {i1, i2}
  Requests = {r1, r2}
  Limits = {1, 9}
  MaxEvents = 3
  MayRace = TRUE
  g1 = g1
  g2 = g2
  h1 = h1
  h2 = h2
  Replicas = {g1, g2}
  Handlers = {h1, h2}
  At <- MCAt
  Phones = {p}
  Sessions = {s}
  Tenants = {t}
  MaxTokens = 2
  Window = 2
  Timeout = 2
  MaxEntries = 3
  MaxFailures = 1
INVARIANTS AnswersAreHistory AdmittedInWindow
PROPERTIES  PhoneIsServedAgain
CHECK_DEADLOCK FALSE
