SPECIFICATION MCSpec
CONSTANTS
  R1 = R1
  R2 = R2
  R3 = R3
  A1 = A1
  A2 = A2
  Callers = {R1, R2, R3}
  FailureThreshold = 2
  Phones = {P1}
  Tenants = {T1}
  Sessions = {S1}
  References = {F1}
  BadPhone = BadPhone
  NoTenant = NoTenant
  PhoneLimit = 2
  DefaultLimit = 3
  TenantLimits = {0, 1}
  MaxCount = 3
  Admins = {A1, A2}
INVARIANTS ClosedIsBelowThreshold AdmittedIsBounded 
PROPERTIES OpenEnds LimitedRecovers
CHECK_DEADLOCK FALSE
