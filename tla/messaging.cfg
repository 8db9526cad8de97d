SPECIFICATION MCSpec
CONSTANTS
  c1 = c1
  c2 = c2
  eco = eco
  tele = tele
  bad = bad
  mail = mail
  s1 = s1
  w1 = w1
  Clients = {c1, c2}
  TenantOf <- MCTenantOf
  Addresses = {eco, tele, bad, mail}
  PrefixOf <- MCPrefixOf
  Codes = {s1, w1}
  SmsCodes = {s1}
  WhatsAppCodes = {w1}
  BatchItems <- MCBatchItems
  MaxBatch = 2
  MaxMessages = 3
  MaxFailures = 1
  MaxCrashes = 1
INVARIANTS RecordedIsAccepted BatchCountsAreTrue 
CHECK_DEADLOCK FALSE
