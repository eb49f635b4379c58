SPECIFICATION Spec
CONSTANTS
  A = A
  B = B
  q1 = q1
  q2 = q2
  q3 = q3
  Null = Null
  Free = Free
  Requests = {q1, q2, q3}
  Addresses <- MCAddresses
  Public <- MCAddresses
  Session <- MCSession
  Provided <- MCProvided
  Geo <- MCGeo
  Reputation <- MCReputation
  Deployments <- MCDeployments
  Alphabetical <- MCAlphabetical
  Classes = {"bruteforcer", "humain"}
  ABUSE_THRESHOLD = 50
  LIMIT = 2
  CACHE_TTL = 2
  MaxTime = 4
  MaxStops = 1
  Fragile = {q1}
INVARIANTS TypeOK CallsAreSpaced CacheSparesCalls OnlySuspects
PROPERTIES QuietExportIsComplete ExportsCatchUp
CHECK_DEADLOCK FALSE
