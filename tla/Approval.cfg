SPECIFICATION FairSpec
CONSTANTS
  Clients = {c1}
  Secrets = {s1}
  Threads = {t1, t2}
  NoClient = NoClient
  Lifetimes = {1, 2}
  MaxUnattended = 1
  MaxTracked = 1
  MaxVault = 1
  MaxElapsed = 1
  MaxWall = 1
  MaxId = 2
  MaxConn = 2
  MaxEpoch = 1
  MaxRevision = 1
INVARIANTS TypeOK SessionGrantsTracked ConsentBacked RedeemConsented LockedOnlyUnattended UnattendedCeiling StaleContextRefused PendingOwned
PROPERTY DecisionDelivered
CHECK_DEADLOCK FALSE
