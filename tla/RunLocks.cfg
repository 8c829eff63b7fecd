SPECIFICATION Spec
CONSTANTS
  Clients = {c1}
  Secrets = {s1}
  NoClient = NoClient
  MaxUnattended = 1
  MaxTracked = 1
  Workers = {w1, w2}
  RunWorkers = {w1}
  LockWorkers = {w2}
  Gui = gui
  Locker = locker
  NoWorker = NoWorker
  Bindings = {{}, {s1}}
  MaxRuns = 1
  MaxLocks = 1
  MaxOps = 1
  MaxUnlocks = 1
  MaxConn = 2
CONSTRAINT Budget
INVARIANTS LockedVaultIsQuiet NoPromptUnderLock ShutdownIsQuiet ManualLockIsQuiet RevokedNeverRuns
CHECK_DEADLOCK FALSE
