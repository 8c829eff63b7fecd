SPECIFICATION ListSpec
CONSTANTS
  Clients = {c1}
  Secrets = {s1, s2}
  NoClient = NoClient
  MaxUnattended = 1
  MaxTracked = 1
  Workers = {w1}
  RunWorkers = {}
  LockWorkers = {}
  Gui = gui
  Locker = locker
  NoWorker = NoWorker
  Bindings = {{}}
  MaxRuns = 1
  MaxLocks = 0
  MaxOps = 2
  MaxUnlocks = 2
  MaxConn = 2
  ListWorkers = {w1}
CONSTRAINT Budget
INVARIANTS ListWithinAuthority
SYMMETRY Symmetry
CHECK_DEADLOCK FALSE
