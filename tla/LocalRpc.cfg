CONSTANTS
  c1 = c1
  c2 = c2
  None = None
  Clients = {c1, c2}
  MaxCalls = 2
  MaxConns = 4
  MaxCrashes = 1
  Used <- MCUsed
  MaxSessions = 1
  Spare = 3
SPECIFICATION Spec
INVARIANTS ReportIsTrue NoOwnConflict SlotsRemain
PROPERTIES CallsEnd
CHECK_DEADLOCK FALSE
