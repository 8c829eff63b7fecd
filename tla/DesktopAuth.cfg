SPECIFICATION Spec
CONSTANTS
  Secrets = {s1, s2}
  Sessions = {v1, v2}
  LockEpochs = {e1}
  Requests = {r1, r2}
  None = None
  TouchChoices = {TRUE}
  MaxFailedPins = 2
  SelectionWidth = 2
CONSTRAINT Budget
INVARIANTS ValuesAreAuthorized WrongPinsLock LockedHoldsNothing
PROPERTIES ConsentIsForThisPrompt
SYMMETRY Symmetry
