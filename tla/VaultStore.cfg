SPECIFICATION Spec
CONSTANTS
  None = None
  Damaged = Damaged
  StaleChoice = FALSE
  MaxWrites = 5
INVARIANTS RevisionsTellCopies
PROPERTIES Durable
