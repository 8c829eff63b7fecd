SPECIFICATION Spec
CONSTANTS
  None = None
  Damaged = Damaged
  StaleChoice = TRUE
  MaxWrites = 2
PROPERTIES ContinuesWithPrimary
