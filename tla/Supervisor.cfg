CONSTANTS
  v1 = v1
  Apps = {a1, a2}
  NoApp = NoApp
  VaultOf <- OneVault
  Runs = {1}
  Forking = {1}
  Escapes = TRUE
  PidReuse = TRUE
SPECIFICATION Spec
INVARIANTS ResultIsFinal LiveRunKeepsFiles StaleFilesScavenged
PROPERTIES RunEnds
CHECK_DEADLOCK FALSE
