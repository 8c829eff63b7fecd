CONSTANTS
  v1 = v1
  Apps = {a1, a2, a3}
  NoApp = NoApp
  VaultOf <- OneVault
SPECIFICATION EndpointSpec
INVARIANTS ServingIsReachable
PROPERTIES StaleSocketNeverBlocks
