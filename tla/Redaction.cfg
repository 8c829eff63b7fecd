CONSTANTS
  Byte <- MCByte
  SecretSets <- MCSecretSets
  Chunks <- MCChunks
  OtherTexts <- MCOtherTexts
  Marker <- MCMarker
  FewOmitted <- MCFewOmitted
  ManyOmitted <- MCManyOmitted
  Many = 4
  MaxText = 5
  Limit = 7
  MinLimit = 7
SPECIFICATION RedactionSpec
INVARIANTS ChunkingIsInvisible PatternsNeverShown OutputBounded
CHECK_DEADLOCK FALSE
