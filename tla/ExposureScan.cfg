SPECIFICATION Spec
INVARIANTS CompleteMeansEverything FindingsAreExact CredentialsFirst OnlyThisScanIsShown
CONSTANTS
  Home <- HomeDir
  ExtraRoots <- OverlappingRoots
  Paths <- AllPaths
  Entries <- TreeEntries
  Ignored <- IgnoredDirs
  PriorityFiles <- TreePriority
  Contents <- TreeContents
  Disks <- TreeDisks
  MaxFileBytes = 2
  MaxTotalBytes = 5
  MaxFiles = 4
  MaxEntries = 8
  MaxDepth = 2
  MaxFindings = 6
  MaxScans <- ScanBounds
CHECK_DEADLOCK FALSE
