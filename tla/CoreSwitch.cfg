SPECIFICATION CoreFairSpec
CONSTANTS
  v1 = v1
  v2 = v2
  bundled = bundled
  Downloads <- TwoDownloads
  Bundled <- bundled
  Requests <- AllVersions
  KillSwitchRequests <- AllVersions
  None = None
  Faults <- AllFaults
INVARIANTS
  TypeOK
  InstalledIsVerified
  TagIsInstalled
  ActiveIsRunning
  LiveCoreKept
PROPERTIES
  RunsWhole
  CoreOperationEnds
