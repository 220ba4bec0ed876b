SPECIFICATION Spec
CONSTANTS
  d4 = d4
  d6 = d6
  s1 = s1
  s2 = s2
  s3 = s3
  Defaults <- BothDefaults
  Servers <- LocalServers
  MaxServers = 2
  None = None
  Faults <- CommandFaults
SYMMETRY ServerSymmetry
INVARIANTS
  TypeOK
  HostRoutesRecorded
  HoldOutlivesTunnels
PROPERTY
  RemovedMeansGone
