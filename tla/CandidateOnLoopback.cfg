SPECIFICATION Spec
CONSTANTS
  p1 = p1
  p2 = p2
  k1 = k1
  k2 = k2
  Requests <- OneOfEach
  KillSwitchRequests <- OneSwitch
  None = None
  Faults <- NoFaults
INVARIANT
  CandidateIsPhysical
