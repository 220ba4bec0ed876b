SPECIFICATION Spec
CONSTANTS
  p1 = p1
  p2 = p2
  k1 = k1
  k2 = k2
  Requests <- BothKinds
  KillSwitchRequests <- SwitchRequests
  None = None
  Faults <- FaultKinds
SYMMETRY RequestSymmetry
INVARIANTS
  TypeOK
  ConnectedIsRecoverable
  SwitchIsUndoable
  SwitchIsCovered
