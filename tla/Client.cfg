SPECIFICATION Spec
CONSTANTS
  plain = plain
  resnied = resnied
  switch = switch
  Configs <- AllKinds
  KillSwitchConfigs <- OneSwitch
  Signature <- SignatureOf
  MaxCalls = 2
  MaxEvents = 4
  None = None
INVARIANTS
  TypeOK
  DisconnectIsFinal
  ShownIsRunning
  ConnectingIsOwned
PROPERTY
  LossNoticed
CHECK_DEADLOCK FALSE
