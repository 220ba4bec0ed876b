SPECIFICATION Spec
CONSTANTS
  plain = plain
  resnied = resnied
  switch = switch
  Configs <- AllKinds
  KillSwitchConfigs <- OneSwitch
  Signature <- SignatureOf
  MaxCalls = 2
  MaxEvents = 4
  None = None
INVARIANT
  DisconnectOutlivesEdits
CHECK_DEADLOCK FALSE
