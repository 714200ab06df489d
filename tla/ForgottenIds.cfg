SPECIFICATION Spec
INVARIANT CommissioningClearsIds
SYMMETRY NonceSymmetry
CONSTANTS
  NodeId = {1}
  Device = {d1}
  NoDevice = NoDevice
  Count = {0}
  CountLimit = 1
  MaxCommandId = 1
  FirstCommandIds = {1}
  Nonce = {n1, n2}
  NoNonce = NoNonce
  MaxCommandRecords = 1
  SessionQueueDepth = 1
  RadioQueueDepth = 1
  SessionAttempts = 1
  ResultSends = 1
  MaxFaults = 0
  MaxConfirms = 2
  MaxResets = 2
  PromptGateway = FALSE
