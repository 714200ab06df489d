SPECIFICATION Spec
INVARIANTS ResultIsTruth
PROPERTIES AtMostOncePerCommissioning ImplementsOneShot
SYMMETRY NonceSymmetry
CONSTANTS
  NodeId = {1}
  Device = {d1}
  NoDevice = NoDevice
  Count = {0, 1}
  CountLimit = 2
  MaxCommandId = 2
  FirstCommandIds = {2}
  Nonce = {n1, n2}
  NoNonce = NoNonce
  MaxCommandRecords = 1
  SessionQueueDepth = 1
  RadioQueueDepth = 1
  SessionAttempts = 1
  ResultSends = 2
  MaxFaults = 2
  MaxConfirms = 2
  MaxResets = 1
  PromptGateway = FALSE
