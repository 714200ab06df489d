SPECIFICATION FairSpec
INVARIANTS TypeOK IInv StoreIsCurrent CommandsWereQueued
PROPERTIES CommandSettles SessionEnds
CONSTANTS
  NodeId = {1}
  Device = {d1}
  NoDevice = NoDevice
  Count = {0}
  CountLimit = 1
  MaxCommandId = 2
  FirstCommandIds = {2}
  Nonce = {n1, n2}
  NoNonce = NoNonce
  MaxCommandRecords = 1
  SessionQueueDepth = 2
  RadioQueueDepth = 1
  SessionAttempts = 2
  ResultSends = 2
  MaxFaults = 2
  MaxConfirms = 2
  MaxResets = 1
  PromptGateway = TRUE
