SPECIFICATION EnvironmentSpec
INVARIANT BooksWellFormed
PROPERTY QueueingSparesOthers
CONSTRAINTS RegisteredFirst CompletionsOnly NoSessionAfterFault
SYMMETRY DeviceSymmetry
\* The gateway may rest: every node deleted and MaxConfirms used up.
CHECK_DEADLOCK FALSE
CONSTANTS
  NodeId = {1, 2, 3}
  Device = {d1, d2, d3}
  NoDevice = NoDevice
  Count = {0}
  MaxCommandId = 3
  FirstCommandIds = {2}
  Nonce = {n1}
  NoNonce = NoNonce
  MaxCommandRecords = 2
  SessionQueueDepth = 1
  RadioQueueDepth = 1
  MaxFaults = 1
  MaxConfirms = 3
