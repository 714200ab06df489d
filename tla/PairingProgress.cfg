SPECIFICATION FairSpec
INVARIANTS JoinedIsRegistered
PROPERTIES ProvisionalJoins
CONSTANTS
  Device = {d1}
  NoDevice = NoDevice
  NoRecord = NoRecord
  Nonce = {n1, n2}
  MaxNodes = 1
  QueueDepth = 2
  InboxDepth = 1
  MaxOpens = 1
  MaxFaults = 2
