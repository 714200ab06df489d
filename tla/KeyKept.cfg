SPECIFICATION Spec
INVARIANT KeyWipedAfterPairing
CONSTANTS
  Device = {d1}
  NoDevice = NoDevice
  NoRecord = NoRecord
  Nonce = {n1}
  MaxNodes = 1
  QueueDepth = 2
  InboxDepth = 1
  MaxOpens = 2
  MaxFaults = 0
