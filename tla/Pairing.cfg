SPECIFICATION Spec
INVARIANTS TypeOK JoinedIsRegistered ActiveHasJoined
CONSTANTS
  Device = {d1, d2}
  NoDevice = NoDevice
  NoRecord = NoRecord
  Nonce = {n1, n2}
  MaxNodes = 2
  QueueDepth = 2
  InboxDepth = 1
  MaxOpens = 2
  MaxFaults = 1
SYMMETRY Symmetry
