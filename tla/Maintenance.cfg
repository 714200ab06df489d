SPECIFICATION FairSpec
CONSTANTS
  Key = {k1, k2, k3}
  NoKey = NoKey
  Empty = Empty
  Pending = Pending
  Written = Written
  MaxFaults = 3
INVARIANTS TypeOK OneInstallation ResetForgets RestoreIsComplete
PROPERTIES NothingVanishes Recoverable
