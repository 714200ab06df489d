SPECIFICATION Spec
SYMMETRY Symmetry
INVARIANTS TypeOK BootLoadsCurrent SessionsMatchAccounts SetupIsWhole 
CONSTANTS
  Generations = 4
  Missing = Missing
  Corrupt = Corrupt
  Name = {a, b}
  Key = {k1, k2}
  NoKey = NoKey
  Setting = {s1, s2}
  Defaults = s1
  MaxUserId = 3
  MaxTokenId = 2
  MaximumUsers = 2
  MaximumSessions = 2
  MaxKeyGeneration = 2
