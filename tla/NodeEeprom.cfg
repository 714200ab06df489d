SPECIFICATION Spec
INVARIANTS TypeOK ResetIsInvisible
PROPERTY ImplementsRegisters
CONSTANTS
  Join = {j1}
  CommandId = {1}
  CountLimit = 2
  Generations = 4
  RingSequences = 5
  RingSize = 3
  Torn = Torn
