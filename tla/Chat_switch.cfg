CONSTANTS
  Convs = {c1, c2}
  NoConv = NoConv
  Kinds = {"text", "card", "close", "patch"}
  MaxMessages = 1
  MaxChannels = 2
  MaxTries = 1
  MaxBatch = 2
  MaxSends = 1
  MaxTemps = 2
  MaxLoads = 1
  MaxFaults = 0
SPECIFICATION Spec
INVARIANTS ReadMeansOpened
CHECK_DEADLOCK FALSE
