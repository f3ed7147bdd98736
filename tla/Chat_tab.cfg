CONSTANTS
  Convs = {c1}
  NoConv = NoConv
  Kinds = {"text"}
  MaxMessages = 2
  MaxChannels = 2
  MaxTries = 1
  MaxBatch = 1
  MaxSends = 2
  MaxTemps = 2
  MaxLoads = 1
  MaxFaults = 1
SPECIFICATION FairSpec
INVARIANTS TypeOK OthersShownOnce TempIsSending
PROPERTIES AgentSeesAll
CHECK_DEADLOCK FALSE
