SPECIFICATION FairSpec
CONSTANTS
  Ttl = 1
  Flight = 1
  Guard = 1
  MaxChanges = 2
  MaxFlying = 2
  MaxFaults = 1
INVARIANTS
  TypeOK
  QuietIsFresh
  OwnChangeShown
  SavesOverlapOnlyWhenSlow
PROPERTIES
  PollersCatchUp
