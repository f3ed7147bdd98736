CONSTANTS
  Skus = {s1}
  NoSku = NoSku
  MaxQuantity = 1
  MaxItems = 2
  MaxFlying = 2
  MaxFaults = 1
  Polls = 2
SPECIFICATION FairSpec
INVARIANTS TypeOK OrderedOnce SuccessIsPaid
PROPERTIES OrderLeadsOn ReturnDecides
