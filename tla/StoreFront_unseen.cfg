CONSTANTS
  Skus = {s1}
  NoSku = NoSku
  MaxQuantity = 1
  MaxItems = 1
  MaxFlying = 2
  MaxFaults = 0
  Polls = 3
SPECIFICATION Spec
PROPERTY PaymentSeen
