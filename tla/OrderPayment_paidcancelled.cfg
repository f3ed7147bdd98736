CONSTANTS
  o1 = o1  o2 = o2  p1 = p1  p2 = p2  w1 = w1  w2 = w2
  Orders = {o1}
  Payments = {p1}
  Coupons = {c1}
  Workers = {w1}
  MaxEvents = 2
  InitialStock = 1
  NoOrder = NoOrder
  NoPayment = NoPayment
  NoJob = NoJob
SPECIFICATION Spec
PROPERTY PaidNeverCancelled
