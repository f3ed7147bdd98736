CONSTANTS
  o1 = o1  o2 = o2  p1 = p1  p2 = p2  w1 = w1  w2 = w2
  Orders = {o1, o2}
  Payments = {p1, p2}
  Coupons = {c1}
  Workers = {}
  MaxEvents = 2
  InitialStock = 1
  NoOrder = NoOrder
  NoPayment = NoPayment
  NoJob = NoJob
SPECIFICATION LockedSpec
INVARIANTS TypeOK StockConserved CouponFollowsOrder MoneyAccounted
PROPERTY ImplementsPromise
SYMMETRY Symmetry
