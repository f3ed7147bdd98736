CONSTANTS
  k1 = k1  k2 = k2  u1 = u1  u2 = u2  w1 = w1  w2 = w2  a1 = a1  p1 = p1
  Keys = {k1, k2}
  Units = {u1, u2}
  Workers = {w1, w2}
  Admins = {}
  Polls = {}
  MaxAttempts = 2
  Idempotent = TRUE
  Queryable = TRUE
  Strict = TRUE
  NoKey = NoKey
SPECIFICATION Spec
INVARIANTS TypeOK NeverOverReserved FailureIsReal PaidOutOnce
PROPERTIES ImplementsRefundPromise BooksFollowRefunds
SYMMETRY Symmetry
CHECK_DEADLOCK FALSE
