CONSTANTS
  k1 = k1  k2 = k2  u1 = u1  u2 = u2  w1 = w1  w2 = w2  a1 = a1  p1 = p1
  Keys = {k1}
  Units = {u1}
  Workers = {w1, w2}
  Admins = {a1}
  Polls = {p1}
  MaxAttempts = 3
  Idempotent = FALSE
  Queryable = FALSE
  Strict = FALSE
  NoKey = NoKey
SPECIFICATION FairSpec
INVARIANT SuccessIsReal
PROPERTY UnknownIsResolved
CHECK_DEADLOCK FALSE
