\* Three requests of two users with two keys, at most two per window; one rejected call, one INCR that runs twice.
CONSTANTS
  Requests = {r1, r2, r3}
  Users = {u1, u2}
  Keys = {k1, k2}
  NoKey = NoKey
  r1 = r1
  r2 = r2
  r3 = r3
  u1 = u1
  u2 = u2
  k1 = k1
  TotalStock = 1
  Limit = 2
  NoOne = NoOne
  MaxRejects = 1
  MaxLostAcks = 0
  MaxDoubleHits = 1
SPECIFICATION MCSpec
INVARIANTS RouteInv RepliesTruthful
PROPERTIES ReplayProtects LimitLifted
