\* Two copies of one request, nothing fails: the second passes the cache before the first has answered.
CONSTANTS
  Requests = {r1, r2}
  Users = {u1}
  Keys = {k1}
  NoKey = NoKey
  TotalStock = 1
  Limit = 2
  NoOne = NoOne
  MaxRejects = 0
  MaxLostAcks = 0
  MaxDoubleHits = 0
SPECIFICATION RouteSpec
INVARIANT SameKeySameAnswer
