\* Three requests of up to three users for two coupons, two workers under fairness; one lost job, one command that runs twice, one rejected call.
CONSTANTS
  Requests = {r1, r2, r3}
  Users = {u1, u2, u3}
  Workers = {w1, w2}
  TotalStock = 2
  NoOne = NoOne
  MaxRejects = 1
  MaxLostAcks = 0
  MaxResends = 1
  MaxLostJobs = 1
SPECIFICATION MCFairSpec
INVARIANTS IInv EventualConsistency
PROPERTIES ImplementsSale IssuedUnlessLost
