\* Three requests of up to three users for two coupons, under fairness; one abort and one lost acknowledgement.
CONSTANTS
  Requests = {r1, r2, r3}
  Users = {u1, u2, u3}
  TotalStock = 2
  NoOne = NoOne
  MaxRejects = 1
  MaxLostAcks = 1
SPECIFICATION FairSpec
INVARIANTS IInv ExactSale
PROPERTIES ImplementsSale NobodyWaitsForever
