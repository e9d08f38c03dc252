\* Three requests of up to three users for two coupons; one call may reject, one acknowledgement may be lost.
CONSTANTS
  Requests = {r1, r2, r3}
  Users = {u1, u2, u3}
  TotalStock = 2
  NoOne = NoOne
  MaxRejects = 1
  MaxLostAcks = 1
SPECIFICATION Spec
SYMMETRY Symmetry
INVARIANTS IInv NotOversold CountsAgree ExactSale UnsoldExplained
PROPERTY ImplementsSale
