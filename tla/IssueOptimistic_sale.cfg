\* Three requests of up to three users for two coupons, two attempts each; one rejected call, one lost acknowledgement.
CONSTANTS
  Requests = {r1, r2, r3}
  Users = {u1, u2, u3}
  TotalStock = 2
  NoOne = NoOne
  MaxRetry = 2
  MaxRejects = 1
  MaxLostAcks = 1
SPECIFICATION Spec
SYMMETRY Symmetry
INVARIANTS IInv RetriesArePaidFor
PROPERTY ImplementsSale
