\* Three requests of up to three users for two coupons, either path; one rejected call, one lost acknowledgement, one command that runs twice.
CONSTANTS
  Requests = {r1, r2, r3}
  Users = {u1, u2, u3}
  TotalStock = 2
  NoOne = NoOne
  Paths = {"decr", "eval"}
  MaxRejects = 1
  MaxLostAcks = 1
  MaxResends = 1
SPECIFICATION Spec
SYMMETRY Symmetry
INVARIANTS IInv CountTrails NoLeak UnsoldReturned
PROPERTY ImplementsSale
