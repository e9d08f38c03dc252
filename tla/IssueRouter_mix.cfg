\* Three requests of up to three users, two in flight at a time, for one coupon;
\* one rejected call, one lost acknowledgement, one command that runs twice.
CONSTANTS
  Requests = {r1, r2, r3}
  Users = {u1, u2, u3}
  Workers = {w1}
  TotalStock = 1
  VUs = 2
  NoOne = NoOne
  MaxRetry = 2
  MaxRejects = 1
  MaxLostAcks = 1
  MaxResends = 1
  MaxLostJobs = 0
SPECIFICATION Spec
SYMMETRY Symmetry
INVARIANTS IInv OversellBounded StoresAgree FalseRepeatsExplained
