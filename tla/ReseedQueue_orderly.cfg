\* Three requests of at most two users for one coupon, one worker; the campaign is reset any number of times, with nothing under way;
\* one lost job, one command that runs twice and one rejected call, before a reset or after it.
CONSTANTS
  Requests = {r1, r2, r3}
  Users = {u1, u2}
  Workers = {w1}
  TotalStock = 1
  NoOne = NoOne
  MaxRejects = 1
  MaxLostAcks = 0
  MaxResends = 1
  MaxLostJobs = 1
  WaitsFor = {"requests", "workers"}
SPECIFICATION ReseedSpec
INVARIANT FreshStart
