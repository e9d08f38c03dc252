\* Two requests of two users for one coupon, a resident worker; the campaign is reset between two runs, whatever the worker has in hand.
CONSTANTS
  Requests = {r1, r2}
  Users = {u1, u2}
  Workers = {w1}
  TotalStock = 1
  NoOne = NoOne
  MaxRejects = 0
  MaxLostAcks = 0
  MaxResends = 0
  MaxLostJobs = 0
  WaitsFor = {"requests"}
SPECIFICATION ReseedSpec
INVARIANT RunsDoNotMix
