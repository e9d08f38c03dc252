\* Two tasks and up to two polls at a time; a campaign sells out, perhaps gets a slot back and sells out again; one mishap.
CONSTANTS
  u1 = u1
  u2 = u2
  c1 = c1
  c2 = c2
  p1 = p1
  p2 = p2
  Users = {u1, u2}
  Campaigns = {c1, c2}
  Nobody = Nobody
  MaxTasks = 2
  Polls = {p1, p2}
  Contested = {c1}
  MaxChanges = 3
  MaxMishaps = 1
SPECIFICATION MCSpec
INVARIANTS TabInv BusyGuards Settled
PROPERTY SoldOutShown
