\* Four calls on two emails, one of them that of the seeded admin; p2 is too short.
CONSTANTS
  c1 = c1
  c2 = c2
  c3 = c3
  c4 = c4
  p1 = p1
  p2 = p2
  Calls = {c1, c2, c3, c4}
  Emails = {e1, e2}
  Passwords = {p1, p2}
  Short = {p2}
  AdminEmail = e1
  AdminPassword = p1
  NoRow = NoRow
SPECIFICATION MCSpec
INVARIANTS AuthInv AnswersTrue OnlyAdminsCreate StaleExplained
PROPERTY PromotionTakesEffect
