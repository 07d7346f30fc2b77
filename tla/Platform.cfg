CONSTANTS
  Mailer = {m1, m2}
  Reader = {r1, r2}
  Job = job
  Stage = {s1, s2}
  None = none
  Tag = {x, y, z}
  New = z
  Article = {a}
  Member = {m}
  Author = u4
  Reporter = {u1, u2, u3, u4}
  Topic = {t1, t2}
  Picked = {b, c}
  Person = {p, q, r}
  NoPerson = noPerson
  PinAmount = 1
  Threshold = 3
  MaxVisits = 1
  MaxTime = 3
  MaxCode = 2
  MaxAsked = 4
  MaxMerges = 2
  MaxGifts = 5
  MaxMoves = 4
  MaxRows = 2
  MaxEdits = 1
  MaxStops = 1
SPECIFICATION Spec
INVARIANTS TypeOK
PROPERTIES MembersToldOnce   
CHECK_DEADLOCK FALSE
