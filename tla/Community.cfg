CONSTANTS
  Request = {r1, r2}
  Pinnable = {p, q, r}
  Channel = {c1, c2}
  Article = {a, b, c, d}
  Paper = {a1, a2}
  Shelf = {s1, s2}
  Reason = {porn, spam}
  Circle = {k1, k2}
  Subscribed = {u1, u2}
  PinAmount = 2
  TopicLimit = 2
  MaxJobs = 1
  MaxTasks = 2
  Limit = 3
  Unit = 4
  MaxAsked = 2
  PinLimit = 2
  MaxWrites = 4
  MaxActions = 2
  MaxUpdates = 2
  MaxDonations = 3
  MaxRows = 3
  MaxSlips = 2
  MaxFaults = 1
SPECIFICATION Spec
INVARIANTS TypeOK
PROPERTIES PlacesKept  PaymentsMatchProviders
CHECK_DEADLOCK FALSE
SYMMETRY Symmetry
