CONSTANTS
  User = {u1}
  NoUser = NoUser
  Staff = {p1, p2}
  Failures = TRUE
SPECIFICATION FairSpec
 
INVARIANTS TypeOK HamVerdictKept
