CONSTANTS
  Session = {s1, s2}
  Request = {r1, r2}
  Editing = {e1, e2}
  Person = {p}
  Title = {t1, t2}
  Member = {m1}
  Reviewer = {f1, f2}
  Lambda = {w1, w2}
  MaxRevisions = 2
  MaxEdits = 3
  MaxRequests = 3
  MaxLikes = 3
  MaxVersions = 2
  MaxFaults = 1
SPECIFICATION Spec
INVARIANTS TypeOK DraftsPublishedOnce 
PROPERTIES  CopiesFollowSettings  
CHECK_DEADLOCK FALSE
