CONSTANTS
  User = {u1}
  NoUser = NoUser
  Staff = {p1}
  Failures = FALSE
SPECIFICATION Spec
PROPERTIES ArchivedNotRevived
