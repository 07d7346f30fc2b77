CONSTANTS
  User = {u1}
  Ring = {r1, r2}
  NoRing = NoRing
  Detection = {d1}
  Dismissal = {p1}
SPECIFICATION Spec
INVARIANTS TypeOK ClaimsFitStatus FreezeOnRecord
PROPERTIES UnfreezeUndoesFreeze
