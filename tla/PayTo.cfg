CONSTANTS
  credit = credit
  gift = gift
  cash = cash
  u1 = u1
  u2 = u2
  TxId = {credit, gift, cash, t1, t2}
  User = {u1, u2}
  NoUser = NoUser
  NoTx = NoTx
  Amount <- MCAmount
  Unit = 2
  MaxDay = 1
  Caller = {c1, c2}
  Worker = {w1}
  Limit = 2
  MaxStalled = 1
  Opening <- MCOpening
SPECIFICATION Spec
INVARIANTS TypeOK OverdraftExplained 
SYMMETRY MCSymmetry
