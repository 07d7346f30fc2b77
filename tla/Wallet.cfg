CONSTANTS
  TxId = {credit, t1, t2}
  User = {u1, u2}
  NoUser = NoUser
  NoTx = NoTx
  Amount = {3}
  Unit = 2
  MaxDay = 0
  Caller = {c1}
  Worker = {w1}
  Limit = 4
  Minimum = 1
  MaxStalled = 0
  Opening <- TwoDollars
SPECIFICATION FairSpec
 
PROPERTIES Lifecycle MoneyComesToRest
