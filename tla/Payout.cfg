CONSTANTS
  TxId = {credit, t1, t2}
  User = {u1}
  NoUser = NoUser
  NoTx = NoTx
  Amount = {4}
  Unit = 2
  MaxDay = 0
  Caller = {c1, c2}
  Worker = {w1, w2}
  Minimum = 2
  MaxStalled = 1
  Opening <- HalfDollarOver
SPECIFICATION Spec
INVARIANTS TypeOK SucceededWasTransferred TransfersBoundedByDeliveries OnePayoutInFlight
SYMMETRY AnyName
