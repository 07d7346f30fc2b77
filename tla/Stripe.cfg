CONSTANTS
  TxId = {pi, re, du, rv, payout}
  Intent = {pi}
  Refund = {re}
  Dispute = {du}
  Reversal = {rv}
  User = {u1}
  NoUser = NoUser
  Amount = {1}
  Unit = 1
  MaxDay = 0
  Owner <- OneOwner
  Of <- OnlyOne
  Price = 1
  Handler = {h1, h2}
  Opening <- OnePayout
SPECIFICATION Spec
INVARIANTS TypeOK CreditMatchesCharge DisputeVerdictKept
PROPERTY FailedRefundsGivenBack
SYMMETRY AnyHandler
CONSTRAINT OneTrouble
