CONSTANTS
  TxId = {rv, payout}
  Intent = {}
  Refund = {}
  Dispute = {}
  Reversal = {rv}
  User = {u1}
  NoUser = NoUser
  Amount = {1}
  Unit = 1
  MaxDay = 0
  Owner <- OneOwner
  Of <- OnlyOne
  Price = 1
  Handler = {h1}
  Opening <- OnePayout
SPECIFICATION FairSpec
PROPERTY ReversedPayoutBans
