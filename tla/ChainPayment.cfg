CONSTANTS
  TxId = {t1, t2}
  NoTx = NoTx
  Hash = {h1, h2}
  NoHash = NoHash
  PaysFor = {t1, t2}
  Asked = {1}
  Amount = {1, 2}
  Caller = {c1}
  Worker = {w1}
  MaxHead = 3
  Confirms = 1
SPECIFICATION Spec
INVARIANTS TypeOK SyncTakesAll
PROPERTY SettlementMatchesChain
CONSTRAINTS FewBlocks OneTrouble
SYMMETRY AnyRowOrHash
CHECK_DEADLOCK FALSE
