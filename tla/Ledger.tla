------------------------------- MODULE Ledger -------------------------------
(***************************************************************************)
(* The `transaction` table every payment path shares, and the three sums   *)
(* PaymentService reads from it.  A row is indexed by its id; "none" says  *)
(* that no row of that id exists.  Amounts are counted in cents of which   *)
(* Unit make one dollar, because the sums are truncated by parseInt.       *)
(***************************************************************************)
EXTENDS Integers, FiniteSets, FiniteSetsExt

CONSTANTS TxId,     \* ids the table may hand out
          User,     \* members who pay and are paid
          NoUser,   \* a NULL sender_id or recipient_id
          Amount,   \* amounts in cents a request may name
          Unit,     \* cents in a dollar
          MaxDay    \* days the model runs through (bound)

ASSUME LedgerAssumption ==
  /\ NoUser \notin User
  /\ Unit \in Nat \ {0}
  /\ Amount \subseteq Nat \ {0}
  /\ MaxDay \in Nat

TxState  == {"none", "pending", "succeeded", "failed", "canceled"}
Purpose  == {"donation", "payout", "addCredit", "refund", "dispute",
             "payoutReversal"}
Currency == {"HKD", "LIKE"}

Tx == [state     : TxState,
       purpose   : Purpose,
       currency  : Currency,
       sender    : User \cup {NoUser},
       recipient : User \cup {NoUser},
       amount    : Nat,
       day       : 0..MaxDay]   \* the UTC+8 day of created_at

Table == [TxId -> Tx]

Row(purpose, state, sender, recipient, amount, day) ==
  [state |-> state, purpose |-> purpose, currency |-> "HKD",
   sender |-> sender, recipient |-> recipient, amount |-> amount,
   day |-> day]

NoRow == Row("donation", "none", NoUser, NoUser, 0, 0)

\* createTransaction: a row under an id not used yet.
Insert(tbl, id, row) == [tbl EXCEPT ![id] = row]

\* markTransactionStateAs and baseUpdate({state}): no look at the old state.
MarkState(tbl, id, state) == [tbl EXCEPT ![id].state = state]

-----------------------------------------------------------------------------

\* The rows that are there.
Existing(tbl) == {id \in TxId : tbl[id].state # "none"}

AmountOf(tbl, ids) == MapThenSumSet(LAMBDA id : tbl[id].amount, ids)

Received(tbl, u) ==
  {id \in TxId : /\ tbl[id].recipient = u
                 /\ tbl[id].currency = "HKD"
                 /\ tbl[id].state = "succeeded"}

Settled(tbl, u) ==
  {id \in TxId : /\ tbl[id].sender = u
                 /\ tbl[id].currency = "HKD"
                 /\ tbl[id].state = "succeeded"}

Committed_SucceededOnly(tbl, u) == Settled(tbl, u)

\* What is spent and what is still pending count alike.
Committed(tbl, u) ==
  {id \in TxId : /\ tbl[id].sender = u
                 /\ tbl[id].currency = "HKD"
                 /\ tbl[id].state \in {"succeeded", "pending"}}

\* parseInt: towards zero, so minus half a dollar reads as zero.
Dollars(cents) ==
  IF cents >= 0 THEN cents \div Unit ELSE -((-cents) \div Unit)

HKDBalance(tbl, u) ==
  Dollars(AmountOf(tbl, Received(tbl, u)) - AmountOf(tbl, Committed(tbl, u)))

PendingPayouts_CountsPaid(tbl, u) ==
  Cardinality({id \in TxId : /\ tbl[id].purpose = "payout"
                             /\ tbl[id].sender = u
                             /\ tbl[id].state = "succeeded"})

PendingPayouts(tbl, u) ==
  Cardinality({id \in TxId : /\ tbl[id].purpose = "payout"
                             /\ tbl[id].sender = u
                             /\ tbl[id].state = "pending"})

\* The query names no currency: every succeeded donation of the day counts.
DonationsOn(tbl, u, day) ==
  {id \in TxId : /\ tbl[id].purpose = "donation"
                 /\ tbl[id].sender = u
                 /\ tbl[id].state = "succeeded"
                 /\ tbl[id].day = day}

HKDDonationsOn(tbl, u, day) ==
  {id \in DonationsOn(tbl, u, day) : tbl[id].currency = "HKD"}

DonatedOn(tbl, u, day) == Dollars(AmountOf(tbl, DonationsOn(tbl, u, day)))

TimesOut_SparesDonations(row) ==
  row.state = "pending" /\ row.purpose \notin {"payout", "dispute", "donation"}

TimesOut_AnyState(row) ==
  row.state # "none" /\ row.purpose \notin {"payout", "dispute"}

\* cancelTimeoutTransactions takes pending rows of any purpose but these two.
TimesOut(row) == row.state = "pending" /\ row.purpose \notin {"payout", "dispute"}

=============================================================================
