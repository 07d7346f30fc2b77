------------------------------- MODULE Wallet -------------------------------
(***************************************************************************)
(* Both queues over one transaction table: the donations of PayTo, and     *)
(* payouts of the same members, which are checked against the same balance *)
(* by handlers that know nothing of the first.                             *)
(***************************************************************************)
EXTENDS PayTo

CONSTANT Minimum   \* PAYMENT_MINIMAL_PAYOUT_AMOUNT.HKD, in dollars

ASSUME WalletAssumption == Minimum \in Nat

VARIABLES account, payout, payouts, payoutStalled, payer, transfers, late

P == INSTANCE Payout WITH request <- payout, queue <- payouts,
                          stalled <- payoutStalled, worker <- payer

donationVars == <<today, request, queue, stalled, worker, history>>
payoutVars   == <<account, payout, payouts, payoutStalled, payer, transfers, late>>
walletVars   == <<tx, donationVars, payoutVars>>

WalletInit == Init /\ P!Init

WalletNext == \/ Next /\ UNCHANGED payoutVars
              \/ P!Next /\ UNCHANGED donationVars

WalletSpec == WalletInit /\ [][WalletNext]_walletVars

\* Bull keeps feeding the idle workers of both queues, their handlers keep
\* running, and the scheduled Lambda keeps cancelling.
FairSpec ==
  /\ WalletSpec
  /\ \A w \in Worker : /\ WF_walletVars(HandlerStep(w) /\ UNCHANGED payoutVars)
                       /\ WF_walletVars(P!HandlerStep(w) /\ UNCHANGED donationVars)
  /\ WF_walletVars(CancelTimeoutTransactions /\ UNCHANGED payoutVars)

-----------------------------------------------------------------------------
(* Properties.                                                             *)

\* What left the wallet: settled donations and transferred payouts.
Spent(u) ==
  {id \in TxId : /\ tx[id].sender = u
                 /\ tx[id].currency = "HKD"
                 /\ \/ tx[id].state = "succeeded"
                    \/ tx[id].state = "pending" /\ transfers[id] > 0}
    \ (history.late \cup late)

\* Two queues that check one balance on their own never let a member spend a
\* dollar more than ever received, in donations and payouts together: each
\* handler counts the pending rows of the other.
WalletNeverOverdrawn ==
  \A u \in User :
    AmountOf(tx, EverReceived(u)) - AmountOf(tx, Spent(u)) > -Unit

StatusOf(state) == CASE state = "none"      -> "none"
                     [] state = "pending"   -> "open"
                     [] state = "succeeded" -> "paid"
                     [] OTHER               -> "dropped"

TermsOf(row) == <<row.purpose, row.sender, row.recipient, row.amount>>

L == INSTANCE TxLifecycle
       WITH status  <- [id \in TxId |-> StatusOf(tx[id].state)],
            terms   <- [id \in TxId |-> TermsOf(tx[id])],
            Terms   <- Purpose \X (User \cup {NoUser}) \X (User \cup {NoUser}) \X Nat

\* Both queues, the timer and the mutations together keep a transaction's
\* life: its terms never change and it never becomes pending again.
Lifecycle == L!Spec

\* A queued payout is decided, or nobody is responsible for it any more, also
\* while donations keep changing the balance it is checked against: handlePayout
\* waits for nobody (queue/payout.ts:121-234).
PayoutsDecided == P!PayoutsDecided

\* Every donation comes to rest although its enqueue may be lost, its job be
\* given up, and the timer race with its handler (DonationsComeToRest); payouts
\* do not delay it.  Money under way comes to rest in either queue, whatever
\* the other does.
MoneyComesToRest == PayoutsDecided /\ DonationsComeToRest

-----------------------------------------------------------------------------
(* The instance checked: one member has two dollars, donates one and a     *)
(* half to another and cashes out as much at the same time.                *)

TwoDollars ==
  LET credit == CHOOSE id \in TxId : TRUE
      member == CHOOSE u \in User : TRUE
  IN  [id \in TxId |-> IF id = credit
                       THEN Row("addCredit", "succeeded", NoUser, member, 2 * Unit, 0)
                       ELSE NoRow]
=============================================================================
