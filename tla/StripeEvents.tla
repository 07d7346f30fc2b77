---------------------------- MODULE StripeEvents ----------------------------
(***************************************************************************)
(* The Stripe webhook: add-credit payments, refunds, disputes and payout   *)
(* reversals.  Stripe (external) keeps its own state and announces every   *)
(* change by an event; events arrive in any order, again after an answer   *)
(* that was no 200, and sometimes again after one that was.  Handlers run  *)
(* concurrently and look before they insert; a row is indexed here by its  *)
(* provider_tx_id, which the database keeps unique.                        *)
(***************************************************************************)
EXTENDS Ledger, TLC

CONSTANTS Intent,      \* payment intents, ids of add-credit rows
          Refund,      \* refunds, ids of refund rows
          Dispute,     \* disputes, ids of dispute rows
          Reversal,    \* transfer reversals, ids of payout reversal rows
          Owner,       \* Intent -> the member who pays
          Of,          \* Refund, Dispute -> its intent; Reversal -> its payout
          Price,       \* the amount of every intent
          Handler,     \* webhook requests served at once
          Opening      \* the table before the first event

\* Stripe's ids tell the kinds of objects apart, none of which is in the table
\* yet; a transfer that may be reversed is a payout some member asked for.
ASSUME StripeAssumption ==
  LET objects == Intent \cup Refund \cup Dispute \cup Reversal
  IN  /\ TxId = DOMAIN Opening /\ Opening \in Table
      /\ objects \subseteq TxId
      /\ Intent \cap Refund = {} /\ (Intent \cup Refund) \cap Dispute = {}
      /\ (Intent \cup Refund \cup Dispute) \cap Reversal = {}
      /\ \A o \in objects : Opening[o].state = "none"
      /\ Owner \in [Intent -> User]
      /\ DOMAIN Of = Refund \cup Dispute \cup Reversal
      /\ \A o \in Refund \cup Dispute : Of[o] \in Intent
      /\ \A o \in Reversal : /\ Of[o] \in TxId \ objects
                             /\ Opening[Of[o]].purpose = "payout"
                             /\ Opening[Of[o]].sender \in User
      /\ Price \in Amount

VARIABLES tx,       \* the transaction table
          banned,   \* members in state banned
          stripe,   \* at Stripe: the status of every object
          sent,     \* events Stripe has announced
          acked,    \* events Stripe got a 200 for
          handler,  \* Handler -> the request it serves
          marking,  \* refunds whose unawaited update to failed is under way
          lost      \* not in the code: refunds whose unawaited update failed

vars == <<tx, banned, stripe, sent, acked, handler, marking, lost>>

Object == Intent \cup Refund \cup Dispute \cup Reversal

Status == {"none", "open", "processing", "succeeded", "canceled", "failed",
           "won", "lost", "warning_closed"}

PaymentEvent == {"processing", "succeeded", "payment_failed", "high_risk",
                 "canceled"}

EventType == PaymentEvent \cup
  {"refunded", "refund_failed", "dispute_created", "dispute_closed", "reversed"}

Event == [type : EventType, object : Object]

On(type, object) == [type |-> type, object |-> object]

NoEvent == [type |-> "none", object |-> "none"]

Waiting == [pc |-> "waiting", event |-> NoEvent, exists |-> FALSE,
            payment |-> "none"]

HandlerState == [pc      : {"waiting", "looked", "payment", "inserted"},
                 event   : Event \cup {NoEvent},
                 exists  : BOOLEAN,
                 payment : TxState]

TypeOK ==
  /\ tx \in Table
  /\ banned \in SUBSET User
  /\ stripe \in [Object -> Status]
  /\ sent \in SUBSET Event
  /\ acked \in SUBSET sent
  /\ handler \in [Handler -> HandlerState]
  /\ marking \in SUBSET Refund
  /\ lost \in SUBSET Refund

Init ==
  /\ tx = Opening
  /\ banned = {}
  /\ stripe = [o \in Object |-> "none"]
  /\ sent = {} /\ acked = {}
  /\ handler = [h \in Handler |-> Waiting]
  /\ marking = {} /\ lost = {}

Exists(id) == tx[id].state # "none"

-----------------------------------------------------------------------------
(* addCredit: the intent is created at Stripe before the row is inserted,  *)
(* and only the mutation's answer lets the member pay.                     *)

CreateIntent(i) ==
  /\ stripe[i] = "none"
  /\ stripe' = [stripe EXCEPT ![i] = "open"]
  /\ UNCHANGED <<tx, banned, sent, acked, handler, marking, lost>>

InsertCredit(i) ==
  /\ stripe[i] = "open" /\ ~Exists(i)
  /\ tx' = Insert(tx, i, Row("addCredit", "pending", NoUser, Owner[i], Price, 0))
  /\ UNCHANGED <<banned, stripe, sent, acked, handler, marking, lost>>

-----------------------------------------------------------------------------
(* Stripe.                                                                 *)

Announce(o, status, type) ==
  /\ stripe' = [stripe EXCEPT ![o] = status]
  /\ sent' = sent \cup {On(type, o)}
  /\ acked' = acked \ {On(type, o)}
  /\ UNCHANGED <<tx, banned, handler, marking, lost>>

Payment(i) ==
  /\ Exists(i)
  /\ \/ stripe[i] = "open" /\ Announce(i, "processing", "processing")
     \/ stripe[i] \in {"open", "processing"} /\
          \/ Announce(i, "succeeded", "succeeded")
          \/ Announce(i, "open", "payment_failed")
          \/ Announce(i, "open", "high_risk")
     \/ stripe[i] = "open" /\ Announce(i, "canceled", "canceled")

RefundCharge(r) ==
  \/ stripe[r] = "none" /\ stripe[Of[r]] = "succeeded" /\ Announce(r, "open", "refunded")
  \/ stripe[r] = "open" /\ Announce(r, "failed", "refund_failed")

DisputeCharge(d) ==
  \/ stripe[d] = "none" /\ stripe[Of[d]] = "succeeded" /\ Announce(d, "open", "dispute_created")
  \/ /\ stripe[d] = "open"
     /\ \E s \in {"won", "lost", "warning_closed"} : Announce(d, s, "dispute_closed")

ReverseTransfer(v) ==
  stripe[v] = "none" /\ Announce(v, "open", "reversed")

-----------------------------------------------------------------------------
(* updateTxState: looks the row up and marks it; no row, nothing to do.    *)

PaymentState_Verbatim(type) == type

PaymentState_ProcessingCounts(type) ==
  CASE type = "canceled"                       -> "canceled"
    [] type \in {"payment_failed", "high_risk"} -> "failed"
    [] type \in {"processing", "succeeded"}    -> "succeeded"

PaymentState(type) ==
  CASE type = "canceled"                       -> "canceled"
    [] type \in {"payment_failed", "high_risk"} -> "failed"
    [] type = "processing"                     -> "pending"
    [] type = "succeeded"                      -> "succeeded"

UpdateTxState(e) ==
  /\ e.type \in PaymentEvent
  /\ Exists(e.object)
  /\ tx' = MarkState(tx, e.object, PaymentState(e.type))
  /\ \/ /\ acked' = acked \cup {e}
        /\ banned' = IF e.type = "high_risk"
                     THEN banned \cup {tx[e.object].recipient} ELSE banned
     \/ UNCHANGED <<acked, banned>>     \* the mail or the ban threw
  /\ UNCHANGED <<stripe, sent, handler, marking, lost>>

-----------------------------------------------------------------------------
(* The other events: look for the row, look for the payment, write.        *)

Serving(h, pc) == handler[h].pc = pc

Look(h, e) ==
  /\ Serving(h, "waiting")
  /\ e.type \notin PaymentEvent
  /\ handler' = [handler EXCEPT ![h] =
       [pc |-> "looked", event |-> e, exists |-> Exists(e.object),
        payment |-> "none"]]
  /\ UNCHANGED <<tx, banned, stripe, sent, acked, marking, lost>>

LookForPayment(h) ==
  /\ Serving(h, "looked")
  /\ handler[h].event.type # "dispute_closed"
  /\ handler[h].event.type # "reversed" => ~handler[h].exists
  /\ handler' = [handler EXCEPT ![h].pc = "payment",
                   ![h].payment = tx[Of[handler[h].event.object]].state]
  /\ UNCHANGED <<tx, banned, stripe, sent, acked, marking, lost>>

\* A 200 for the event; the handler is free again.
Acknowledge(h) ==
  /\ acked' = acked \cup {handler[h].event}
  /\ handler' = [handler EXCEPT ![h] = Waiting]

\* createRefundTxs and createDisputeTx skip a row that exists.
SkipExisting(h) ==
  /\ Serving(h, "looked") /\ handler[h].exists
  /\ handler[h].event.type \in {"refunded", "dispute_created"}
  /\ Acknowledge(h)
  /\ UNCHANGED <<tx, banned, stripe, sent, marking, lost>>

\* createOrUpdateFailedRefundTx does not await its update.
MarkRefundFailed(h) ==
  /\ Serving(h, "looked") /\ handler[h].exists
  /\ handler[h].event.type = "refund_failed"
  /\ marking' = marking \cup {handler[h].event.object}
  /\ Acknowledge(h)
  /\ UNCHANGED <<tx, banned, stripe, sent, lost>>

RefundMarked(r) ==
  /\ r \in marking
  /\ marking' = marking \ {r}
  /\ \/ tx' = MarkState(tx, r, "failed") /\ UNCHANGED lost
     \/ lost' = lost \cup {r} /\ UNCHANGED tx
  /\ UNCHANGED <<banned, stripe, sent, acked, handler>>

\* updateDisputeTx: won by us means the member keeps the credit.
CloseDispute(h) ==
  LET d == handler[h].event.object IN
  /\ Serving(h, "looked") /\ handler[h].exists
  /\ handler[h].event.type = "dispute_closed"
  /\ tx' = MarkState(tx, d, CASE stripe[d] = "won"  -> "failed"
                              [] stripe[d] = "lost" -> "succeeded"
                              [] stripe[d] = "warning_closed" -> "canceled")
  /\ Acknowledge(h)
  /\ UNCHANGED <<banned, stripe, sent, marking, lost>>

InitialState_AlwaysBooked(type) ==
  IF type = "dispute_created" THEN "pending" ELSE "succeeded"

InitialState(type) ==
  CASE type = "refunded"        -> "succeeded"
    [] type = "refund_failed"   -> "failed"
    [] type = "dispute_created" -> "pending"
    [] type = "reversed"        -> "succeeded"

NewRow(e) ==
  LET of == tx[Of[e.object]] IN
  CASE e.type \in {"refunded", "refund_failed"} ->
         Row("refund", InitialState(e.type), of.recipient, NoUser, of.amount, 0)
    [] e.type = "dispute_created" ->
         Row("dispute", "pending", of.recipient, NoUser, of.amount, 0)
    [] e.type = "reversed" ->
         Row("payoutReversal", "succeeded", NoUser, of.sender, of.amount, 0)

PaymentFits(h) ==
  IF handler[h].event.type = "dispute_created"
  THEN handler[h].payment = "succeeded"
  ELSE handler[h].payment # "none"

Insertable_Upsert(id) == TRUE

Insertable(id) == ~Exists(id)

\* The unique provider_tx_id refuses a row inserted in the meantime.
InsertRow(h) ==
  LET e == handler[h].event IN
  /\ Serving(h, "payment") /\ PaymentFits(h) /\ Insertable(e.object)
  /\ tx' = Insert(tx, e.object, NewRow(e))
  /\ IF e.type = "reversed"
     THEN /\ handler' = [handler EXCEPT ![h].pc = "inserted"]
          /\ UNCHANGED acked
     ELSE Acknowledge(h)
  /\ UNCHANGED <<banned, stripe, sent, marking, lost>>

\* transfer.reversed bans the member once the reversal is in the table.
BanForReversal(h) ==
  /\ Serving(h, "inserted")
  /\ banned' = banned \cup {tx[Of[handler[h].event.object]].sender}
  /\ Acknowledge(h)
  /\ UNCHANGED <<tx, stripe, sent, marking, lost>>

\* Any read or write throws, or the server stops: no 200, Stripe retries.
Throw(h) ==
  /\ ~Serving(h, "waiting")
  /\ handler' = [handler EXCEPT ![h] = Waiting]
  /\ UNCHANGED <<tx, banned, stripe, sent, acked, marking, lost>>

-----------------------------------------------------------------------------

CancelTimeoutTransactions ==
  \E ids \in SUBSET {id \in TxId : TimesOut(tx[id])} :
     /\ ids # {}
     /\ tx' = [id \in TxId |-> IF id \in ids
                               THEN [tx[id] EXCEPT !.state = "canceled"]
                               ELSE tx[id]]
     /\ UNCHANGED <<banned, stripe, sent, acked, handler, marking, lost>>

StripeStep == \/ \E i \in Intent : Payment(i)
              \/ \E r \in Refund : RefundCharge(r)
              \/ \E d \in Dispute : DisputeCharge(d)
              \/ \E v \in Reversal : ReverseTransfer(v)

Write(h) == \/ SkipExisting(h) \/ MarkRefundFailed(h) \/ CloseDispute(h)
            \/ InsertRow(h) \/ BanForReversal(h)

Next ==
  \/ \E i \in Intent : CreateIntent(i) \/ InsertCredit(i)
  \/ StripeStep
  \/ \E e \in sent : UpdateTxState(e)
  \/ \E h \in Handler : \/ \E e \in sent : Look(h, e)
                        \/ LookForPayment(h) \/ Write(h) \/ Throw(h)
  \/ \E r \in Refund : RefundMarked(r)
  \/ CancelTimeoutTransactions

Spec == Init /\ [][Next]_vars

\* Stripe keeps retrying what was not acknowledged, a request that can be
\* answered is sometimes answered, and one that cannot does not hang forever.
FairSpec ==
  /\ Spec
  /\ \A h \in Handler :
       /\ SF_vars(\E e \in sent \ acked : Look(h, e))
       /\ SF_vars(LookForPayment(h)) /\ SF_vars(Write(h)) /\ WF_vars(Throw(h))

-----------------------------------------------------------------------------
(* Properties.                                                             *)

\* No order of events, retries and timeouts credits a member for a payment
\* Stripe never completed.
CreditOnlyIfCharged ==
  \A i \in Intent : tx[i].state = "succeeded" => stripe[i] = "succeeded"

\* A completed payment whose only event is acknowledged stays credited, even
\* when the timer had cancelled its row before the event came.  (An older
\* event of the same payment coming in late does take the credit away.)
ChargedIsCredited ==
  \A i \in Intent :
    (/\ On("succeeded", i) \in acked
     /\ \A e \in sent : e.object = i => e.type = "succeeded")
    => tx[i].state = "succeeded"

\* The member's credit is what Stripe charged, neither more nor less.
CreditMatchesCharge == CreditOnlyIfCharged /\ ChargedIsCredited

\* Once Stripe has said that a refund failed and the answer was a 200, the
\* member has the money back, however the two refund events were ordered,
\* unless the update nobody awaits is still under way or was lost.
FailedRefundGivenBack ==
  \A r \in Refund :
    On("refund_failed", r) \in acked
      => tx[r].state = "failed" \/ r \in marking \cup lost

\* A dispute that is closed and acknowledged carries Stripe's verdict; a late
\* or repeated charge.dispute.created does not reopen it.
DisputeVerdictKept ==
  \A d \in Dispute :
    On("dispute_closed", d) \in acked =>
      <<stripe[d], tx[d].state>> \in
        {<<"won", "failed">>, <<"lost", "succeeded">>,
         <<"warning_closed", "canceled">>}

\* A refund that fails gives the money back for good, whatever the order of its
\* events: no late charge.refunded takes it from the member a second time
\* (transaction.ts:100-186).
FailedRefundsGivenBack ==
  [][/\ FailedRefundGivenBack'
     /\ \A r \in Refund : tx[r].state = "failed" => tx'[r].state = "failed"]_vars

\* index.ts:204 "if payout is reversed, ban user": a reversal booked leads to
\* the ban.  (If banUser throws once, every retry stops at the unique
\* provider_tx_id of the reversal row and never reaches the ban.)
ReversedPayoutBans ==
  \A v \in Reversal :
    Exists(v) ~> tx[Of[v]].sender \in banned

-----------------------------------------------------------------------------
(* The instance checked: one member, one payment with a refund and a       *)
(* dispute, and one payout that Stripe may reverse.                        *)

OnePayout ==
  [id \in TxId |-> IF id \in Object THEN NoRow
                   ELSE Row("payout", "succeeded", CHOOSE u \in User : TRUE, NoUser, 1, 0)]

OneOwner == [i \in Intent |-> CHOOSE u \in User : TRUE]

OnlyOne == [o \in Object \ Intent |-> IF o \in Reversal
                                      THEN CHOOSE id \in TxId : id \notin Object
                                      ELSE CHOOSE i \in Intent : TRUE]

\* A refund, or a dispute and a reversal: not both in one behaviour.
OneTrouble ==
  \/ \A r \in Refund : stripe[r] = "none"
  \/ \A o \in Dispute \cup Reversal : stripe[o] = "none"

AnyHandler == Permutations(Handler)
=============================================================================
