------------------------ MODULE StripeEvents_proofs ------------------------
(***************************************************************************)
(* Proofs about StripeEvents, for every set of payments, refunds, disputes *)
(* and reversals, and any number of requests served at once.               *)
(***************************************************************************)
EXTENDS StripeEvents, TLAPS

\* An event is of a kind its object can have.
Fits(e) ==
  /\ e.type \in PaymentEvent => e.object \in Intent
  /\ e.type \in {"refunded", "refund_failed"} => e.object \in Refund
  /\ e.type \in {"dispute_created", "dispute_closed"} => e.object \in Dispute
  /\ e.type = "reversed" => e.object \in Reversal

\* What Stripe has announced as final stays so at Stripe.
SentOK ==
  /\ \A e \in sent : Fits(e)
  /\ \A i \in Intent : On("succeeded", i) \in sent => stripe[i] = "succeeded"
  /\ \A d \in Dispute : On("dispute_closed", d) \in sent =>
                          stripe[d] \in {"won", "lost", "warning_closed"}

\* A handler serves an event that was announced, and only the events that
\* insert a row lead it on to look for the payment.
HandlersOK ==
  \A h \in Handler :
    /\ handler[h].pc # "waiting" => /\ handler[h].event \in sent
                                    /\ handler[h].event.type \notin PaymentEvent
    /\ handler[h].pc \in {"payment", "inserted"} =>
         handler[h].event.type # "dispute_closed"
    /\ handler[h].pc = "inserted" => handler[h].event.type = "reversed"

\* Rows whose members may be banned name one.
PayersKnown ==
  /\ \A i \in Intent : Exists(i) => tx[i].recipient \in User
  /\ \A v \in Reversal : tx[Of[v]].sender \in User

\* With these the three properties are inductive.
IInv == /\ TypeOK /\ SentOK /\ HandlersOK /\ PayersKnown
        /\ CreditMatchesCharge /\ DisputeVerdictKept /\ FailedRefundGivenBack

-----------------------------------------------------------------------------
(* What the objects and a row are.                                         *)

LEMMA Kinds ==
  /\ Object \subseteq TxId
  /\ Intent \subseteq Object /\ Refund \subseteq Object
  /\ Dispute \subseteq Object /\ Reversal \subseteq Object
  /\ \A o \in Intent : o \notin Refund /\ o \notin Dispute /\ o \notin Reversal
  /\ \A o \in Refund : o \notin Dispute /\ o \notin Reversal
  /\ \A o \in Dispute : o \notin Reversal
BY StripeAssumption DEF Object

LEMMA OfType ==
  /\ \A o \in Refund \cup Dispute \cup Reversal : Of[o] \in TxId
  /\ \A v \in Reversal : Of[v] \in TxId \ Object
  /\ \A i \in Intent : Owner[i] \in User
BY StripeAssumption DEF Object

LEMMA RowType ==
  ASSUME NEW p \in Purpose, NEW s \in TxState, NEW u \in User \cup {NoUser},
         NEW v \in User \cup {NoUser}, NEW a \in Nat
  PROVE  /\ Row(p, s, u, v, a, 0) \in Tx
         /\ Row(p, s, u, v, a, 0).state = s
         /\ Row(p, s, u, v, a, 0).recipient = v
<1>1. 0 \in 0..MaxDay
  BY LedgerAssumption
<1>2. QED
  BY <1>1 DEF Row, Tx, Currency

LEMMA MarkedRow ==
  ASSUME tx \in Table, NEW id \in TxId, NEW s \in TxState, tx' = MarkState(tx, id, s)
  PROVE  /\ tx' \in Table
         /\ tx'[id].state = s
         /\ \A other \in TxId \ {id} : tx'[other] = tx[other]
         /\ \A row \in TxId : /\ tx'[row].sender = tx[row].sender
                              /\ tx'[row].recipient = tx[row].recipient
BY DEF MarkState, Table, Tx

LEMMA InsertedRow ==
  ASSUME tx \in Table, NEW id \in TxId, NEW row \in Tx, tx' = Insert(tx, id, row)
  PROVE  /\ tx' \in Table
         /\ tx'[id] = row
         /\ \A other \in TxId \ {id} : tx'[other] = tx[other]
BY DEF Insert, Table

\* The timer touches pending rows only, and nothing of them but the state.
LEMMA TimerMarks ==
  ASSUME tx \in Table, CancelTimeoutTransactions
  PROVE  /\ tx' \in Table
         /\ \A id \in TxId : /\ tx[id].state # "pending" => tx'[id].state = tx[id].state
                             /\ tx[id].state = "pending" => tx'[id].state \in {"pending", "canceled"}
                             /\ tx'[id].sender = tx[id].sender
                             /\ tx'[id].recipient = tx[id].recipient
<1>1. PICK ids \in SUBSET {id \in TxId : TimesOut(tx[id])} :
        tx' = [id \in TxId |-> IF id \in ids
                               THEN [tx[id] EXCEPT !.state = "canceled"]
                               ELSE tx[id]]
  BY DEF CancelTimeoutTransactions
<1>2. \A id \in ids : tx[id].state = "pending"
  BY DEF TimesOut
<1>3. ASSUME NEW id \in TxId
      PROVE  /\ tx'[id] \in Tx
             /\ tx[id].state # "pending" => tx'[id].state = tx[id].state
             /\ tx[id].state = "pending" => tx'[id].state \in {"pending", "canceled"}
             /\ tx'[id].sender = tx[id].sender
             /\ tx'[id].recipient = tx[id].recipient
  <2>1. tx[id] \in Tx
    BY DEF Table
  <2>2. CASE id \in ids
    <3>1. tx'[id] = [tx[id] EXCEPT !.state = "canceled"] /\ tx[id].state = "pending"
      BY <1>1, <1>2, <2>2
    <3>2. QED
      BY <2>1, <3>1 DEF Tx, TxState
  <2>3. CASE id \notin ids
    BY <1>1, <2>1, <2>3
  <2>4. QED
    BY <2>2, <2>3
<1>4. tx' \in Table
  BY <1>1, <1>3 DEF Table
<1>5. QED
  BY <1>3, <1>4

-----------------------------------------------------------------------------

LEMMA InitIInv == Init => IInv
<1> SUFFICES ASSUME Init PROVE IInv
  OBVIOUS
<1> USE DEF Init
<1>1. TypeOK
  BY StripeAssumption DEF TypeOK, Status, Event, HandlerState, Waiting, TxState
<1>2. SentOK /\ HandlersOK
  BY DEF SentOK, HandlersOK, Waiting
<1>3. \A o \in Object : tx[o].state = "none"
  BY StripeAssumption DEF Object
<1>4. PayersKnown
  BY <1>3, Kinds, StripeAssumption DEF PayersKnown, Exists
<1>5. CreditMatchesCharge /\ DisputeVerdictKept /\ FailedRefundGivenBack
  BY <1>3, Kinds DEF CreditMatchesCharge, CreditOnlyIfCharged, ChargedIsCredited,
                     DisputeVerdictKept, FailedRefundGivenBack
<1>6. QED
  BY <1>1, <1>2, <1>4, <1>5 DEF IInv

-----------------------------------------------------------------------------
(* The member and Stripe.                                                  *)

LEMMA CreateIntentKeepsIInv ==
  ASSUME IInv, NEW i \in Intent, CreateIntent(i)
  PROVE  IInv'
<1>1. UNCHANGED <<tx, banned, sent, acked, handler, marking, lost>>
  BY DEF CreateIntent
<1>2. /\ stripe \in [Object -> Status] /\ i \in Object
      /\ stripe[i] = "none" /\ stripe' = [stripe EXCEPT ![i] = "open"]
  BY Kinds DEF IInv, TypeOK, CreateIntent
<1>3. TypeOK'
  BY <1>1, <1>2 DEF IInv, TypeOK, Status
<1>4. \A o \in Object : o # i => stripe'[o] = stripe[o]
  BY <1>2
<1>5. SentOK'
  BY <1>1, <1>2, <1>4, Kinds DEF IInv, SentOK, Fits
<1>6. HandlersOK' /\ PayersKnown' /\ FailedRefundGivenBack'
  BY <1>1 DEF IInv, HandlersOK, PayersKnown, Exists, FailedRefundGivenBack
<1>7. CreditMatchesCharge' /\ DisputeVerdictKept'
  BY <1>1, <1>2, <1>4, Kinds DEF IInv, CreditMatchesCharge, CreditOnlyIfCharged,
                                 ChargedIsCredited, DisputeVerdictKept
<1>8. QED
  BY <1>3, <1>5, <1>6, <1>7 DEF IInv

LEMMA InsertCreditKeepsIInv ==
  ASSUME IInv, NEW i \in Intent, InsertCredit(i)
  PROVE  IInv'
<1>1. UNCHANGED <<banned, stripe, sent, acked, handler, marking, lost>>
  BY DEF InsertCredit
<1> DEFINE row == Row("addCredit", "pending", NoUser, Owner[i], Price, 0)
<1>2. row \in Tx /\ row.state = "pending" /\ row.recipient \in User
  <2>1. Price \in Nat
    BY StripeAssumption, LedgerAssumption
  <2>2. "addCredit" \in Purpose /\ "pending" \in TxState /\ Owner[i] \in User
    BY OfType DEF Purpose, TxState
  <2>3. QED
    BY <2>1, <2>2, RowType
<1>3. i \in TxId /\ i \in Object /\ tx[i].state = "none" /\ tx \in Table
  BY Kinds DEF IInv, TypeOK, InsertCredit, Exists
<1>4. /\ tx' \in Table /\ tx'[i] = row
      /\ \A other \in TxId \ {i} : tx'[other] = tx[other]
  BY <1>2, <1>3, InsertedRow DEF InsertCredit
<1>5. TypeOK'
  BY <1>1, <1>4 DEF IInv, TypeOK
<1>6. SentOK' /\ HandlersOK'
  BY <1>1 DEF IInv, SentOK, HandlersOK, Fits
<1>7. PayersKnown'
  BY <1>2, <1>3, <1>4, Kinds, OfType DEF IInv, PayersKnown, Exists
<1>8. CreditMatchesCharge' /\ DisputeVerdictKept' /\ FailedRefundGivenBack'
  BY <1>1, <1>2, <1>3, <1>4, Kinds
     DEF IInv, CreditMatchesCharge, CreditOnlyIfCharged, ChargedIsCredited,
         DisputeVerdictKept, FailedRefundGivenBack
<1>9. QED
  BY <1>5, <1>6, <1>7, <1>8 DEF IInv

\* Stripe announces a new status of an object whose status was not final.
LEMMA AnnounceKeepsIInv ==
  ASSUME IInv, NEW o \in Object, NEW s \in Status, NEW type \in EventType,
         Announce(o, s, type), Fits(On(type, o)),
         stripe[o] \notin {"succeeded", "won", "lost", "warning_closed"},
         type = "succeeded" => s = "succeeded",
         type = "dispute_closed" => s \in {"won", "lost", "warning_closed"}
  PROVE  IInv'
<1>1. /\ stripe' = [stripe EXCEPT ![o] = s]
      /\ sent' = sent \cup {On(type, o)}
      /\ acked' = acked \ {On(type, o)}
      /\ UNCHANGED <<tx, banned, handler, marking, lost>>
  BY DEF Announce
<1>2. stripe \in [Object -> Status] /\ sent \in SUBSET Event /\ acked \in SUBSET sent
  BY DEF IInv, TypeOK
<1>3. stripe'[o] = s /\ \A other \in Object : other # o => stripe'[other] = stripe[other]
  BY <1>1, <1>2
<1>4. On(type, o) \in Event
  BY DEF On, Event
<1>5. TypeOK'
  BY <1>1, <1>2, <1>4 DEF IInv, TypeOK
<1>6. SentOK'
  <2>1. \A e \in sent' : Fits(e)
    BY <1>1 DEF IInv, SentOK
  <2>2. ASSUME NEW i \in Intent, On("succeeded", i) \in sent'
        PROVE  stripe'[i] = "succeeded"
    <3>1. CASE On("succeeded", i) \in sent
      BY <1>3, <3>1, Kinds DEF IInv, SentOK
    <3>2. CASE On("succeeded", i) = On(type, o)
      BY <1>3, <3>2 DEF On
    <3>3. QED
      BY <1>1, <2>2, <3>1, <3>2
  <2>3. ASSUME NEW d \in Dispute, On("dispute_closed", d) \in sent'
        PROVE  stripe'[d] \in {"won", "lost", "warning_closed"}
    <3>1. CASE On("dispute_closed", d) \in sent
      BY <1>3, <3>1, Kinds DEF IInv, SentOK
    <3>2. CASE On("dispute_closed", d) = On(type, o)
      BY <1>3, <3>2 DEF On
    <3>3. QED
      BY <1>1, <2>3, <3>1, <3>2
  <2>4. QED
    BY <2>1, <2>2, <2>3 DEF SentOK, Fits
<1>7. HandlersOK' /\ PayersKnown' /\ FailedRefundGivenBack'
  BY <1>1 DEF IInv, HandlersOK, PayersKnown, Exists, FailedRefundGivenBack
<1>8. CreditMatchesCharge'
  BY <1>1, <1>3, Kinds DEF IInv, CreditMatchesCharge, CreditOnlyIfCharged, ChargedIsCredited
<1>9. DisputeVerdictKept'
  BY <1>1, <1>2, <1>3, Kinds DEF IInv, DisputeVerdictKept, SentOK
<1>10. QED
  BY <1>5, <1>6, <1>7, <1>8, <1>9 DEF IInv

LEMMA StripeKeepsIInv ==
  ASSUME IInv, StripeStep
  PROVE  IInv'
<1> USE DEF Status, EventType, PaymentEvent, Fits, On
<1>1. ASSUME NEW i \in Intent, Payment(i)
      PROVE  IInv'
  BY <1>1, AnnounceKeepsIInv, Kinds DEF Payment
<1>2. ASSUME NEW r \in Refund, RefundCharge(r)
      PROVE  IInv'
  BY <1>2, AnnounceKeepsIInv, Kinds DEF RefundCharge
<1>3. ASSUME NEW d \in Dispute, DisputeCharge(d)
      PROVE  IInv'
  BY <1>3, AnnounceKeepsIInv, Kinds DEF DisputeCharge
<1>4. ASSUME NEW v \in Reversal, ReverseTransfer(v)
      PROVE  IInv'
  BY <1>4, AnnounceKeepsIInv, Kinds DEF ReverseTransfer
<1>5. QED
  BY <1>1, <1>2, <1>3, <1>4 DEF StripeStep

-----------------------------------------------------------------------------
(* The webhook.                                                            *)

LEMMA UpdateTxStateKeepsIInv ==
  ASSUME IInv, NEW e \in sent, UpdateTxState(e)
  PROVE  IInv'
<1>1. UNCHANGED <<stripe, sent, handler, marking, lost>>
  BY DEF UpdateTxState
<1>2. e \in Event /\ e.type \in PaymentEvent /\ e.object \in Intent
  BY DEF IInv, TypeOK, SentOK, Fits, UpdateTxState
<1>3. e = On(e.type, e.object)
  BY <1>2 DEF On, Event
<1>4. PaymentState(e.type) \in TxState
  BY <1>2 DEF PaymentState, PaymentEvent, TxState
<1>5. e.object \in TxId /\ tx \in Table /\ tx[e.object].state # "none"
  BY <1>2, Kinds DEF IInv, TypeOK, UpdateTxState, Exists
<1>6. /\ tx' \in Table
      /\ tx'[e.object].state = PaymentState(e.type)
      /\ \A other \in TxId \ {e.object} : tx'[other] = tx[other]
      /\ \A row \in TxId : /\ tx'[row].sender = tx[row].sender
                           /\ tx'[row].recipient = tx[row].recipient
  BY <1>4, <1>5, MarkedRow DEF UpdateTxState
<1>7. /\ acked' \subseteq sent /\ acked' \subseteq acked \cup {e}
      /\ banned' \subseteq banned \cup {tx[e.object].recipient}
  BY DEF UpdateTxState, IInv, TypeOK
<1>8. tx[e.object].recipient \in User
  BY <1>2, <1>5 DEF IInv, PayersKnown, Exists
<1>9. TypeOK'
  BY <1>1, <1>6, <1>7, <1>8 DEF IInv, TypeOK
<1>10. SentOK' /\ HandlersOK'
  BY <1>1 DEF IInv, SentOK, HandlersOK, Fits
<1>11. PayersKnown'
  <2>1. \A i \in Intent : Exists(i)' => Exists(i)
    BY <1>5, <1>6, Kinds DEF Exists
  <2>2. QED
    BY <1>6, <2>1, Kinds, OfType DEF IInv, PayersKnown
<1>12. CreditMatchesCharge'
  <2>1. ASSUME NEW i \in Intent, tx'[i].state = "succeeded"
        PROVE  stripe'[i] = "succeeded"
    <3>1. CASE i = e.object
      <4>1. e.type = "succeeded"
        BY <1>2, <1>6, <2>1, <3>1 DEF PaymentState, PaymentEvent
      <4>2. QED
        BY <1>1, <1>3, <3>1, <4>1 DEF IInv, SentOK
    <3>2. CASE i # e.object
      BY <1>1, <1>6, <2>1, <3>2, Kinds
         DEF IInv, CreditMatchesCharge, CreditOnlyIfCharged
    <3>3. QED
      BY <3>1, <3>2
  <2>2. ASSUME NEW i \in Intent, On("succeeded", i) \in acked',
               \A f \in sent : f.object = i => f.type = "succeeded"
        PROVE  tx'[i].state = "succeeded"
    <3>1. CASE i = e.object
      BY <1>6, <2>2, <3>1 DEF PaymentState
    <3>2. CASE i # e.object
      <4>1. On("succeeded", i) # e
        BY <3>2 DEF On
      <4>2. QED
        BY <1>6, <1>7, <2>2, <3>2, <4>1, Kinds
           DEF IInv, CreditMatchesCharge, ChargedIsCredited
    <3>3. QED
      BY <3>1, <3>2
  <2>3. QED
    BY <1>1, <2>1, <2>2 DEF CreditMatchesCharge, CreditOnlyIfCharged, ChargedIsCredited
<1>13. DisputeVerdictKept' /\ FailedRefundGivenBack'
  <2>1. \A o : /\ On("dispute_closed", o) \in acked' => On("dispute_closed", o) \in acked
               /\ On("refund_failed", o) \in acked' => On("refund_failed", o) \in acked
    BY <1>2, <1>7 DEF On, PaymentEvent
  <2>2. \A o \in Dispute \cup Refund : tx'[o] = tx[o]
    BY <1>2, <1>6, Kinds
  <2>3. QED
    BY <1>1, <2>1, <2>2 DEF IInv, DisputeVerdictKept, FailedRefundGivenBack
<1>14. QED
  BY <1>9, <1>10, <1>11, <1>12, <1>13 DEF IInv

\* Steps of a handler that only look, or give up.
LEMMA LookKeepsIInv ==
  ASSUME IInv, NEW h \in Handler,
         (\E e \in sent : Look(h, e)) \/ LookForPayment(h) \/ Throw(h)
  PROVE  IInv'
<1>1. UNCHANGED <<tx, banned, stripe, sent, acked, marking, lost>>
  BY DEF Look, LookForPayment, Throw
<1>2. SentOK' /\ PayersKnown' /\ CreditMatchesCharge' /\ DisputeVerdictKept'
      /\ FailedRefundGivenBack'
  BY <1>1 DEF IInv, SentOK, Fits, PayersKnown, Exists, CreditMatchesCharge,
              CreditOnlyIfCharged, ChargedIsCredited, DisputeVerdictKept,
              FailedRefundGivenBack
<1>3. handler \in [Handler -> HandlerState] /\ sent \in SUBSET Event
  BY DEF IInv, TypeOK
<1>4. CASE \E e \in sent : Look(h, e)
  <2>1. PICK e \in sent : Look(h, e)
    BY <1>4
  <2>2. handler' \in [Handler -> HandlerState]
    BY <1>3, <2>1 DEF Look, HandlerState, TxState, Exists
  <2>3. HandlersOK'
    BY <1>1, <1>3, <2>1 DEF IInv, HandlersOK, Look
  <2>4. QED
    BY <1>1, <1>2, <2>2, <2>3 DEF IInv, TypeOK
<1>5. CASE LookForPayment(h)
  <2> DEFINE e == handler[h].event
  <2>1. e \in sent /\ e \in Event /\ e.type \notin PaymentEvent /\ e.type # "dispute_closed"
    BY <1>3, <1>5 DEF IInv, HandlersOK, LookForPayment, Serving
  <2>2. e.object \in Refund \cup Dispute \cup Reversal
    BY <2>1 DEF IInv, SentOK, Fits, Event, EventType
  <2>3. tx[Of[e.object]].state \in TxState
    BY <2>2, OfType DEF IInv, TypeOK, Table, Tx
  <2>4. handler' \in [Handler -> HandlerState]
    BY <1>3, <1>5, <2>3 DEF LookForPayment, HandlerState
  <2>5. \A g \in Handler : /\ handler'[g].event = handler[g].event
                           /\ g # h => handler'[g].pc = handler[g].pc
    BY <1>3, <1>5 DEF LookForPayment, HandlerState
  <2>6. handler[h].pc # "waiting" /\ handler'[h].pc = "payment"
    BY <1>3, <1>5 DEF LookForPayment, Serving, HandlerState
  <2>7. HandlersOK'
    BY <1>1, <2>1, <2>5, <2>6 DEF IInv, HandlersOK
  <2>8. QED
    BY <1>1, <1>2, <2>4, <2>7 DEF IInv, TypeOK
<1>6. CASE Throw(h)
  <2>1. handler' \in [Handler -> HandlerState]
    BY <1>3, <1>6 DEF Throw, HandlerState, Waiting, TxState
  <2>2. HandlersOK'
    BY <1>1, <1>3, <1>6 DEF IInv, HandlersOK, Throw, Waiting
  <2>3. QED
    BY <1>1, <1>2, <2>1, <2>2 DEF IInv, TypeOK
<1>7. QED
  BY <1>4, <1>5, <1>6

\* An answer of 200 for the event the handler serves.
LEMMA AcknowledgeKeeps ==
  ASSUME IInv, NEW h \in Handler, Acknowledge(h), ~Serving(h, "waiting"),
         UNCHANGED <<stripe, sent>>
  PROVE  /\ handler' \in [Handler -> HandlerState]
         /\ acked' \in SUBSET sent'
         /\ SentOK' /\ HandlersOK'
<1>1. handler \in [Handler -> HandlerState] /\ acked \in SUBSET sent
  BY DEF IInv, TypeOK
<1>2. handler[h].event \in sent
  BY DEF IInv, HandlersOK, Serving
<1>3. handler' \in [Handler -> HandlerState]
  BY <1>1 DEF Acknowledge, HandlerState, Waiting, TxState
<1>4. HandlersOK'
  BY <1>1 DEF IInv, HandlersOK, Acknowledge, Waiting
<1>5. SentOK'
  BY DEF IInv, SentOK, Fits
<1>6. QED
  BY <1>1, <1>2, <1>3, <1>4, <1>5 DEF Acknowledge

\* What the handler serves, and what its answer is about.
LEMMA Served ==
  ASSUME IInv, NEW h \in Handler, ~Serving(h, "waiting")
  PROVE  /\ handler[h].event \in sent
         /\ handler[h].event \in Event
         /\ handler[h].event.type \notin PaymentEvent
         /\ Fits(handler[h].event)
         /\ handler[h].event = On(handler[h].event.type, handler[h].event.object)
         /\ handler[h].event.object \in Object \ Intent
<1>1. /\ handler[h].event \in sent /\ handler[h].event \in Event
      /\ handler[h].event.type \notin PaymentEvent
      /\ Fits(handler[h].event)
  BY DEF IInv, TypeOK, HandlersOK, SentOK, Serving
<1>2. handler[h].event = On(handler[h].event.type, handler[h].event.object)
  BY <1>1 DEF On, Event
<1>3. handler[h].event.object \in Object \ Intent
  BY <1>1, Kinds DEF Fits, Event, EventType
<1>4. QED
  BY <1>1, <1>2, <1>3

\* A row that is there is left alone; only a failed refund is marked later.
LEMMA SkipKeepsIInv ==
  ASSUME IInv, NEW h \in Handler, SkipExisting(h) \/ MarkRefundFailed(h)
  PROVE  IInv'
<1> DEFINE e == handler[h].event
<1>1. UNCHANGED <<tx, banned, stripe, sent, lost>> /\ Acknowledge(h) /\ ~Serving(h, "waiting")
  BY DEF SkipExisting, MarkRefundFailed, Serving
<1>2. /\ handler' \in [Handler -> HandlerState] /\ acked' \in SUBSET sent'
      /\ SentOK' /\ HandlersOK'
  BY <1>1, AcknowledgeKeeps
<1>3. /\ marking' \in SUBSET Refund /\ marking \subseteq marking'
      /\ e.type = "refund_failed" => e.object \in marking'
      /\ e.type # "dispute_closed" /\ e.type \notin PaymentEvent
  BY <1>1, Served DEF SkipExisting, MarkRefundFailed, IInv, TypeOK, Fits
<1>4. acked' = acked \cup {e}
  BY <1>1 DEF Acknowledge
<1>5. TypeOK' /\ PayersKnown'
  BY <1>1, <1>2, <1>3 DEF IInv, TypeOK, PayersKnown, Exists
<1>6. CreditMatchesCharge' /\ DisputeVerdictKept'
  <2>1. \A o : /\ On("succeeded", o) \in acked' => On("succeeded", o) \in acked
               /\ On("dispute_closed", o) \in acked' => On("dispute_closed", o) \in acked
    BY <1>3, <1>4 DEF On, PaymentEvent
  <2>2. QED
    BY <1>1, <2>1 DEF IInv, CreditMatchesCharge, CreditOnlyIfCharged,
                      ChargedIsCredited, DisputeVerdictKept
<1>7. FailedRefundGivenBack'
  <2>1. ASSUME NEW r \in Refund, On("refund_failed", r) \in acked'
        PROVE  On("refund_failed", r) \in acked \/ r \in marking'
    BY <1>3, <1>4, <2>1 DEF On
  <2>2. QED
    BY <1>1, <1>3, <2>1 DEF IInv, FailedRefundGivenBack
<1>8. QED
  BY <1>2, <1>5, <1>6, <1>7 DEF IInv

LEMMA RefundMarkedKeepsIInv ==
  ASSUME IInv, NEW r \in Refund, RefundMarked(r)
  PROVE  IInv'
<1>1. UNCHANGED <<banned, stripe, sent, acked, handler>>
  BY DEF RefundMarked
<1>2. r \in TxId /\ r \notin Intent /\ r \notin Dispute /\ tx \in Table
  BY Kinds DEF IInv, TypeOK
<1>3. SentOK' /\ HandlersOK'
  BY <1>1 DEF IInv, SentOK, HandlersOK, Fits
<1>4. CASE tx' = MarkState(tx, r, "failed") /\ UNCHANGED lost
  <2>1. /\ tx' \in Table
        /\ tx'[r].state = "failed"
        /\ \A other \in TxId \ {r} : tx'[other] = tx[other]
        /\ \A row \in TxId : tx'[row].sender = tx[row].sender
    BY <1>2, <1>4, MarkedRow DEF TxState
  <2>2. TypeOK'
    BY <1>1, <1>4, <2>1 DEF IInv, TypeOK, RefundMarked
  <2>3. \A o \in Intent \cup Dispute : tx'[o] = tx[o]
    BY <1>2, <2>1, Kinds
  <2>4. PayersKnown'
    BY <2>1, <2>3, OfType DEF IInv, PayersKnown, Exists
  <2>5. CreditMatchesCharge' /\ DisputeVerdictKept'
    BY <1>1, <2>3 DEF IInv, CreditMatchesCharge, CreditOnlyIfCharged,
                      ChargedIsCredited, DisputeVerdictKept
  <2>6. \A q \in Refund : q = r \/ (q \in marking' <=> q \in marking)
    BY DEF RefundMarked
  <2>7. FailedRefundGivenBack'
    BY <1>1, <1>4, <2>1, <2>6, Kinds DEF IInv, FailedRefundGivenBack
  <2>8. QED
    BY <1>3, <2>2, <2>4, <2>5, <2>7 DEF IInv
<1>5. CASE lost' = lost \cup {r} /\ UNCHANGED tx
  <2>1. TypeOK' /\ PayersKnown'
    BY <1>1, <1>5 DEF IInv, TypeOK, RefundMarked, PayersKnown, Exists
  <2>2. CreditMatchesCharge' /\ DisputeVerdictKept'
    BY <1>1, <1>5 DEF IInv, CreditMatchesCharge, CreditOnlyIfCharged,
                      ChargedIsCredited, DisputeVerdictKept
  <2>3. FailedRefundGivenBack'
    BY <1>1, <1>5 DEF IInv, FailedRefundGivenBack, RefundMarked
  <2>4. QED
    BY <1>3, <2>1, <2>2, <2>3 DEF IInv
<1>6. QED
  BY <1>4, <1>5 DEF RefundMarked

LEMMA CloseDisputeKeepsIInv ==
  ASSUME IInv, NEW h \in Handler, CloseDispute(h)
  PROVE  IInv'
<1>0. PICK d : d = handler[h].event.object
  OBVIOUS
<1>1. /\ UNCHANGED <<banned, stripe, sent, marking, lost>>
      /\ Acknowledge(h) /\ ~Serving(h, "waiting")
      /\ handler[h].event.type = "dispute_closed"
  BY DEF CloseDispute, Serving
<1>2. /\ handler' \in [Handler -> HandlerState] /\ acked' \in SUBSET sent'
      /\ SentOK' /\ HandlersOK'
  BY <1>1, AcknowledgeKeeps
<1>3. /\ d \in Dispute /\ handler[h].event = On("dispute_closed", d)
      /\ handler[h].event \in sent
  BY <1>0, <1>1, Served DEF Fits
<1>4. stripe[d] \in {"won", "lost", "warning_closed"}
  BY <1>3 DEF IInv, SentOK
<1>5. PICK s \in {"failed", "succeeded", "canceled"} :
        /\ tx' = MarkState(tx, d, s)
        /\ <<stripe[d], s>> \in {<<"won", "failed">>, <<"lost", "succeeded">>,
                                 <<"warning_closed", "canceled">>}
  <2>1. CASE stripe[d] = "won"
    BY <1>0, <2>1 DEF CloseDispute
  <2>2. CASE stripe[d] = "lost"
    BY <1>0, <2>2 DEF CloseDispute
  <2>3. CASE stripe[d] = "warning_closed"
    BY <1>0, <2>3 DEF CloseDispute
  <2>4. QED
    BY <1>4, <2>1, <2>2, <2>3
<1>6. d \in TxId /\ d \notin Intent /\ d \notin Refund /\ tx \in Table
  BY <1>3, Kinds DEF IInv, TypeOK
<1>7. /\ tx' \in Table
      /\ tx'[d].state = s
      /\ \A other \in TxId \ {d} : tx'[other] = tx[other]
      /\ \A row \in TxId : tx'[row].sender = tx[row].sender
  BY <1>5, <1>6, MarkedRow DEF TxState
<1>8. TypeOK'
  BY <1>1, <1>2, <1>7 DEF IInv, TypeOK
<1>9. \A o \in Intent \cup Refund : tx'[o] = tx[o]
  BY <1>6, <1>7, Kinds
<1>10. PayersKnown'
  BY <1>7, <1>9, OfType DEF IInv, PayersKnown, Exists
<1>11. acked' = acked \cup {On("dispute_closed", d)}
  BY <1>1, <1>3 DEF Acknowledge
<1>12. CreditMatchesCharge' /\ FailedRefundGivenBack'
  <2>1. \A o : /\ On("succeeded", o) \in acked' => On("succeeded", o) \in acked
               /\ On("refund_failed", o) \in acked' => On("refund_failed", o) \in acked
    BY <1>11 DEF On
  <2>2. QED
    BY <1>1, <1>9, <2>1 DEF IInv, CreditMatchesCharge, CreditOnlyIfCharged,
                            ChargedIsCredited, FailedRefundGivenBack
<1>13. DisputeVerdictKept'
  <2>1. ASSUME NEW o \in Dispute, On("dispute_closed", o) \in acked', o # d
        PROVE  On("dispute_closed", o) \in acked
    BY <1>11, <2>1 DEF On
  <2>2. QED
    BY <1>1, <1>5, <1>7, <2>1, Kinds DEF IInv, DisputeVerdictKept
<1>14. QED
  BY <1>2, <1>8, <1>10, <1>12, <1>13 DEF IInv

LEMMA NewRowType ==
  ASSUME IInv, NEW e \in Event, Fits(e), e.type \notin PaymentEvent,
         e.type # "dispute_closed"
  PROVE  /\ NewRow(e) \in Tx
         /\ e.type = "refund_failed" => NewRow(e).state = "failed"
<1>1. e.object \in Refund \cup Dispute \cup Reversal
      /\ e.type \in {"refunded", "refund_failed", "dispute_created", "reversed"}
  BY DEF Fits, Event, EventType
<1>2. PICK of \in Tx : of = tx[Of[e.object]]
  BY <1>1, OfType DEF IInv, TypeOK, Table
<1>a. /\ of.recipient \in User \cup {NoUser} /\ of.sender \in User \cup {NoUser}
      /\ NoUser \in User \cup {NoUser} /\ of.amount \in Nat
  BY DEF Tx
<1>3. CASE e.type \in {"refunded", "refund_failed"}
  <2>1. NewRow(e) = Row("refund", InitialState(e.type), of.recipient, NoUser, of.amount, 0)
    BY <1>2, <1>3 DEF NewRow
  <2>2. /\ InitialState(e.type) \in TxState /\ "refund" \in Purpose
        /\ e.type = "refund_failed" => InitialState(e.type) = "failed"
    BY <1>3 DEF InitialState, TxState, Purpose
  <2>3. QED
    BY <1>a, <2>1, <2>2, RowType
<1>4. CASE e.type = "dispute_created"
  <2>1. NewRow(e) = Row("dispute", "pending", of.recipient, NoUser, of.amount, 0)
    BY <1>2, <1>4 DEF NewRow
  <2>2. NewRow(e) \in Tx
    BY <1>a, <2>1, LedgerAssumption DEF Row, Tx, TxState, Purpose, Currency
  <2>3. QED
    BY <1>4, <2>2
<1>5. CASE e.type = "reversed"
  <2>1. NewRow(e) = Row("payoutReversal", "succeeded", NoUser, of.sender, of.amount, 0)
    BY <1>2, <1>5 DEF NewRow
  <2>2. NewRow(e) \in Tx
    BY <1>a, <2>1, LedgerAssumption DEF Row, Tx, TxState, Purpose, Currency
  <2>3. QED
    BY <1>5, <2>2
<1>6. QED
  BY <1>1, <1>3, <1>4, <1>5

\* A row is inserted only under an id that has none: no verdict on a dispute
\* or a refund is overwritten by an event that comes late.
LEMMA InsertRowKeepsIInv ==
  ASSUME IInv, NEW h \in Handler, InsertRow(h)
  PROVE  IInv'
<1>0. PICK e : e = handler[h].event
  OBVIOUS
<1>1. /\ UNCHANGED <<banned, stripe, sent, marking, lost>>
      /\ ~Serving(h, "waiting") /\ handler[h].pc = "payment"
      /\ tx' = Insert(tx, e.object, NewRow(e)) /\ tx[e.object].state = "none"
  BY <1>0 DEF InsertRow, Serving, Insertable, Exists
<1>2. /\ e \in sent /\ e \in Event /\ e.type \notin PaymentEvent /\ Fits(e)
      /\ e.object \in Object \ Intent /\ e = On(e.type, e.object)
      /\ e.type # "dispute_closed"
  BY <1>0, <1>1, Served DEF IInv, HandlersOK
<1>3. NewRow(e) \in Tx /\ (e.type = "refund_failed" => NewRow(e).state = "failed")
  BY <1>2, NewRowType
<1>4. e.object \in TxId /\ tx \in Table
  BY <1>2, Kinds DEF IInv, TypeOK
<1>5. /\ tx' \in Table
      /\ tx'[e.object] = NewRow(e)
      /\ \A other \in TxId \ {e.object} : tx'[other] = tx[other]
  BY <1>1, <1>3, <1>4, InsertedRow
<1>6. /\ handler' \in [Handler -> HandlerState] /\ acked' \in SUBSET sent'
      /\ SentOK' /\ HandlersOK' /\ acked' \subseteq acked \cup {e}
  <2>1. CASE e.type = "reversed"
    <3>1. handler' = [handler EXCEPT ![h].pc = "inserted"] /\ UNCHANGED acked
      BY <1>0, <2>1 DEF InsertRow
    <3>2. handler \in [Handler -> HandlerState] /\ acked \in SUBSET sent
      BY DEF IInv, TypeOK
    <3>3. handler' \in [Handler -> HandlerState]
      BY <3>1, <3>2 DEF HandlerState
    <3>4. \A g \in Handler : /\ handler'[g].event = handler[g].event
                             /\ g # h => handler'[g].pc = handler[g].pc
      BY <3>1, <3>2 DEF HandlerState
    <3>5. HandlersOK' /\ SentOK'
      BY <1>0, <1>1, <1>2, <2>1, <3>4 DEF IInv, HandlersOK, SentOK, Fits
    <3>6. QED
      BY <1>1, <3>1, <3>2, <3>3, <3>5
  <2>2. CASE e.type # "reversed"
    <3>1. Acknowledge(h)
      BY <1>0, <2>2 DEF InsertRow
    <3>2. QED
      BY <1>0, <1>1, <3>1, AcknowledgeKeeps DEF Acknowledge
  <2>3. QED
    BY <2>1, <2>2
<1>7. TypeOK'
  BY <1>1, <1>5, <1>6 DEF IInv, TypeOK
<1>8. PayersKnown'
  <2>1. \A i \in Intent : tx'[i] = tx[i]
    BY <1>2, <1>5, Kinds
  <2>2. \A v \in Reversal : tx'[Of[v]] = tx[Of[v]]
    BY <1>2, <1>5, OfType
  <2>3. QED
    BY <2>1, <2>2 DEF IInv, PayersKnown, Exists
<1>9. CreditMatchesCharge'
  <2>1. \A i \in Intent : tx'[i] = tx[i]
    BY <1>2, <1>5, Kinds
  <2>2. \A i : On("succeeded", i) \in acked' => On("succeeded", i) \in acked
    BY <1>2, <1>6 DEF On, PaymentEvent
  <2>3. QED
    BY <1>1, <2>1, <2>2 DEF IInv, CreditMatchesCharge, CreditOnlyIfCharged, ChargedIsCredited
<1>10. DisputeVerdictKept'
  <2>1. \A d : On("dispute_closed", d) \in acked' => On("dispute_closed", d) \in acked
    BY <1>2, <1>6 DEF On
  <2>2. ASSUME NEW d \in Dispute, On("dispute_closed", d) \in acked
        PROVE  tx'[d] = tx[d]
    <3>1. tx[d].state # "none"
      BY <2>2 DEF IInv, DisputeVerdictKept
    <3>2. QED
      BY <1>1, <1>5, <3>1, Kinds
  <2>3. QED
    BY <1>1, <2>1, <2>2 DEF IInv, DisputeVerdictKept
<1>11. FailedRefundGivenBack'
  <2>1. ASSUME NEW r \in Refund, On("refund_failed", r) \in acked'
        PROVE  tx'[r].state = "failed" \/ r \in marking \cup lost
    <3>1. CASE e = On("refund_failed", r)
      BY <1>3, <1>5, <3>1 DEF On
    <3>2. CASE On("refund_failed", r) \in acked
      BY <1>1, <1>5, <3>2, Kinds DEF IInv, FailedRefundGivenBack
    <3>3. QED
      BY <1>6, <2>1, <3>1, <3>2
  <2>2. QED
    BY <1>1, <2>1 DEF FailedRefundGivenBack
<1>12. QED
  BY <1>6, <1>7, <1>8, <1>9, <1>10, <1>11 DEF IInv

LEMMA BanKeepsIInv ==
  ASSUME IInv, NEW h \in Handler, BanForReversal(h)
  PROVE  IInv'
<1>0. PICK e : e = handler[h].event
  OBVIOUS
<1>1. /\ UNCHANGED <<tx, stripe, sent, marking, lost>>
      /\ Acknowledge(h) /\ ~Serving(h, "waiting") /\ handler[h].pc = "inserted"
      /\ banned' = banned \cup {tx[Of[e.object]].sender}
  BY <1>0 DEF BanForReversal, Serving
<1>2. e.type = "reversed" /\ e.object \in Reversal
  BY <1>0, <1>1, Served DEF IInv, HandlersOK, Fits
<1>3. /\ handler' \in [Handler -> HandlerState] /\ acked' \in SUBSET sent'
      /\ SentOK' /\ HandlersOK'
  BY <1>1, AcknowledgeKeeps
<1>4. TypeOK' /\ PayersKnown'
  BY <1>1, <1>2, <1>3 DEF IInv, TypeOK, PayersKnown, Exists
<1>5. \A o, type : type # "reversed" /\ On(type, o) \in acked' => On(type, o) \in acked
  BY <1>0, <1>1, <1>2 DEF Acknowledge, On
<1>6. CreditMatchesCharge' /\ DisputeVerdictKept' /\ FailedRefundGivenBack'
  BY <1>1, <1>5 DEF IInv, CreditMatchesCharge, CreditOnlyIfCharged, ChargedIsCredited,
                    DisputeVerdictKept, FailedRefundGivenBack
<1>7. QED
  BY <1>3, <1>4, <1>6 DEF IInv

LEMMA TimerKeepsIInv ==
  ASSUME IInv, CancelTimeoutTransactions
  PROVE  IInv'
<1>1. UNCHANGED <<banned, stripe, sent, acked, handler, marking, lost>>
  BY DEF CancelTimeoutTransactions
<1>2. tx \in Table
  BY DEF IInv, TypeOK
<1>3. TypeOK'
  BY <1>1, <1>2, TimerMarks DEF IInv, TypeOK
<1>4. SentOK' /\ HandlersOK'
  BY <1>1 DEF IInv, SentOK, HandlersOK, Fits
<1>5. \A id \in TxId : Exists(id)' <=> Exists(id)
  BY <1>2, TimerMarks DEF Exists
<1>6. PayersKnown'
  BY <1>2, <1>5, TimerMarks, Kinds, OfType DEF IInv, PayersKnown
<1>7. CreditMatchesCharge' /\ DisputeVerdictKept' /\ FailedRefundGivenBack'
  <2>1. \A id \in TxId : \A s \in {"succeeded", "failed"} :
          tx[id].state = s => tx'[id].state = s
    BY <1>2, TimerMarks
  <2>2. \A id \in TxId : tx[id].state = "canceled" => tx'[id].state = "canceled"
    BY <1>2, TimerMarks
  <2>3. \A id \in TxId : tx'[id].state = "succeeded" => tx[id].state = "succeeded"
    BY <1>2, TimerMarks
  <2>4. QED
    BY <1>1, <2>1, <2>2, <2>3, Kinds
       DEF IInv, CreditMatchesCharge, CreditOnlyIfCharged, ChargedIsCredited,
           DisputeVerdictKept, FailedRefundGivenBack
<1>8. QED
  BY <1>3, <1>4, <1>6, <1>7 DEF IInv

-----------------------------------------------------------------------------

LEMMA NextKeepsIInv == IInv /\ [Next]_vars => IInv'
<1> SUFFICES ASSUME IInv, [Next]_vars PROVE IInv'
  OBVIOUS
<1>1. CASE UNCHANGED vars
  BY <1>1 DEF vars, IInv, TypeOK, SentOK, HandlersOK, Fits, PayersKnown, Exists,
              CreditMatchesCharge, CreditOnlyIfCharged, ChargedIsCredited,
              DisputeVerdictKept, FailedRefundGivenBack
<1>2. CASE Next
  BY <1>2, CreateIntentKeepsIInv, InsertCreditKeepsIInv, StripeKeepsIInv,
     UpdateTxStateKeepsIInv, LookKeepsIInv, SkipKeepsIInv, RefundMarkedKeepsIInv,
     CloseDisputeKeepsIInv, InsertRowKeepsIInv, BanKeepsIInv, TimerKeepsIInv
     DEF Next, Write
<1>3. QED
  BY <1>1, <1>2

LEMMA Always == Spec => []IInv
BY InitIInv, NextKeepsIInv, PTL DEF Spec

\* The webhook writes only rows of the table, bans only members, and serves
\* only events Stripe has announced (routes/pay/stripe/index.ts).
THEOREM TypeCorrect == Spec => []TypeOK
<1>1. IInv => TypeOK
  BY DEF IInv
<1>2. QED
  BY <1>1, Always, PTL

\* However events are ordered, repeated and interleaved with the timer, a
\* member is credited for no payment Stripe did not complete, and keeps the
\* credit of one whose completion was answered (updateTxState,
\* routes/pay/stripe/transaction.ts:32-98).
THEOREM CreditIsCharge == Spec => []CreditMatchesCharge
<1>1. IInv => CreditMatchesCharge
  BY DEF IInv
<1>2. QED
  BY <1>1, Always, PTL

\* The row of a dispute that is closed and answered carries Stripe's verdict:
\* createDisputeTx and the timer leave it alone whenever they come.
THEOREM VerdictStays == Spec => []DisputeVerdictKept
<1>1. IInv => DisputeVerdictKept
  BY DEF IInv
<1>2. QED
  BY <1>1, Always, PTL

\* The row of a refund that failed is never anything else again.
LEMMA FailedStays ==
  ASSUME IInv, [Next]_vars, NEW r \in Refund, tx[r].state = "failed"
  PROVE  tx'[r].state = "failed"
<1>1. r \in TxId /\ r \notin Intent /\ r \notin Dispute /\ r \notin Reversal /\ tx \in Table
  BY Kinds DEF IInv, TypeOK
<1>2. ASSUME NEW i \in Intent, InsertCredit(i)
      PROVE  tx'[r] = tx[r]
  BY <1>1, <1>2 DEF InsertCredit, Insert, Table
<1>3. ASSUME NEW e \in sent, UpdateTxState(e)
      PROVE  tx'[r] = tx[r]
  <2>1. e.object \in Intent
    BY <1>3 DEF IInv, SentOK, Fits, UpdateTxState
  <2>2. QED
    BY <1>1, <1>3, <2>1 DEF UpdateTxState, MarkState, Table
<1>4. ASSUME NEW q \in Refund, RefundMarked(q)
      PROVE  tx'[r].state = "failed"
  <2>1. CASE UNCHANGED tx
    BY <2>1
  <2>2. CASE tx' = MarkState(tx, q, "failed")
    BY <1>1, <2>2, Kinds, MarkedRow DEF TxState
  <2>3. QED
    BY <1>4, <2>1, <2>2 DEF RefundMarked
<1>5. ASSUME NEW h \in Handler, CloseDispute(h)
      PROVE  tx'[r] = tx[r]
  <2>1. handler[h].event.object \in Dispute
    BY <1>5, Served DEF CloseDispute, Serving, Fits
  <2>2. QED
    BY <1>1, <1>5, <2>1 DEF CloseDispute, MarkState, Table
<1>6. ASSUME NEW h \in Handler, InsertRow(h)
      PROVE  tx'[r] = tx[r]
  BY <1>1, <1>6 DEF InsertRow, Insertable, Exists, Insert, Table
<1>7. CASE CancelTimeoutTransactions
  BY <1>1, <1>7, TimerMarks
<1>8. CASE \/ \E i \in Intent : CreateIntent(i)
           \/ StripeStep
           \/ \E h \in Handler : \/ \E e \in sent : Look(h, e)
                                 \/ LookForPayment(h) \/ Throw(h)
                                 \/ SkipExisting(h) \/ MarkRefundFailed(h)
                                 \/ BanForReversal(h)
           \/ UNCHANGED vars
  <2>1. UNCHANGED tx
    BY <1>8 DEF CreateIntent, StripeStep, Payment, RefundCharge, DisputeCharge,
       ReverseTransfer, Announce, Look, LookForPayment, Throw, SkipExisting,
       MarkRefundFailed, BanForReversal, vars
  <2>2. QED
    BY <2>1
<1>9. QED
  BY <1>2, <1>3, <1>4, <1>5, <1>6, <1>7, <1>8 DEF Next, Write

\* A member whose refund failed gets the money back and keeps it, whichever of
\* charge.refunded and refund.updated comes first or again
\* (routes/pay/stripe/transaction.ts:100-186).
THEOREM FailedRefundsStayBack == Spec => FailedRefundsGivenBack
<1>1. IInv /\ IInv' /\ [Next]_vars =>
        [/\ FailedRefundGivenBack'
         /\ \A r \in Refund : tx[r].state = "failed" => tx'[r].state = "failed"]_vars
  BY FailedStays DEF IInv
<1>2. QED
  BY <1>1, Always, PTL DEF Spec, FailedRefundsGivenBack
=============================================================================
