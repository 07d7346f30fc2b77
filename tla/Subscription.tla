---------------------------- MODULE Subscription ----------------------------
(* Circle subscriptions of one member: the webhook (routes/pay/stripe/circle.ts),
   unsubscribeCircle, the job that turns trials into paid subscriptions and the
   statements of connectors/paymentService.ts they share.

   A subscription is a row with one item per circle.  A paid one has a
   counterpart at Stripe, which announces what becomes of it; a trial exists in
   the table only.  A step is one statement, or one call of Stripe.  New
   subscriptions are no longer sold: the set-ups that were paid for and the
   invitations that were sent are there from the start. *)
EXTENDS Naturals, FiniteSets

CONSTANTS
  Circle,    \* circles, each with one active price
  Sub,       \* subscriptions, paid or trial, there may ever be
  Process,   \* webhook requests, mutations and the job, at once
  MaxMoves,  \* changes of status at Stripe
  MaxLeaves, \* how often the member unsubscribes
  MaxFaults  \* stops, overlaps and repeated set-ups

VARIABLES
  stripeSub,  \* at Stripe: status and circles billed, per subscription
  row,        \* circle_subscription: provider and state
  item,       \* circle_subscription_item: "none", "kept" or "archived"
  invite,     \* state of the member's invitation to each circle
  sent,       \* events Stripe has announced
  acked,      \* events it got a 200 for
  invoiced,   \* per subscription: how often its invoice is in the table, split
  process,    \* per process: what it does and has read
  counts,     \* moves, leaves and faults so far
  troubles    \* which faults (history variable)

subVars == <<stripeSub, row, item, invite, sent, acked, invoiced, process,
             counts, troubles>>

Live == {"trialing", "active", "past_due"}
NoSub == [status |-> "none", circles |-> {}]
NoRow == [provider |-> "none", state |-> "none"]

Setup(c) == [type |-> "setup_intent", circle |-> c]
Status(s, st) == [type |-> "subscription", sub |-> s, status |-> st]
Invoice(s) == [type |-> "invoice", sub |-> s]
Event == {Setup(c) : c \in Circle} \cup {Invoice(s) : s \in Sub}
           \cup {Status(s, st) : s \in Sub, st \in Live \cup {"canceled"}}

None == "none"
NoEvent == [type |-> None]
Idle == [step |-> "idle", event |-> NoEvent, circle |-> None, sub |-> None,
         seen |-> {}, alone |-> FALSE]

Init ==
  /\ stripeSub = [s \in Sub |-> NoSub]
  /\ row = [s \in Sub |-> NoRow]
  /\ item = [s \in Sub |-> [c \in Circle |-> "none"]]
  /\ invite \in [Circle -> {"none", "pending"}]
  /\ sent = {Setup(c) : c \in Circle}
  /\ acked = {}
  /\ invoiced = [s \in Sub |-> 0]
  /\ process = [p \in Process |-> Idle]
  /\ counts = [moves |-> 0, leaves |-> 0, faults |-> 0]
  /\ troubles = {}

Goto(p, step) == process' = [process EXCEPT ![p].step = step]
Done(p) == process' = [process EXCEPT ![p] = Idle]

Kept(s) == {c \in Circle : item[s][c] = "kept"}

\* findActiveSubscriptions
ActiveRows == {s \in Sub : row[s].state \in Live}

-----------------------------------------------------------------------------
(* Stripe. *)

StripeMoves(s, st) ==
  /\ counts.moves < MaxMoves
  /\ stripeSub[s].status \in Live /\ st # stripeSub[s].status
  /\ st \in {"active", "past_due", "canceled"}
  /\ stripeSub' = [stripeSub EXCEPT ![s].status = st]
  /\ sent' = sent \cup {Status(s, st)}
               \cup IF st = "active" THEN {Invoice(s)} ELSE {}
  /\ counts' = [counts EXCEPT !.moves = @ + 1]
  /\ UNCHANGED <<row, item, invite, acked, invoiced, process, troubles>>

\* What a handler does first with an event.
FirstStep(e) ==
  CASE e.type = "setup_intent" -> "active"
    [] e.type = "subscription" -> "row"
    [] e.type = "invoice"      -> "tx"

\* Work begins; extra counts as a fault, and so does work of another process.
Begin(p, first, extra) ==
  LET faults == extra \cup IF \E q \in Process \ {p} : process[q] # Idle
                             THEN {"overlap"} ELSE {}
  IN
  /\ process[p] = Idle
  /\ counts.faults + Cardinality(faults) <= MaxFaults
  /\ process' = [process EXCEPT ![p] = first]
  /\ counts' = [counts EXCEPT !.faults = @ + Cardinality(faults),
                  !.leaves = @ + IF first.step = "items" THEN 1 ELSE 0]
  /\ troubles' = troubles \cup faults
  /\ UNCHANGED <<stripeSub, row, item, invite, sent, acked, invoiced>>

\* An event is delivered until it got its 200; once more counts as a fault.
Receive(p, e) ==
  /\ e \in sent
  /\ Begin(p, [Idle EXCEPT !.event = e, !.step = FirstStep(e),
                 !.circle = IF e.type = "setup_intent" THEN e.circle ELSE None],
           IF e \in acked THEN {"again"} ELSE {})

\* The 200 that ends the deliveries.
Acknowledge(p) ==
  /\ process[p].step = "ack"
  /\ acked' = acked \cup {process[p].event}
  /\ Done(p)
  /\ UNCHANGED <<stripeSub, row, item, invite, sent, invoiced, counts, troubles>>

\* A statement or a call throws, or the process stops: an event comes again.
Stop(p) ==
  /\ counts.faults < MaxFaults
  /\ process[p] # Idle
  /\ Done(p)
  /\ counts' = [counts EXCEPT !.faults = @ + 1]
  /\ troubles' = troubles \cup {"stop"}
  /\ UNCHANGED <<stripeSub, row, item, invite, sent, acked, invoiced>>

-----------------------------------------------------------------------------
(* createSubscriptionOrItem, by the webhook and by the job. *)

ForJob(p) == process[p].event = NoEvent

ReadActive(p) ==
  /\ process[p].step = "active"
  /\ process' = [process EXCEPT ![p].seen = ActiveRows, ![p].step = "invite"]
  /\ UNCHANGED <<stripeSub, row, item, invite, sent, acked, invoiced, counts, troubles>>

\* The subscriptions read which are of the provider the item is for.
Fitting(p, provider) == {s \in process[p].seen : row[s].provider = provider}

\* findPendingInvitation: an invitation makes it a trial.
FindInvitation(p) ==
  LET provider == IF invite[process[p].circle] = "pending" THEN "matters" ELSE "stripe"
      fitting  == Fitting(p, provider)
  IN
  /\ process[p].step = "invite"
  /\ IF fitting = {}
     THEN Goto(p, IF provider = "stripe" THEN "createSub" ELSE "trialSub")
     ELSE \E s \in fitting :
            process' = [process EXCEPT ![p].sub = s,
              ![p].step = IF provider = "stripe" THEN "createItem" ELSE "insertItem"]
  /\ UNCHANGED <<stripeSub, row, item, invite, sent, acked, invoiced, counts, troubles>>

Free == {s \in Sub : row[s] = NoRow /\ stripeSub[s] = NoSub}

\* A trial has no counterpart at Stripe.
InsertTrial(p) ==
  /\ process[p].step = "trialSub"
  /\ \E s \in Free :
       /\ row' = [row EXCEPT ![s] = [provider |-> "matters", state |-> "trialing"]]
       /\ process' = [process EXCEPT ![p].sub = s, ![p].step = "insertItem"]
  /\ UNCHANGED <<stripeSub, item, invite, sent, acked, invoiced, counts, troubles>>

CreateStripeSub(p) ==
  /\ process[p].step = "createSub"
  /\ \E s \in Free :
       /\ stripeSub' = [stripeSub EXCEPT ![s] =
            [status |-> "trialing", circles |-> {process[p].circle}]]
       /\ process' = [process EXCEPT ![p].sub = s, ![p].step = "insertRow"]
  /\ UNCHANGED <<row, item, invite, sent, acked, invoiced, counts, troubles>>

InsertRow(p) ==
  /\ process[p].step = "insertRow"
  /\ row' = [row EXCEPT ![process[p].sub] = [provider |-> "stripe", state |-> "trialing"]]
  /\ Goto(p, "insertItem")
  /\ UNCHANGED <<stripeSub, item, invite, sent, acked, invoiced, counts, troubles>>

\* Stripe refuses one price twice in a subscription, and anything after its end.
AcceptsItem(s, c) == stripeSub[s].status \in Live /\ c \notin stripeSub[s].circles

CreateStripeItem(p) ==
  LET s == process[p].sub  c == process[p].circle IN
  /\ process[p].step = "createItem" /\ AcceptsItem(s, c)
  /\ stripeSub' = [stripeSub EXCEPT ![s].circles = @ \cup {c}]
  /\ Goto(p, "insertItem")
  /\ UNCHANGED <<row, item, invite, sent, acked, invoiced, counts, troubles>>

\* The call throws: the event is sent again, the job notes a failure.
RefusedByStripe(p) ==
  /\ process[p].step = "createItem" /\ ~AcceptsItem(process[p].sub, process[p].circle)
  /\ IF ForJob(p) THEN Goto(p, "failed") ELSE Done(p)
  /\ UNCHANGED <<stripeSub, row, item, invite, sent, acked, invoiced, counts, troubles>>

InsertItem(p) ==
  LET s == process[p].sub IN
  /\ process[p].step = "insertItem"
  /\ item' = [item EXCEPT ![s][process[p].circle] = "kept"]
  /\ Goto(p, IF row[s].provider = "matters" THEN "accept"
             ELSE IF ForJob(p) THEN "transferred" ELSE "ack")
  /\ UNCHANGED <<stripeSub, row, invite, sent, acked, invoiced, counts, troubles>>

AcceptInvitation(p) ==
  /\ process[p].step = "accept"
  /\ invite' = [invite EXCEPT ![process[p].circle] = "accepted"]
  /\ Goto(p, IF ForJob(p) THEN "transferred" ELSE "ack")
  /\ UNCHANGED <<stripeSub, row, item, sent, acked, invoiced, counts, troubles>>

-----------------------------------------------------------------------------
(* updateSubscription *)

\* Without a row the event is acknowledged all the same.
FindRow(p) ==
  LET s == process[p].event.sub IN
  /\ process[p].step = "row"
  /\ process' = [process EXCEPT ![p].sub = s, ![p].seen = {row[s].state},
       ![p].step = IF row[s] = NoRow THEN "ack" ELSE "update"]
  /\ troubles' = IF row[s] = NoRow THEN troubles \cup {"early"} ELSE troubles
  /\ UNCHANGED <<stripeSub, row, item, invite, sent, acked, invoiced, counts>>

MayUpdate_Reopens(seen, status) == status \notin seen

\* Nothing leads out of a canceled subscription.
MayUpdate(seen, status) == status \notin seen /\ "canceled" \notin seen

UpdateRow(p) ==
  LET e == process[p].event IN
  /\ process[p].step = "update"
  /\ row' = IF MayUpdate(process[p].seen, e.status)
              THEN [row EXCEPT ![e.sub].state = e.status] ELSE row
  /\ Goto(p, IF e.status = "canceled" THEN "archiveAll" ELSE "ack")
  /\ UNCHANGED <<stripeSub, item, invite, sent, acked, invoiced, counts, troubles>>

ArchiveItems(p) ==
  LET s == process[p].sub IN
  /\ process[p].step = "archiveAll"
  /\ item' = [item EXCEPT ![s] =
       [c \in Circle |-> IF @[c] = "kept" THEN "archived" ELSE @[c]]]
  /\ Goto(p, "ack")
  /\ UNCHANGED <<stripeSub, row, invite, sent, acked, invoiced, counts, troubles>>

-----------------------------------------------------------------------------
(* completeCircleInvoice *)

FindInvoice(p) ==
  LET s == process[p].event.sub IN
  /\ process[p].step = "tx"
  /\ process' = [process EXCEPT ![p].sub = s,
                   ![p].step = IF invoiced[s] > 0 THEN "ack" ELSE "split"]
  /\ UNCHANGED <<stripeSub, row, item, invite, sent, acked, invoiced, counts, troubles>>

MayInsert_Always(s) == row[s] # NoRow

\* There is a subscription, and provider_tx_id is unique.
MayInsert(s) == row[s] # NoRow /\ invoiced[s] = 0

\* createInvoiceWithTransactions: the payment, its invoice and its parts for the
\* owners of the circles in one transaction; without a row, or if another was
\* first, it throws.
SplitInvoice(p) ==
  LET s == process[p].sub IN
  /\ process[p].step = "split"
  /\ IF MayInsert(s)
     THEN /\ invoiced' = [invoiced EXCEPT ![s] = @ + 1]
          /\ Goto(p, "ack")
     ELSE /\ Done(p)
          /\ UNCHANGED invoiced
  /\ UNCHANGED <<stripeSub, row, item, invite, sent, acked, counts, troubles>>

-----------------------------------------------------------------------------
(* unsubscribeCircle.  It handles the member's subscriptions side by side; those
   with the circle are taken one after the other here. *)

Unsubscribe(p, c) ==
  /\ counts.leaves < MaxLeaves
  /\ Begin(p, [Idle EXCEPT !.circle = c, !.seen = ActiveRows, !.step = "items"], {})

Alone_UpToTwo(kept) == Cardinality(kept) <= 2

\* The subscription ends with its last item.
Alone(kept) == Cardinality(kept) <= 1

FindItems(p) ==
  LET q == process[p] IN
  /\ q.step = "items"
  /\ IF q.seen = {} THEN Done(p)
     ELSE \E s \in q.seen :
            process' = [process EXCEPT ![p] =
              [q EXCEPT !.seen = q.seen \ {s}, !.sub = s, !.alone = Alone(Kept(s)),
                 !.step = IF q.circle \notin Kept(s) THEN "items"
                          ELSE IF row[s].provider = "stripe" THEN "leave"
                          ELSE IF Alone(Kept(s)) THEN "markCanceled" ELSE "archiveOne"]]
  /\ UNCHANGED <<stripeSub, row, item, invite, sent, acked, invoiced, counts, troubles>>

\* An end made by this call is announced like any other.
CancelAtStripe(p) ==
  LET s == process[p].sub IN
  /\ process[p].step = "leave" /\ process[p].alone
  /\ stripeSub[s].status \in Live
  /\ stripeSub' = [stripeSub EXCEPT ![s].status = "canceled"]
  /\ sent' = sent \cup {Status(s, "canceled")}
  /\ Goto(p, "markCanceled")
  /\ UNCHANGED <<row, item, invite, acked, invoiced, counts, troubles>>

\* Stripe keeps the last item of a subscription.
MayDelete(s, c) ==
  stripeSub[s].status \in Live /\ c \in stripeSub[s].circles
    /\ stripeSub[s].circles # {c}

DeleteAtStripe(p) ==
  LET s == process[p].sub  c == process[p].circle IN
  /\ process[p].step = "leave" /\ ~process[p].alone /\ MayDelete(s, c)
  /\ stripeSub' = [stripeSub EXCEPT ![s].circles = @ \ {c}]
  /\ Goto(p, "archiveOne")
  /\ UNCHANGED <<row, item, invite, sent, acked, invoiced, counts, troubles>>

RefusesLeave(p) ==
  LET s == process[p].sub IN
  /\ process[p].step = "leave"
  /\ IF process[p].alone THEN stripeSub[s].status \notin Live
                         ELSE ~MayDelete(s, process[p].circle)
  /\ Goto(p, "items")
  /\ UNCHANGED <<stripeSub, row, item, invite, sent, acked, invoiced, counts, troubles>>

MarkCanceled(p) ==
  /\ process[p].step \in {"markCanceled", "endTrial"}
  /\ row' = [row EXCEPT ![process[p].sub].state = "canceled"]
  /\ Goto(p, IF process[p].step = "endTrial" THEN "endItem" ELSE "archiveOne")
  /\ UNCHANGED <<stripeSub, item, invite, sent, acked, invoiced, counts, troubles>>

ArchiveOne(p) ==
  /\ process[p].step \in {"archiveOne", "endItem"}
  /\ item' = [item EXCEPT ![process[p].sub][process[p].circle] = "archived"]
  /\ Goto(p, IF process[p].step = "endItem" THEN "card" ELSE "items")
  /\ UNCHANGED <<stripeSub, row, invite, sent, acked, invoiced, counts, troubles>>

-----------------------------------------------------------------------------
(* transferTrialEndSubscriptions: one trial that is over.  Its query joins the
   invitation to its item. *)

TrialEnds(p, s, c) ==
  /\ invite[c] = "accepted"
  /\ row[s].provider = "matters" /\ item[s][c] = "kept"
  /\ Begin(p, [Idle EXCEPT !.circle = c, !.sub = s, !.step = "countItems"], {})

CountItems(p) ==
  /\ process[p].step = "countItems"
  /\ Goto(p, IF Alone(Kept(process[p].sub)) THEN "endTrial" ELSE "endItem")
  /\ UNCHANGED <<stripeSub, row, item, invite, sent, acked, invoiced, counts, troubles>>

\* Without a card it throws.
CheckCard(p) ==
  /\ process[p].step = "card"
  /\ \E step \in {"active", "failed"} : Goto(p, step)
  /\ UNCHANGED <<stripeSub, row, item, invite, sent, acked, invoiced, counts, troubles>>

MarkInvitation(p) ==
  /\ process[p].step \in {"transferred", "failed"}
  /\ invite' = [invite EXCEPT ![process[p].circle] =
       IF process[p].step = "failed" THEN "transfer_failed" ELSE "transfer_succeeded"]
  /\ Done(p)
  /\ UNCHANGED <<stripeSub, row, item, sent, acked, invoiced, counts, troubles>>

-----------------------------------------------------------------------------
Progress(p) ==
  \/ Acknowledge(p) \/ ReadActive(p) \/ FindInvitation(p) \/ InsertTrial(p)
  \/ CreateStripeSub(p) \/ InsertRow(p) \/ CreateStripeItem(p) \/ RefusedByStripe(p)
  \/ InsertItem(p) \/ AcceptInvitation(p) \/ FindRow(p) \/ UpdateRow(p)
  \/ ArchiveItems(p) \/ FindInvoice(p) \/ SplitInvoice(p) \/ FindItems(p)
  \/ CancelAtStripe(p) \/ DeleteAtStripe(p) \/ RefusesLeave(p) \/ MarkCanceled(p)
  \/ ArchiveOne(p) \/ CountItems(p) \/ CheckCard(p) \/ MarkInvitation(p)

Next ==
  \/ \E s \in Sub, st \in Live \cup {"canceled"} : StripeMoves(s, st)
  \/ \E p \in Process :
       \/ \E e \in sent : Receive(p, e)
       \/ \E c \in Circle : Unsubscribe(p, c) \/ \E s \in Sub : TrialEnds(p, s, c)
       \/ Progress(p) \/ Stop(p)

Spec == Init /\ [][Next]_subVars

-----------------------------------------------------------------------------
(* Rows and what Stripe bills keep their types, and a trial is unknown there. *)
TypeOK ==
  /\ \A s \in Sub :
       /\ stripeSub[s].status \in Live \cup {"none", "canceled"}
       /\ stripeSub[s].circles \subseteq Circle
       /\ row[s].state \in Live \cup {"none", "canceled"}
       /\ row[s].provider = "matters" => stripeSub[s] = NoSub
  /\ acked \subseteq sent /\ sent \subseteq Event

Quiet == (\A p \in Process : process[p] = Idle) /\ sent = acked

(* When every event was answered and nobody is at work, a subscription that lives
   at Stripe has a live row whose items are the circles Stripe bills, and one
   that ended there is canceled in the table - unless a process stopped between
   Stripe and the table, two overlapped, or a set-up was delivered twice
   (circle.ts:135-236, paymentService.ts:1041-1220, unsubscribeCircle.ts:69-130). *)
BilledIsMember ==
  (Quiet /\ troubles = {}) =>
    \A s \in Sub :
      /\ stripeSub[s].status \in Live =>
           row[s].state \in Live /\ Kept(s) = stripeSub[s].circles
      /\ stripeSub[s].status = "canceled" => row[s].state = "canceled" /\ Kept(s) = {}

(* An invoice is in the table once at most, and its event is answered only when
   it is, whoever overlaps or stops (circle.ts:290-362). *)
InvoiceSplitOnce ==
  \A s \in Sub : invoiced[s] <= 1 /\ (Invoice(s) \in acked => invoiced[s] = 1)

\* isCircleMember
Member(c) == \E s \in Sub : row[s].state \in {"active", "trialing"} /\ item[s][c] = "kept"

(* A membership ends by unsubscribing from this circle, by the end of its trial,
   or with what Stripe announced - not when the member leaves another circle or
   another trial ends, unless two processes overlapped
   (unsubscribeCircle.ts:93-130, paymentService.ts:915-945). *)
MembersStay ==
  [ "overlap" \notin troubles =>
      \A c \in Circle : Member(c) /\ ~Member(c)' =>
        \E p \in Process : process[p].event.type = "subscription"
                             \/ process[p].circle = c ]_subVars
=============================================================================
