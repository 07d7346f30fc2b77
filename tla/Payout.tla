------------------------------- MODULE Payout -------------------------------
(***************************************************************************)
(* Payouts: the payout mutation reserves an amount by a pending row, the   *)
(* Bull worker checks it again, orders a Stripe transfer and records it.   *)
(* The transfer carries no idempotency key and is made at Stripe, outside  *)
(* any database transaction.                                               *)
(***************************************************************************)
EXTENDS Ledger, TLC

CONSTANTS Caller,      \* concurrent payout requests
          Worker,      \* processes consuming the queue, one job each
          NoTx,        \* no transaction
          Minimum,     \* PAYMENT_MINIMAL_PAYOUT_AMOUNT.HKD, in dollars
          MaxStalled,  \* Bull's maxStalledCount: redeliveries of one job
          Opening      \* the table before the first request

ASSUME PayoutAssumption ==
  /\ NoTx \notin TxId
  /\ Minimum \in Nat
  /\ MaxStalled \in Nat
  /\ Opening \in Table
  /\ IsFiniteSet({id \in TxId : Opening[id].state # "none"})

VARIABLES tx,         \* the transaction table
          account,    \* members with a live payout_account
          request,    \* Caller -> where a payout request stands
          queue,      \* jobs waiting in Redis: ids of their transactions
          stalled,    \* how often each job was handed out again
          worker,     \* Worker -> where a handlePayout stands
          transfers,  \* at Stripe: transfers made for each payout
          late        \* not in the code: rows recorded when not pending

vars == <<tx, account, request, queue, stalled, worker, transfers, late>>

\* Each of the parallel reads is "unread" until it returns.
Verdict == {"unread", "ok", "refused"}

Idle == [pc |-> "idle", sender |-> NoUser, amount |-> 0, id |-> NoTx,
         balance |-> "unread", pending |-> "unread"]

Request == [pc      : {"idle", "reading", "inserted"},
            sender  : User \cup {NoUser},
            amount  : Amount \cup {0},
            id      : TxId \cup {NoTx},
            balance : Verdict,
            pending : Verdict]

Handler(pc, id) == [pc |-> pc, id |-> id, balance |-> "unread",
                    pending |-> "unread", account |-> "unread"]

Resting == Handler("resting", NoTx)

WorkerState == [pc      : {"resting", "reading", "transferred", "recorded"},
                id      : TxId \cup {NoTx},
                balance : Verdict,
                pending : Verdict,
                account : Verdict]

TypeOK ==
  /\ tx \in Table
  /\ account \in SUBSET User
  /\ request \in [Caller -> Request]
  /\ queue \in SUBSET TxId
  /\ stalled \in [TxId -> 0..MaxStalled]
  /\ worker \in [Worker -> WorkerState]
  /\ transfers \in [TxId -> Nat]
  /\ late \in SUBSET TxId

Paid(row) == row.purpose = "payout" /\ row.state = "succeeded"

Init ==
  /\ tx = Opening
  /\ account = User
  /\ request = [c \in Caller |-> Idle]
  /\ queue = {}
  /\ stalled = [id \in TxId |-> 0]
  /\ worker = [w \in Worker |-> Resting]
  /\ transfers = [id \in TxId |-> IF Paid(Opening[id]) THEN 1 ELSE 0]
  /\ late = {}

-----------------------------------------------------------------------------
(* The mutation.                                                           *)

Ask(c) ==
  /\ request[c].pc = "idle"
  /\ \E u \in User, a \in Amount :
       /\ a >= Minimum * Unit
       /\ request' = [request EXCEPT ![c] =
                        [Idle EXCEPT !.pc = "reading", !.sender = u, !.amount = a]]
  /\ UNCHANGED <<tx, account, queue, stalled, worker, transfers, late>>

ReadBalance(c) ==
  /\ request[c].pc = "reading" /\ request[c].balance = "unread"
  /\ request' = [request EXCEPT ![c].balance =
                   IF request[c].amount > HKDBalance(tx, request[c].sender) * Unit
                   THEN "refused" ELSE "ok"]
  /\ UNCHANGED <<tx, account, queue, stalled, worker, transfers, late>>

ReadPending(c) ==
  /\ request[c].pc = "reading" /\ request[c].pending = "unread"
  /\ request' = [request EXCEPT ![c].pending =
                   IF PendingPayouts(tx, request[c].sender) > 0
                   THEN "refused" ELSE "ok"]
  /\ UNCHANGED <<tx, account, queue, stalled, worker, transfers, late>>

\* A check threw, or the server stopped between two steps.
Drop(c) ==
  /\ request[c].pc # "idle"
  /\ request' = [request EXCEPT ![c] = Idle]
  /\ UNCHANGED <<tx, account, queue, stalled, worker, transfers, late>>

Reserve(c) ==
  /\ request[c].pc = "reading"
  /\ request[c].balance = "ok" /\ request[c].pending = "ok"
  /\ request[c].sender \in account
  /\ \E id \in TxId :
       /\ tx[id].state = "none"
       /\ tx' = Insert(tx, id, Row("payout", "pending", request[c].sender,
                                   NoUser, request[c].amount, 0))
       /\ request' = [request EXCEPT ![c].pc = "inserted", ![c].id = id]
  /\ UNCHANGED <<account, queue, stalled, worker, transfers, late>>

\* payoutQueue.payout, which the mutation does not await.
Enqueue(c) ==
  /\ request[c].pc = "inserted"
  /\ queue' = queue \cup {request[c].id}
  /\ request' = [request EXCEPT ![c] = Idle]
  /\ UNCHANGED <<tx, account, stalled, worker, transfers, late>>

-----------------------------------------------------------------------------
(* The worker.                                                             *)

Taken_StillQueued(id) == queue

Taken(id) == queue \ {id}

TakeJob(w) ==
  /\ worker[w].pc = "resting"
  /\ \E id \in queue :
       /\ worker' = [worker EXCEPT ![w] = Handler("reading", id)]
       /\ queue' = Taken(id)
  /\ UNCHANGED <<tx, account, request, stalled, transfers, late>>

Judge(refused) == IF refused THEN "refused" ELSE "ok"

\* Promise.all over the balance, the account and the pending payouts.
Check(w) ==
  LET sender == tx[worker[w].id].sender IN
  /\ worker[w].pc = "reading"
  /\ \/ /\ worker[w].balance = "unread"
        /\ worker' = [worker EXCEPT ![w].balance = Judge(HKDBalance(tx, sender) < 0)]
     \/ /\ worker[w].account = "unread"
        /\ worker' = [worker EXCEPT ![w].account = Judge(sender \notin account)]
     \/ /\ worker[w].pending = "unread"
        /\ worker' = [worker EXCEPT ![w].pending =
                        Judge(PendingPayouts(tx, sender) > 1)]
  /\ UNCHANGED <<tx, account, request, queue, stalled, transfers, late>>

Verdicts(w) == {worker[w].balance, worker[w].pending, worker[w].account}

Refused_NotByAccount(w) == "refused" \in {worker[w].balance, worker[w].pending}

Refused(w) == "refused" \in Verdicts(w)

Cancel(w) ==
  /\ worker[w].pc = "reading"
  /\ "unread" \notin Verdicts(w) /\ Refused(w)
  /\ tx' = MarkState(tx, worker[w].id, "canceled")
  /\ worker' = [worker EXCEPT ![w] = Resting]
  /\ UNCHANGED <<account, request, queue, stalled, transfers, late>>

\* Stripe moves the money.
Transfer(w) ==
  /\ worker[w].pc = "reading"
  /\ Verdicts(w) = {"ok"}
  /\ transfers' = [transfers EXCEPT ![worker[w].id] = @ + 1]
  /\ worker' = [worker EXCEPT ![w].pc = "transferred"]
  /\ UNCHANGED <<tx, account, request, queue, stalled, late>>

Record_BeforeTransfer(w) ==
  /\ worker[w].pc = "reading"
  /\ Verdicts(w) = {"ok"}
  /\ tx' = MarkState(tx, worker[w].id, "succeeded")
  /\ worker' = [worker EXCEPT ![w].pc = "recorded"]
  /\ UNCHANGED <<account, request, queue, stalled, transfers, late>>

Record(w) ==
  /\ worker[w].pc = "transferred"
  /\ tx' = MarkState(tx, worker[w].id, "succeeded")
  /\ worker' = [worker EXCEPT ![w].pc = "recorded"]
  /\ late' = IF tx[worker[w].id].state \in {"failed", "canceled"}
             THEN late \cup {worker[w].id} ELSE late
  /\ UNCHANGED <<account, request, queue, stalled, transfers>>

Finish(w) ==
  /\ worker[w].pc = "recorded"
  /\ worker' = [worker EXCEPT ![w] = Resting]
  /\ UNCHANGED <<tx, account, request, queue, stalled, transfers, late>>

\* A read, the exchange rate, Stripe, the update or the mail throws; an answer
\* of Stripe that got lost throws after the money has moved.
Fail(w) ==
  /\ worker[w].pc # "resting"
  /\ tx' = MarkState(tx, worker[w].id, "failed")
  /\ worker' = [worker EXCEPT ![w] = Resting]
  /\ UNCHANGED <<account, request, queue, stalled, transfers, late>>

MayStall_Always(id) == TRUE

MayStall(id) == stalled[id] < MaxStalled

\* The lock on the job expires; the handler died or goes on.
Redeliver(w) ==
  /\ worker[w].pc # "resting"
  /\ MayStall(worker[w].id)
  /\ stalled' = [stalled EXCEPT ![worker[w].id] = @ + 1]
  /\ queue' = queue \cup {worker[w].id}
  /\ \/ worker' = [worker EXCEPT ![w] = Resting]
     \/ UNCHANGED worker
  /\ UNCHANGED <<tx, account, request, transfers, late>>

\* Stalled more often than Bull allows: the job is failed, nobody told.
GiveUp(w) ==
  /\ worker[w].pc # "resting"
  /\ ~MayStall(worker[w].id)
  /\ worker' = [worker EXCEPT ![w] = Resting]
  /\ UNCHANGED <<tx, account, request, queue, stalled, transfers, late>>

\* Stripe tells that an account may, or may no more, receive transfers.
UpdateAccount(u) ==
  /\ account' = IF u \in account THEN account \ {u} ELSE account \cup {u}
  /\ UNCHANGED <<tx, request, queue, stalled, worker, transfers, late>>

RequestStep(c) == \/ Ask(c) \/ ReadBalance(c) \/ ReadPending(c) \/ Drop(c)
                  \/ Reserve(c) \/ Enqueue(c)

HandlerStep(w) == \/ TakeJob(w) \/ Check(w) \/ Cancel(w) \/ Transfer(w)
                  \/ Record(w) \/ Finish(w)

Next ==
  \/ \E c \in Caller : RequestStep(c)
  \/ \E w \in Worker : HandlerStep(w) \/ Fail(w) \/ Redeliver(w) \/ GiveUp(w)
  \/ \E u \in User : UpdateAccount(u)

Spec == Init /\ [][Next]_vars

-----------------------------------------------------------------------------
(* Properties.                                                             *)

\* A payout recorded as succeeded was transferred: no interleaving of
\* redelivered handlers records a payout Stripe was never asked for.
SucceededWasTransferred ==
  \A id \in TxId : Paid(tx[id]) => transfers[id] > 0

\* Money leaves twice for one payout only when its job was handed out twice.
TransfersBoundedByDeliveries ==
  \A id \in TxId : transfers[id] <= 1 + stalled[id]

\* Of two payouts of one member, the second is transferred only after the
\* first was decided: never two transferred payouts pending at once.
OnePayoutInFlight ==
  \A a, b \in TxId :
    /\ a # b
    /\ tx[a].purpose = "payout" /\ tx[b].purpose = "payout"
    /\ tx[a].sender = tx[b].sender
    /\ tx[a].state = "pending" /\ tx[b].state = "pending"
    => transfers[a] = 0 \/ transfers[b] = 0

Responsible(id) ==
  \/ \E c \in Caller : request[c].pc = "inserted" /\ request[c].id = id
  \/ id \in queue
  \/ \E w \in Worker : worker[w].pc # "resting" /\ worker[w].id = id

\* A payout waits only as long as a request, a job or a handler has it.
PayoutsDecided ==
  \A id \in TxId :
    (tx[id].state = "pending" /\ id \in queue) ~>
      (tx[id].state # "pending" \/ ~Responsible(id))

-----------------------------------------------------------------------------
(* The instance checked: one member with three and a half dollars asks for *)
(* payouts of two; because cents are dropped, the balance alone does not   *)
(* keep the second back.                                                   *)

Credit == CHOOSE id \in TxId : TRUE

HalfDollarOver ==
  [id \in TxId |-> IF id = Credit
                   THEN Row("addCredit", "succeeded", NoUser,
                            CHOOSE u \in User : TRUE, 3 * Unit + Unit \div 2, 0)
                   ELSE NoRow]

AnyName == Permutations(TxId \ {Credit}) \cup Permutations(Worker)
             \cup Permutations(Caller)
=============================================================================
