-------------------------------- MODULE PayTo --------------------------------
(***************************************************************************)
(* HKD donations: the payTo mutation (reads the balance, reads what was    *)
(* donated today, inserts a pending row, enqueues a job), the Bull worker  *)
(* that settles the row, and the timer that cancels rows left pending for  *)
(* half an hour.  Requests, workers and timer run concurrently and meet    *)
(* only in the transaction table and the queue.                            *)
(***************************************************************************)
EXTENDS Ledger

CONSTANTS Caller,      \* concurrent payTo requests
          Worker,      \* processes consuming the queue, one job each
          NoTx,        \* no transaction
          Limit,       \* PAYMENT_MAXIMUM_PAYTO_AMOUNT.HKD, in dollars
          MaxStalled,  \* Bull's maxStalledCount: redeliveries of one job
          Opening      \* the table before the first request

ASSUME PayToAssumption ==
  /\ NoTx \notin TxId
  /\ Limit \in Nat
  /\ MaxStalled \in Nat
  /\ Opening \in Table

\* Nobody starts with more spent than received, or above the day's limit.
ASSUME OpeningAssumption ==
  /\ IsFiniteSet(Existing(Opening))
  /\ \A u \in User :
       /\ AmountOf(Opening, Received(Opening, u))
            - AmountOf(Opening, Settled(Opening, u)) > -Unit
       /\ \A d \in 0..MaxDay :
            AmountOf(Opening, HKDDonationsOn(Opening, u, d)) < (Limit + 1) * Unit

VARIABLES tx,       \* the transaction table
          today,    \* the UTC+8 day
          request,  \* Caller -> where a payTo request stands
          queue,    \* jobs waiting in Redis: ids of their transactions
          stalled,  \* how often each job was handed out again
          worker,   \* Worker -> where a handlePayTo stands
          history   \* not in the code: rows settled or unsettled irregularly

vars == <<tx, today, request, queue, stalled, worker, history>>

Idle == [pc |-> "idle", sender |-> NoUser, recipient |-> NoUser,
         amount |-> 0, id |-> NoTx]

Request == [pc        : {"idle", "balance", "limit", "inserted"},
            sender    : User \cup {NoUser},
            recipient : User \cup {NoUser},
            amount    : Amount \cup {0},
            id        : TxId \cup {NoTx}]

\* A handler reads balance and hasPaid in parallel: each "unread" until then.
Job(id) == [pc |-> "reading", id |-> id, balance |-> "unread",
            hasPaid |-> "unread"]

Resting == [pc |-> "resting", id |-> NoTx, balance |-> "unread",
            hasPaid |-> "unread"]

Verdict == {"unread", "ok", "refused"}

WorkerState == [pc      : {"resting", "reading", "settled"},
                id      : TxId \cup {NoTx},
                balance : Verdict,
                hasPaid : Verdict]

\* late: settled when the row was not pending any more.
\* overnight: settled with a daily sum read on a later day than the row's.
\* undone: was succeeded once and is not any more.
History == [late : SUBSET TxId, overnight : SUBSET TxId, undone : SUBSET TxId]

TypeOK ==
  /\ tx \in Table
  /\ today \in 0..MaxDay
  /\ request \in [Caller -> Request]
  /\ queue \in SUBSET TxId
  /\ stalled \in [TxId -> 0..MaxStalled]
  /\ worker \in [Worker -> WorkerState]
  /\ history \in History

Init ==
  /\ tx = Opening
  /\ today = 0
  /\ request = [c \in Caller |-> Idle]
  /\ queue = {}
  /\ stalled = [id \in TxId |-> 0]
  /\ worker = [w \in Worker |-> Resting]
  /\ history = [late |-> {}, overnight |-> {}, undone |-> {}]

-----------------------------------------------------------------------------
(* The mutation.  A refused check throws and leaves nothing behind.        *)

CheckBalance(c) ==
  /\ request[c].pc = "idle"
  /\ \E u \in User, v \in User, a \in Amount :
       /\ u # v
       /\ a <= HKDBalance(tx, u) * Unit
       /\ request' = [request EXCEPT ![c] =
            [pc |-> "balance", sender |-> u, recipient |-> v, amount |-> a,
             id |-> NoTx]]
  /\ UNCHANGED <<tx, today, queue, stalled, worker, history>>

WithinLimit_EachAlone(u, a) == a <= Limit * Unit

WithinLimit(u, a) ==
  /\ a <= Limit * Unit
  /\ a + DonatedOn(tx, u, today) * Unit <= Limit * Unit

PassLimit(c) ==
  /\ request[c].pc = "balance"
  /\ WithinLimit(request[c].sender, request[c].amount)
  /\ request' = [request EXCEPT ![c].pc = "limit"]
  /\ UNCHANGED <<tx, today, queue, stalled, worker, history>>

\* PaymentReachMaximumLimitError
RefuseLimit(c) ==
  /\ request[c].pc = "balance"
  /\ ~WithinLimit(request[c].sender, request[c].amount)
  /\ request' = [request EXCEPT ![c] = Idle]
  /\ UNCHANGED <<tx, today, queue, stalled, worker, history>>

InsertPending(c) ==
  /\ request[c].pc = "limit"
  /\ \E id \in TxId :
       /\ tx[id].state = "none"
       /\ tx' = Insert(tx, id, Row("donation", "pending", request[c].sender,
                                   request[c].recipient, request[c].amount,
                                   today))
       /\ request' = [request EXCEPT ![c].pc = "inserted", ![c].id = id]
  /\ UNCHANGED <<today, queue, stalled, worker, history>>

\* payToByMattersQueue.payTo, which the mutation does not await.
Enqueue(c) ==
  /\ request[c].pc = "inserted"
  /\ queue' = queue \cup {request[c].id}
  /\ request' = [request EXCEPT ![c] = Idle]
  /\ UNCHANGED <<tx, today, stalled, worker, history>>

\* The server stops, or Redis refuses the job, between two steps.
LoseRequest(c) ==
  /\ request[c].pc # "idle"
  /\ request' = [request EXCEPT ![c] = Idle]
  /\ UNCHANGED <<tx, today, queue, stalled, worker, history>>

-----------------------------------------------------------------------------
(* The worker.                                                             *)

TakeJob(w) ==
  /\ worker[w].pc = "resting"
  /\ \E id \in queue :
       /\ worker' = [worker EXCEPT ![w] = Job(id)]
       /\ queue' = queue \ {id}
  /\ UNCHANGED <<tx, today, request, stalled, history>>

ReadBalance(w) ==
  LET row == tx[worker[w].id] IN
  /\ worker[w].pc = "reading"
  /\ worker[w].balance = "unread"
  /\ worker' = [worker EXCEPT ![w].balance =
                  IF HKDBalance(tx, row.sender) < 0 THEN "refused" ELSE "ok"]
  /\ UNCHANGED <<tx, today, request, queue, stalled, history>>

ReadHasPaid(w) ==
  LET row == tx[worker[w].id] IN
  /\ worker[w].pc = "reading"
  /\ worker[w].hasPaid = "unread"
  /\ worker' = [worker EXCEPT ![w].hasPaid =
                  IF WithinLimit(row.sender, row.amount) THEN "ok" ELSE "refused"]
  /\ history' = IF row.day # today
                THEN [history EXCEPT !.overnight = @ \cup {worker[w].id}]
                ELSE history
  /\ UNCHANGED <<tx, today, request, queue, stalled>>

Decided(w) == /\ worker[w].pc = "reading"
              /\ "unread" \notin {worker[w].balance, worker[w].hasPaid}

Refused(w) == "refused" \in {worker[w].balance, worker[w].hasPaid}

NoteUndone(id) ==
  history' = IF tx[id].state = "succeeded"
             THEN [history EXCEPT !.undone = @ \cup {id}]
             ELSE history

Cancel(w) ==
  /\ Decided(w) /\ Refused(w)
  /\ tx' = MarkState(tx, worker[w].id, "canceled")
  /\ worker' = [worker EXCEPT ![w] = Resting]
  /\ NoteUndone(worker[w].id)
  /\ UNCHANGED <<today, request, queue, stalled>>

Settle(w) ==
  /\ Decided(w) /\ ~Refused(w)
  /\ tx' = MarkState(tx, worker[w].id, "succeeded")
  /\ worker' = [worker EXCEPT ![w].pc = "settled"]
  /\ history' = IF tx[worker[w].id].state \notin {"pending", "succeeded"}
                THEN [history EXCEPT !.late = @ \cup {worker[w].id}]
                ELSE history
  /\ UNCHANGED <<today, request, queue, stalled>>

\* notifyDonation and the cache invalidation went well.
Finish(w) ==
  /\ worker[w].pc = "settled"
  /\ worker' = [worker EXCEPT ![w] = Resting]
  /\ UNCHANGED <<tx, today, request, queue, stalled, history>>

Fail_Reopens(w) ==
  /\ worker[w].pc # "resting"
  /\ tx' = MarkState(tx, worker[w].id, "pending")
  /\ worker' = [worker EXCEPT ![w] = Resting]
  /\ UNCHANGED <<today, request, queue, stalled, history>>

\* A read or notifyDonation throws: failTx, whatever was written before.
Fail(w) ==
  /\ worker[w].pc # "resting"
  /\ tx' = MarkState(tx, worker[w].id, "failed")
  /\ worker' = [worker EXCEPT ![w] = Resting]
  /\ NoteUndone(worker[w].id)
  /\ UNCHANGED <<today, request, queue, stalled>>

MayStall_Always(id) == TRUE

MayStall(id) == stalled[id] < MaxStalled

\* The lock on the job expires: Bull hands the job out again, and the first
\* handler either died with its process or goes on with what it has read.
Redeliver(w) ==
  /\ worker[w].pc # "resting"
  /\ MayStall(worker[w].id)
  /\ stalled' = [stalled EXCEPT ![worker[w].id] = @ + 1]
  /\ queue' = queue \cup {worker[w].id}
  /\ \/ worker' = [worker EXCEPT ![w] = Resting]
     \/ UNCHANGED worker
  /\ UNCHANGED <<tx, today, request, history>>

\* Stalled more often than Bull allows: the job is failed, nobody told.
GiveUp(w) ==
  /\ worker[w].pc # "resting"
  /\ ~MayStall(worker[w].id)
  /\ worker' = [worker EXCEPT ![w] = Resting]
  /\ UNCHANGED <<tx, today, request, queue, stalled, history>>

-----------------------------------------------------------------------------
(* The timer and the calendar.                                             *)

\* One UPDATE over every row that is old enough; age is not modelled.
CancelTimeoutTransactions ==
  \E ids \in SUBSET {id \in TxId : TimesOut(tx[id])} :
     /\ ids # {}
     /\ tx' = [id \in TxId |-> IF id \in ids
                               THEN [tx[id] EXCEPT !.state = "canceled"]
                               ELSE tx[id]]
     /\ UNCHANGED <<today, request, queue, stalled, worker, history>>

NextDay ==
  /\ today < MaxDay
  /\ today' = today + 1
  /\ UNCHANGED <<tx, request, queue, stalled, worker, history>>

RequestStep(c) == \/ CheckBalance(c) \/ PassLimit(c) \/ RefuseLimit(c)
                  \/ InsertPending(c) \/ Enqueue(c) \/ LoseRequest(c)

HandlerStep(w) == \/ TakeJob(w) \/ ReadBalance(w) \/ ReadHasPaid(w)
                  \/ Cancel(w) \/ Settle(w) \/ Finish(w)

Next ==
  \/ \E c \in Caller : RequestStep(c)
  \/ \E w \in Worker : HandlerStep(w) \/ Fail(w) \/ Redeliver(w) \/ GiveUp(w)
  \/ CancelTimeoutTransactions
  \/ NextDay

Spec == Init /\ [][Next]_vars

-----------------------------------------------------------------------------
(* Properties.                                                             *)

\* What u ever received, including credits a failed handler took back.
EverReceived(u) ==
  Received(tx, u) \cup {id \in history.undone : tx[id].recipient = u}

\* What left u's wallet by settlements of rows that were still pending.
SettledInTime(u) == Settled(tx, u) \ history.late

\* However requests, handlers, redeliveries and the timer interleave, members
\* never spend a dollar more than they received, unless a credit they had
\* spent was taken back or a row was settled after it had left "pending".
\* (handlePayTo's balance check counts pending rows, paymentService.ts:600.)
OverdraftExplained ==
  \A u \in User :
    AmountOf(tx, EverReceived(u)) - AmountOf(tx, SettledInTime(u)) > -Unit

\* With one handler at a time, the donations of a day stay below the daily
\* limit plus the cents parseInt drops, except for those handled after
\* midnight, whose day's sum the handler does not look at.
DailyLimitKept ==
  \A u \in User, d \in 0..MaxDay :
    AmountOf(tx, HKDDonationsOn(tx, u, d) \ history.overnight) < (Limit + 1) * Unit

\* Every donation comes to rest: it is pending no more and changes no more,
\* although jobs are lost, handed out again and race with the timer.
DonationsComeToRest ==
  \A id \in TxId :
    /\ <>[](tx[id].purpose = "donation" => tx[id].state # "pending")
    /\ <>[][tx'[id].state = tx[id].state]_tx
=============================================================================
