---------------------------- MODULE Payout_proofs ----------------------------
(***************************************************************************)
(* Proofs about Payout, for every set of members, requests and workers.    *)
(***************************************************************************)
EXTENDS Payout, FiniteSetTheorems, TLAPS

\* Who holds a transaction id holds one, and what a handler has transferred
\* was transferred: the strengthening that makes the invariants inductive.
HoldersOK ==
  /\ \A c \in Caller : request[c].pc = "inserted" => request[c].id \in TxId
  /\ \A w \in Worker : worker[w].pc # "resting" => worker[w].id \in TxId
  /\ \A w \in Worker : worker[w].pc \in {"transferred", "recorded"} =>
                         transfers[worker[w].id] > 0

IInv == TypeOK /\ HoldersOK /\ SucceededWasTransferred

-----------------------------------------------------------------------------
(* The table.                                                              *)

\* A pending payout row is a row of the table.
LEMMA PayoutRowType ==
  ASSUME NEW u \in User, NEW a \in Nat
  PROVE  Row("payout", "pending", u, NoUser, a, 0) \in Tx
<1>1. 0 \in 0..MaxDay
  BY LedgerAssumption
<1>2. QED
  BY <1>1 DEF Row, Tx, TxState, Purpose, Currency

\* Inserting a row keeps the table a table.
LEMMA InsertType ==
  ASSUME NEW tbl \in Table, NEW id, NEW row \in Tx
  PROVE  Insert(tbl, id, row) \in Table
BY DEF Insert, Table

\* So does marking one.
LEMMA MarkStateType ==
  ASSUME NEW tbl \in Table, NEW id, NEW s \in TxState
  PROVE  MarkState(tbl, id, s) \in Table
BY DEF MarkState, Table, Tx

\* Marking a row as anything but succeeded makes no other row paid.
LEMMA MarkKeepsPaid ==
  ASSUME NEW tbl \in Table, NEW id \in TxId, NEW s \in TxState, NEW other \in TxId,
         Paid(MarkState(tbl, id, s)[other])
  PROVE  Paid(tbl[other]) \/ (other = id /\ s = "succeeded")
BY DEF MarkState, Table, Tx, Paid

-----------------------------------------------------------------------------
(* The steps.                                                              *)

LEMMA InitIInv == Init => IInv
<1> SUFFICES ASSUME Init PROVE IInv
  OBVIOUS
<1>1. tx \in Table /\ account \in SUBSET User /\ queue \in SUBSET TxId /\ late \in SUBSET TxId
  BY PayoutAssumption DEF Init
<1>2. request \in [Caller -> Request]
  BY DEF Init, Idle, Request, Verdict
<1>3. worker \in [Worker -> WorkerState]
  BY DEF Init, Resting, Handler, WorkerState, Verdict
<1>4. stalled \in [TxId -> 0..MaxStalled] /\ transfers \in [TxId -> Nat]
  BY PayoutAssumption DEF Init
<1>5. HoldersOK
  BY DEF Init, HoldersOK, Idle, Resting, Handler
<1>6. SucceededWasTransferred
  BY DEF Init, SucceededWasTransferred
<1>7. QED
  BY <1>1, <1>2, <1>3, <1>4, <1>5, <1>6 DEF IInv, TypeOK

\* The steps of a request.
LEMMA RequestKeepsIInv ==
  ASSUME IInv, NEW c \in Caller, RequestStep(c)
  PROVE  IInv'
<1> USE DEF IInv, TypeOK
<1>0. request[c] \in Request
  OBVIOUS
<1>1. CASE Ask(c)
  <2>1. PICK u \in User, a \in Amount :
          request' = [request EXCEPT ![c] =
                        [Idle EXCEPT !.pc = "reading", !.sender = u, !.amount = a]]
    BY <1>1 DEF Ask
  <2>2. request' \in [Caller -> Request]
    BY <2>1 DEF Idle, Request, Verdict
  <2>3. HoldersOK'
    BY <1>1, <2>1 DEF Ask, HoldersOK, Idle
  <2>4. QED
    BY <1>1, <2>2, <2>3 DEF Ask, SucceededWasTransferred
<1>2. CASE ReadBalance(c)
  <2>1. request' \in [Caller -> Request]
    BY <1>2, <1>0 DEF ReadBalance, Request, Verdict
  <2>2. HoldersOK'
    BY <1>2 DEF ReadBalance, HoldersOK
  <2>3. QED
    BY <1>2, <2>1, <2>2 DEF ReadBalance, SucceededWasTransferred
<1>3. CASE ReadPending(c)
  <2>1. request' \in [Caller -> Request]
    BY <1>3, <1>0 DEF ReadPending, Request, Verdict
  <2>2. HoldersOK'
    BY <1>3 DEF ReadPending, HoldersOK
  <2>3. QED
    BY <1>3, <2>1, <2>2 DEF ReadPending, SucceededWasTransferred
<1>4. CASE Drop(c)
  <2>1. request' \in [Caller -> Request]
    BY <1>4 DEF Drop, Idle, Request, Verdict
  <2>2. HoldersOK'
    BY <1>4 DEF Drop, HoldersOK, Idle
  <2>3. QED
    BY <1>4, <2>1, <2>2 DEF Drop, SucceededWasTransferred
<1>5. CASE Reserve(c)
  <2> DEFINE row == Row("payout", "pending", request[c].sender, NoUser,
                        request[c].amount, 0)
  <2>1. PICK id \in TxId :
          /\ tx' = Insert(tx, id, row)
          /\ request' = [request EXCEPT ![c].pc = "inserted", ![c].id = id]
    BY <1>5 DEF Reserve
  <2>2. request[c].sender \in User /\ request[c].amount \in Nat
    BY <1>5, <1>0, LedgerAssumption DEF Reserve, Request
  <2>3. row \in Tx
    BY <2>2, PayoutRowType
  <2>4. tx' \in Table
    BY <2>1, <2>3, InsertType
  <2>5. request' \in [Caller -> Request]
    BY <2>1, <1>0 DEF Request
  <2>6. HoldersOK'
    BY <1>5, <2>1 DEF Reserve, HoldersOK
  <2>7. SucceededWasTransferred'
    BY <1>5, <2>1 DEF Reserve, SucceededWasTransferred, Insert, Table, Paid, Row
  <2>8. QED
    BY <1>5, <2>4, <2>5, <2>6, <2>7 DEF Reserve
<1>6. CASE Enqueue(c)
  <2>1. request' \in [Caller -> Request]
    BY <1>6 DEF Enqueue, Idle, Request, Verdict
  <2>2. queue' \in SUBSET TxId
    BY <1>6 DEF Enqueue, HoldersOK
  <2>3. HoldersOK'
    BY <1>6 DEF Enqueue, HoldersOK, Idle
  <2>4. QED
    BY <1>6, <2>1, <2>2, <2>3 DEF Enqueue, SucceededWasTransferred
<1>7. QED
  BY <1>1, <1>2, <1>3, <1>4, <1>5, <1>6 DEF RequestStep

\* The steps of a handler, and those Bull makes in its place.
LEMMA WorkerKeepsIInv ==
  ASSUME IInv, NEW w \in Worker,
         HandlerStep(w) \/ Fail(w) \/ Redeliver(w) \/ GiveUp(w)
  PROVE  IInv'
<1> USE DEF IInv, TypeOK
<1>0. worker[w] \in WorkerState
  OBVIOUS
<1>0a. ASSUME worker' = [worker EXCEPT ![w] = Resting]
       PROVE  worker' \in [Worker -> WorkerState]
  BY <1>0a DEF Resting, Handler, WorkerState, Verdict
<1>1. CASE TakeJob(w)
  <2>1. PICK id \in queue : worker' = [worker EXCEPT ![w] = Handler("reading", id)]
    BY <1>1 DEF TakeJob
  <2>2. worker' \in [Worker -> WorkerState]
    BY <2>1 DEF Handler, WorkerState, Verdict
  <2>3. queue' \in SUBSET TxId
    BY <1>1 DEF TakeJob, Taken
  <2>4. HoldersOK'
    BY <1>1, <2>1 DEF TakeJob, HoldersOK, Handler
  <2>5. QED
    BY <1>1, <2>2, <2>3, <2>4 DEF TakeJob, SucceededWasTransferred
<1>2. CASE Check(w)
  <2>1. \E v \in Verdict : \/ worker' = [worker EXCEPT ![w].balance = v]
                           \/ worker' = [worker EXCEPT ![w].account = v]
                           \/ worker' = [worker EXCEPT ![w].pending = v]
    BY <1>2 DEF Check, Judge, Verdict
  <2>2. worker' \in [Worker -> WorkerState]
    BY <2>1, <1>0 DEF WorkerState
  <2>3. \A v \in Worker : /\ worker'[v].pc = worker[v].pc
                          /\ worker'[v].id = worker[v].id
    BY <2>1 DEF WorkerState
  <2>4. HoldersOK'
    BY <1>2, <2>3 DEF Check, HoldersOK
  <2>5. QED
    BY <1>2, <2>2, <2>4 DEF Check, SucceededWasTransferred
<1>3. CASE Cancel(w)
  <2>1. worker[w].id \in TxId
    BY <1>3 DEF Cancel, HoldersOK
  <2>2. tx' \in Table
    BY <1>3, MarkStateType DEF Cancel, TxState
  <2>3. HoldersOK'
    BY <1>3 DEF Cancel, HoldersOK, Resting, Handler
  <2>4. SucceededWasTransferred'
    BY <1>3, <2>1, MarkKeepsPaid DEF Cancel, SucceededWasTransferred, TxState
  <2>5. QED
    BY <1>3, <1>0a, <2>2, <2>3, <2>4 DEF Cancel
<1>4. CASE Transfer(w)
  <2>1. worker[w].id \in TxId
    BY <1>4 DEF Transfer, HoldersOK
  <2>2. worker' \in [Worker -> WorkerState]
    BY <1>4, <1>0 DEF Transfer, WorkerState
  <2>3. transfers' \in [TxId -> Nat]
    BY <1>4, <2>1 DEF Transfer
  <2>4. \A id \in TxId : transfers'[id] >= transfers[id]
    BY <1>4, <2>1 DEF Transfer
  <2>5. transfers'[worker[w].id] > 0
    BY <1>4, <2>1 DEF Transfer
  <2>6. HoldersOK'
    BY <1>4, <2>1, <2>2, <2>3, <2>4, <2>5 DEF Transfer, HoldersOK
  <2>7. SucceededWasTransferred'
    BY <1>4, <2>3, <2>4 DEF Transfer, SucceededWasTransferred
  <2>8. QED
    BY <1>4, <2>2, <2>3, <2>6, <2>7 DEF Transfer
<1>5. CASE Record(w)
  <2>1. worker[w].id \in TxId /\ transfers[worker[w].id] > 0
    BY <1>5 DEF Record, HoldersOK
  <2>2. tx' \in Table
    BY <1>5, MarkStateType DEF Record, TxState
  <2>3. worker' \in [Worker -> WorkerState]
    BY <1>5, <1>0 DEF Record, WorkerState
  <2>4. HoldersOK'
    BY <1>5, <2>1 DEF Record, HoldersOK
  <2>5. SucceededWasTransferred'
    BY <1>5, <2>1, MarkKeepsPaid DEF Record, SucceededWasTransferred, TxState
  <2>6. QED
    BY <1>5, <2>1, <2>2, <2>3, <2>4, <2>5 DEF Record
<1>6. CASE Finish(w)
  <2>1. HoldersOK'
    BY <1>6 DEF Finish, HoldersOK, Resting, Handler
  <2>2. QED
    BY <1>6, <1>0a, <2>1 DEF Finish, SucceededWasTransferred
<1>7. CASE Fail(w)
  <2>1. worker[w].id \in TxId
    BY <1>7 DEF Fail, HoldersOK
  <2>2. tx' \in Table
    BY <1>7, MarkStateType DEF Fail, TxState
  <2>3. HoldersOK'
    BY <1>7 DEF Fail, HoldersOK, Resting, Handler
  <2>4. SucceededWasTransferred'
    BY <1>7, <2>1, MarkKeepsPaid DEF Fail, SucceededWasTransferred, TxState
  <2>5. QED
    BY <1>7, <1>0a, <2>2, <2>3, <2>4 DEF Fail
<1>8. CASE Redeliver(w)
  <2>1. worker[w].id \in TxId
    BY <1>8 DEF Redeliver, HoldersOK
  <2>2. stalled' \in [TxId -> 0..MaxStalled]
    BY <1>8, <2>1, PayoutAssumption DEF Redeliver, MayStall
  <2>3. worker' \in [Worker -> WorkerState]
    BY <1>8, <1>0a DEF Redeliver
  <2>4. HoldersOK'
    BY <1>8 DEF Redeliver, HoldersOK, Resting, Handler
  <2>5. QED
    BY <1>8, <2>1, <2>2, <2>3, <2>4 DEF Redeliver, SucceededWasTransferred
<1>9. CASE GiveUp(w)
  <2>1. HoldersOK'
    BY <1>9 DEF GiveUp, HoldersOK, Resting, Handler
  <2>2. QED
    BY <1>9, <1>0a, <2>1 DEF GiveUp, SucceededWasTransferred
<1>10. QED
  BY <1>1, <1>2, <1>3, <1>4, <1>5, <1>6, <1>7, <1>8, <1>9 DEF HandlerStep

\* Stripe's account updates touch neither the table nor a job, and a
\* stuttering step changes nothing.
LEMMA NextKeepsIInv == IInv /\ [Next]_vars => IInv'
<1> SUFFICES ASSUME IInv, [Next]_vars PROVE IInv'
  OBVIOUS
<1>1. CASE \E c \in Caller : RequestStep(c)
  BY <1>1, RequestKeepsIInv
<1>2. CASE \E w \in Worker : HandlerStep(w) \/ Fail(w) \/ Redeliver(w) \/ GiveUp(w)
  BY <1>2, WorkerKeepsIInv
<1>3. CASE \E u \in User : UpdateAccount(u)
  BY <1>3 DEF IInv, TypeOK, HoldersOK, SucceededWasTransferred, UpdateAccount
<1>4. CASE UNCHANGED vars
  BY <1>4 DEF IInv, TypeOK, HoldersOK, SucceededWasTransferred, vars
<1>5. QED
  BY <1>1, <1>2, <1>3, <1>4 DEF Next

-----------------------------------------------------------------------------
(* The theorems.                                                           *)

\* Whatever requests, handlers, redeliveries and Stripe's account updates do,
\* the state keeps its shape; no job is handed out more often than Bull allows.
THEOREM TypeCorrect == Spec => []TypeOK
<1>1. IInv => TypeOK
  BY DEF IInv
<1>2. QED
  BY <1>1, InitIInv, NextKeepsIInv, PTL DEF Spec

\* No payout is recorded as succeeded (queue/payout.ts:195) that was not
\* transferred before, however many requests, workers and redeliveries.
THEOREM PaidWereTransferred == Spec => []SucceededWasTransferred
<1>1. IInv => SucceededWasTransferred
  BY DEF IInv
<1>2. QED
  BY <1>1, InitIInv, NextKeepsIInv, PTL DEF Spec

-----------------------------------------------------------------------------
(* Jobs are counted.  A request that will enqueue a payout, the job in the   *)
(* queue and each handler that has not transferred yet may still order one   *)
(* transfer; only a redelivery adds to them.                                 *)

Inserted(id) == \E c \in Caller : request[c].pc = "inserted" /\ request[c].id = id

Held(id) == {w \in Worker : worker[w].pc = "reading" /\ worker[w].id = id}

Count(b) == IF b THEN 1 ELSE 0

Orders(id) == transfers[id] + Cardinality(Held(id)) + Count(id \in queue) + Count(Inserted(id))

\* Nothing refers to a row that is not there, and no two requests to one.
UsedOK ==
  /\ \A id \in TxId : tx[id].state = "none" => ~Responsible(id) /\ transfers[id] = 0
  /\ \A c, d \in Caller :
       /\ request[c].pc = "inserted" /\ request[d].pc = "inserted"
       /\ request[c].id = request[d].id
       => c = d

OrdersOK == \A id \in TxId : IsFiniteSet(Held(id)) /\ Orders(id) <= 1 + stalled[id]

CountInv == UsedOK /\ OrdersOK

\* Who holds what when one handler has moved.
LEMMA HeldAfter ==
  ASSUME NEW w \in Worker, \A v \in Worker : v # w => worker'[v] = worker[v],
         NEW id \in TxId, IsFiniteSet(Held(id))
  PROVE  /\ IsFiniteSet(Held(id)') /\ Cardinality(Held(id)) \in Nat /\ Cardinality(Held(id)') \in Nat
         /\ Cardinality(Held(id)') <= Cardinality(Held(id)) + Count(w \in Held(id)')
         /\ Cardinality(Held(id)') <= Cardinality(Held(id)) \/ w \notin Held(id)
         /\ Cardinality(Held(id)') < Cardinality(Held(id)) \/ w \notin Held(id) \/ w \in Held(id)'
<1>1. Cardinality(Held(id)) \in Nat
  BY FS_CardinalityType
<1>2. CASE w \in Held(id)'
  <2>1. Held(id)' = Held(id) \cup {w}
    BY <1>2 DEF Held
  <2>2. QED
    BY <1>1, <1>2, <2>1, FS_AddElement DEF Count
<1>3. CASE w \notin Held(id)'
  <2>1. Held(id)' = Held(id) \ {w}
    BY <1>3 DEF Held
  <2>2. Cardinality(Held(id)') \in Nat /\ IsFiniteSet(Held(id)')
    BY <2>1, FS_RemoveElement, FS_CardinalityType
  <2>3. QED
    BY <1>1, <1>3, <2>1, <2>2, FS_RemoveElement DEF Count
<1>4. QED
  BY <1>2, <1>3

LEMMA InitCount == Init => CountInv
<1> SUFFICES ASSUME Init PROVE CountInv
  OBVIOUS
<1>1. \A c \in Caller : request[c].pc = "idle"
  BY DEF Init, Idle
<1>2. \A w \in Worker : worker[w].pc = "resting"
  BY DEF Init, Resting, Handler
<1>3. \A id \in TxId : transfers[id] = 0 \/ (transfers[id] = 1 /\ tx[id].state # "none")
  BY DEF Init, Paid
<1>4. \A id \in TxId : Held(id) = {} /\ ~Inserted(id) /\ id \notin queue /\ stalled[id] = 0
  BY <1>1, <1>2 DEF Init, Held, Inserted
<1>5. UsedOK
  BY <1>1, <1>2, <1>3 DEF UsedOK, Responsible, Init
<1>6. ASSUME NEW id \in TxId PROVE IsFiniteSet(Held(id)) /\ Orders(id) <= 1 + stalled[id]
  <2>1. Orders(id) = transfers[id]
    BY <1>3, <1>4, FS_EmptySet DEF Orders, Count
  <2>2. Orders(id) <= 1 + stalled[id]
    BY <1>3, <1>4, <2>1
  <2>3. IsFiniteSet(Held(id))
    BY <1>4, FS_EmptySet
  <2>4. QED
    BY <2>2, <2>3
<1>7. QED
  BY <1>5, <1>6 DEF CountInv, OrdersOK

\* Steps that insert no row and take on nothing that nobody had.
LEMMA KeepUsed ==
  ASSUME IInv, UsedOK,
         \A id \in TxId : tx'[id].state = "none" => tx[id].state = "none",
         \A id \in TxId : Responsible(id)' => Responsible(id),
         \A id \in TxId : transfers'[id] = transfers[id] \/ Responsible(id),
         \A c \in Caller : request'[c].pc = "inserted" => request'[c] = request[c]
  PROVE  UsedOK'
BY DEF UsedOK

LEMMA MarkUsed ==
  ASSUME NEW tbl \in Table, NEW id \in TxId, NEW s \in TxState \ {"none"}, NEW other \in TxId,
         MarkState(tbl, id, s)[other].state = "none"
  PROVE  tbl[other].state = "none"
BY DEF MarkState, Table, Tx

LEMMA NextUsed ==
  ASSUME IInv, UsedOK, [Next]_vars
  PROVE  UsedOK'
<1> USE DEF IInv, TypeOK
<1>1. ASSUME NEW c \in Caller, Ask(c) \/ ReadBalance(c) \/ ReadPending(c) \/ Drop(c)
      PROVE  UsedOK'
  <2>1. /\ UNCHANGED <<tx, queue, worker, transfers>>
        /\ \A d \in Caller : d # c => request'[d] = request[d]
    BY <1>1 DEF Ask, ReadBalance, ReadPending, Drop
  <2>2. request'[c].pc # "inserted"
    <3>1. CASE Ask(c)
      BY <3>1 DEF Ask, Idle
    <3>2. CASE ReadBalance(c) \/ ReadPending(c)
      BY <3>2 DEF ReadBalance, ReadPending, Request
    <3>3. CASE Drop(c)
      BY <3>3 DEF Drop, Idle
    <3>4. QED
      BY <1>1, <3>1, <3>2, <3>3
  <2>3. \A d \in Caller : request'[d].pc = "inserted" => request'[d] = request[d]
    BY <2>1, <2>2
  <2>4. \A id \in TxId : Responsible(id)' => Responsible(id)
    BY <2>1, <2>3 DEF Responsible
  <2>5. QED
    BY <2>1, <2>3, <2>4, KeepUsed
<1>2. ASSUME NEW c \in Caller, Reserve(c)
      PROVE  UsedOK'
  <2>1. PICK id \in TxId :
          /\ tx[id].state = "none"
          /\ tx' = Insert(tx, id, Row("payout", "pending", request[c].sender,
                                      NoUser, request[c].amount, 0))
          /\ request' = [request EXCEPT ![c].pc = "inserted", ![c].id = id]
    BY <1>2 DEF Reserve
  <2>2. /\ UNCHANGED <<queue, worker, transfers>>
        /\ \A d \in Caller : d # c => request'[d] = request[d]
        /\ request'[c].id = id /\ request'[c].pc = "inserted" /\ request[c].pc = "reading"
    BY <1>2, <2>1 DEF Reserve, Request
  <2>3. /\ tx'[id].state = "pending"
        /\ \A other \in TxId : other # id => tx'[other] = tx[other]
    BY <2>1 DEF Insert, Row, Table
  <2>4. \A d \in Caller : ~(request[d].pc = "inserted" /\ request[d].id = id)
    BY <2>1 DEF UsedOK, Responsible
  <2>5. \A other \in TxId : other # id /\ Responsible(other)' => Responsible(other)
    BY <2>2 DEF Responsible
  <2>6. QED
    BY <2>2, <2>3, <2>4, <2>5 DEF UsedOK
<1>3. ASSUME NEW c \in Caller, Enqueue(c)
      PROVE  UsedOK'
  <2>1. /\ UNCHANGED <<tx, worker, transfers>> /\ queue' = queue \cup {request[c].id}
        /\ \A d \in Caller : d # c => request'[d] = request[d]
        /\ request[c].pc = "inserted" /\ request'[c].pc = "idle"
    BY <1>3 DEF Enqueue, Idle
  <2>2. \A id \in TxId : Responsible(id)' => Responsible(id)
    BY <2>1 DEF Responsible
  <2>3. QED
    BY <2>1, <2>2, KeepUsed
<1>4. ASSUME NEW w \in Worker, TakeJob(w)
      PROVE  UsedOK'
  <2>1. PICK id \in queue : worker' = [worker EXCEPT ![w] = Handler("reading", id)]
    BY <1>4 DEF TakeJob
  <2>2. /\ UNCHANGED <<tx, request, transfers>> /\ queue' \subseteq queue
        /\ worker'[w].id = id /\ id \in queue
        /\ \A v \in Worker : v # w => worker'[v] = worker[v]
    BY <1>4, <2>1 DEF TakeJob, Taken, Handler
  <2>3. \A i \in TxId : Responsible(i)' => Responsible(i)
    BY <2>2 DEF Responsible
  <2>4. QED
    BY <2>2, <2>3, KeepUsed
<1>5. ASSUME NEW w \in Worker,
             \/ Check(w) \/ Cancel(w) \/ Transfer(w) \/ Record(w) \/ Finish(w)
             \/ Fail(w) \/ Redeliver(w) \/ GiveUp(w)
      PROVE  UsedOK'
  <2>1. worker[w].pc # "resting" /\ worker[w].id \in TxId
    BY <1>5 DEF Check, Cancel, Transfer, Record, Finish, Fail, Redeliver, GiveUp, HoldersOK
  <2>2. /\ UNCHANGED request
        /\ queue' \in {queue, queue \cup {worker[w].id}}
        /\ \A i \in TxId : i # worker[w].id => transfers'[i] = transfers[i]
    BY <1>5 DEF Check, Cancel, Transfer, Record, Finish, Fail, Redeliver, GiveUp
  <2>3. /\ \A v \in Worker : v # w => worker'[v] = worker[v]
        /\ worker'[w].pc # "resting" => worker'[w].id = worker[w].id
    BY <1>5 DEF Check, Cancel, Transfer, Record, Finish, Fail, Redeliver, GiveUp,
                Resting, Handler, WorkerState
  <2>4. tx' = tx \/ \E s \in TxState \ {"none"} : tx' = MarkState(tx, worker[w].id, s)
    BY <1>5 DEF Check, Cancel, Transfer, Record, Finish, Fail, Redeliver, GiveUp, TxState
  <2>5. \A i \in TxId : tx'[i].state = "none" => tx[i].state = "none"
    BY <2>1, <2>4, MarkUsed
  <2>6. \A i \in TxId : Responsible(i)' => Responsible(i)
    BY <2>1, <2>2, <2>3 DEF Responsible
  <2>7. \A i \in TxId : transfers'[i] = transfers[i] \/ Responsible(i)
    BY <2>1, <2>2 DEF Responsible
  <2>8. QED
    BY <2>2, <2>5, <2>6, <2>7, KeepUsed
<1>6. CASE UNCHANGED vars \/ \E u \in User : UpdateAccount(u)
  <2>1. UNCHANGED <<tx, request, queue, worker, transfers>>
    BY <1>6 DEF UpdateAccount, vars
  <2>2. QED
    BY <2>1 DEF UsedOK, Responsible
<1>7. QED
  BY <1>1, <1>2, <1>3, <1>4, <1>5, <1>6 DEF Next, RequestStep, HandlerStep

\* What one step adds to the transfers, handlers, job and request of a payout it
\* takes from another of them, unless the job was handed out again.
LEMMA NextOrders ==
  ASSUME IInv, UsedOK, OrdersOK, [Next]_vars, IInv'
  PROVE  OrdersOK'
<1> USE DEF IInv, TypeOK
<1>0. \A id \in TxId :
        /\ transfers[id] \in Nat /\ transfers'[id] \in Nat
        /\ stalled[id] \in Nat /\ stalled'[id] \in Nat
        /\ Cardinality(Held(id)) \in Nat /\ IsFiniteSet(Held(id))
  BY FS_CardinalityType, PayoutAssumption DEF OrdersOK
<1>1. ASSUME UNCHANGED <<worker, transfers, stalled>>,
             \A id \in TxId : Count(id \in queue)' + Count(Inserted(id))'
                                <= Count(id \in queue) + Count(Inserted(id))
      PROVE  OrdersOK'
  <2>1. \A id \in TxId : Held(id)' = Held(id)
    BY <1>1 DEF Held
  <2>2. QED
    BY <1>0, <1>1, <2>1 DEF OrdersOK, Orders, Count
<1>2. ASSUME NEW c \in Caller, Ask(c) \/ ReadBalance(c) \/ ReadPending(c) \/ Drop(c)
      PROVE  OrdersOK'
  <2>1. UNCHANGED <<worker, transfers, stalled, queue>>
    BY <1>2 DEF Ask, ReadBalance, ReadPending, Drop
  <2>2. request'[c].pc # "inserted"
    <3>1. CASE Ask(c)
      BY <3>1 DEF Ask, Idle
    <3>2. CASE ReadBalance(c) \/ ReadPending(c)
      BY <3>2 DEF ReadBalance, ReadPending, Request
    <3>3. CASE Drop(c)
      BY <3>3 DEF Drop, Idle
    <3>4. QED
      BY <1>2, <3>1, <3>2, <3>3
  <2>3. \A d \in Caller : d # c => request'[d] = request[d]
    BY <1>2 DEF Ask, ReadBalance, ReadPending, Drop
  <2>4. \A id \in TxId : Inserted(id)' => Inserted(id)
    BY <2>2, <2>3 DEF Inserted
  <2>5. QED
    BY <1>1, <2>1, <2>4 DEF Count
<1>3. ASSUME NEW c \in Caller, Reserve(c)
      PROVE  OrdersOK'
  <2>1. PICK id \in TxId :
          /\ tx[id].state = "none"
          /\ request' = [request EXCEPT ![c].pc = "inserted", ![c].id = id]
    BY <1>3 DEF Reserve
  <2>2. /\ UNCHANGED <<worker, transfers, stalled, queue>>
        /\ \A d \in Caller : d # c => request'[d] = request[d]
        /\ request'[c].id = id /\ request[c].pc = "reading"
    BY <1>3, <2>1 DEF Reserve, Request
  <2>3. \A other \in TxId : other # id => (Inserted(other)' => Inserted(other))
    BY <2>2 DEF Inserted
  <2>4. \A other \in TxId : Held(other)' = Held(other)
    BY <2>2 DEF Held
  <2>5. id \notin queue /\ transfers[id] = 0 /\ Held(id) = {}
    BY <2>1 DEF UsedOK, Responsible, Held
  <2>6. Cardinality(Held(id)') = 0
    BY <2>4, <2>5, FS_EmptySet
  <2>7. Orders(id)' <= 1 + stalled'[id]
    BY <1>0, <2>2, <2>5, <2>6 DEF Orders, Count
  <2>8. \A other \in TxId : other # id => Orders(other)' <= Orders(other)
    BY <1>0, <2>2, <2>3, <2>4 DEF Orders, Count
  <2>9. \A other \in TxId : other # id => Orders(other)' <= 1 + stalled'[other]
    BY <1>0, <2>2, <2>4, <2>8 DEF OrdersOK, Orders, Count
  <2>10. QED
    BY <1>0, <2>4, <2>7, <2>9 DEF OrdersOK
<1>4. ASSUME NEW c \in Caller, Enqueue(c)
      PROVE  OrdersOK'
  <2>1. /\ UNCHANGED <<worker, transfers, stalled>> /\ queue' = queue \cup {request[c].id}
        /\ \A d \in Caller : d # c => request'[d] = request[d]
        /\ request[c].pc = "inserted" /\ request'[c].pc = "idle"
    BY <1>4 DEF Enqueue, Idle
  <2>2. \A id \in TxId : id = request[c].id => Inserted(id) /\ ~Inserted(id)'
    BY <2>1 DEF Inserted, UsedOK
  <2>3. \A id \in TxId : Inserted(id)' => Inserted(id)
    BY <2>1 DEF Inserted
  <2>4. QED
    BY <1>1, <2>1, <2>2, <2>3 DEF Count
<1>5. ASSUME NEW w \in Worker, TakeJob(w)
      PROVE  OrdersOK'
  <2>1. PICK id \in queue : /\ worker' = [worker EXCEPT ![w] = Handler("reading", id)]
                            /\ queue' = queue \ {id}
    BY <1>5 DEF TakeJob, Taken
  <2>2. /\ UNCHANGED <<request, transfers, stalled>> /\ worker[w].pc = "resting"
        /\ worker'[w].id = id
        /\ \A v \in Worker : v # w => worker'[v] = worker[v]
    BY <1>5, <2>1 DEF TakeJob, Handler
  <2>3. \A i \in TxId : Inserted(i)' = Inserted(i)
    BY <2>2 DEF Inserted
  <2>4. \A i \in TxId : i # id => w \notin Held(i)'
    BY <2>2 DEF Held
  <2>5. ASSUME NEW i \in TxId
        PROVE  IsFiniteSet(Held(i)') /\ Orders(i) \in Nat /\ Orders(i)' \in Nat /\ Orders(i)' <= Orders(i)
    <3>1. /\ IsFiniteSet(Held(i)') /\ Cardinality(Held(i)') \in Nat
          /\ Cardinality(Held(i)') <= Cardinality(Held(i)) + Count(w \in Held(i)')
      BY <1>0, <2>2, HeldAfter
    <3>2. Cardinality(Held(i)') + Count(i \in queue)' <= Cardinality(Held(i)) + Count(i \in queue)
      BY <1>0, <2>1, <2>4, <3>1 DEF Count
    <3>3. QED
      BY <1>0, <2>2, <2>3, <3>1, <3>2 DEF Orders, Count
  <2>6. QED
    BY <1>0, <2>2, <2>5 DEF OrdersOK
<1>6. ASSUME NEW w \in Worker, Transfer(w)
      PROVE  OrdersOK'
  <2> DEFINE id == worker[w].id
  <2>1. /\ UNCHANGED <<request, queue, stalled>> /\ worker[w].pc = "reading" /\ id \in TxId
        /\ transfers' = [transfers EXCEPT ![id] = @ + 1]
        /\ worker' = [worker EXCEPT ![w].pc = "transferred"]
    BY <1>6 DEF Transfer, HoldersOK
  <2>2. /\ \A v \in Worker : v # w => worker'[v] = worker[v]
        /\ worker'[w].pc = "transferred"
        /\ \A i \in TxId : i # id => transfers'[i] = transfers[i]
        /\ transfers'[id] = transfers[id] + 1
    BY <2>1 DEF WorkerState
  <2>3. \A i \in TxId : Inserted(i)' = Inserted(i)
    BY <2>1 DEF Inserted
  <2>4. w \in Held(id) /\ \A i \in TxId : w \notin Held(i)'
    BY <2>1, <2>2 DEF Held
  <2> HIDE DEF id
  <2>5. ASSUME NEW i \in TxId
        PROVE  IsFiniteSet(Held(i)') /\ Orders(i) \in Nat /\ Orders(i)' \in Nat /\ Orders(i)' <= Orders(i)
    <3>1. /\ IsFiniteSet(Held(i)') /\ Cardinality(Held(i)') \in Nat
          /\ Cardinality(Held(i)') <= Cardinality(Held(i)) + Count(w \in Held(i)')
          /\ Cardinality(Held(i)') < Cardinality(Held(i)) \/ w \notin Held(i) \/ w \in Held(i)'
      BY <1>0, <2>2, HeldAfter
    <3>2. Cardinality(Held(i)') + transfers'[i] <= Cardinality(Held(i)) + transfers[i]
      BY <1>0, <2>2, <2>4, <3>1 DEF Count
    <3>3. QED
      BY <1>0, <2>1, <2>3, <3>1, <3>2 DEF Orders, Count
  <2>6. QED
    BY <1>0, <2>1, <2>5 DEF OrdersOK
<1>7. ASSUME NEW w \in Worker, Redeliver(w)
      PROVE  OrdersOK'
  <2> DEFINE id == worker[w].id
  <2>1. /\ UNCHANGED <<request, transfers>> /\ id \in TxId
        /\ stalled' = [stalled EXCEPT ![id] = @ + 1]
        /\ queue' = queue \cup {id}
        /\ worker' \in {worker, [worker EXCEPT ![w] = Resting]}
    BY <1>7 DEF Redeliver, HoldersOK
  <2>2. /\ \A v \in Worker : v # w => worker'[v] = worker[v]
        /\ worker'[w] = worker[w] \/ worker'[w].pc = "resting"
        /\ \A i \in TxId : i # id => stalled'[i] = stalled[i]
        /\ stalled'[id] = stalled[id] + 1
    BY <2>1 DEF Resting, Handler
  <2>3. \A i \in TxId : Inserted(i)' = Inserted(i)
    BY <2>1 DEF Inserted
  <2>4. \A i \in TxId : w \in Held(i)' => w \in Held(i)
    BY <2>2 DEF Held
  <2> HIDE DEF id
  <2>5. ASSUME NEW i \in TxId
        PROVE  IsFiniteSet(Held(i)') /\ Orders(i)' <= 1 + stalled'[i]
    <3>1. /\ IsFiniteSet(Held(i)') /\ Cardinality(Held(i)') \in Nat
          /\ Cardinality(Held(i)') <= Cardinality(Held(i)) + Count(w \in Held(i)')
          /\ Cardinality(Held(i)') <= Cardinality(Held(i)) \/ w \notin Held(i)
      BY <1>0, <2>2, HeldAfter
    <3>2. Cardinality(Held(i)') <= Cardinality(Held(i))
      BY <1>0, <2>4, <3>1 DEF Count
    <3>3. Orders(i) <= 1 + stalled[i]
      BY DEF OrdersOK
    <3>4. CASE i = id
      BY <1>0, <2>1, <2>2, <2>3, <3>1, <3>2, <3>3, <3>4 DEF Orders, Count
    <3>5. CASE i # id
      BY <1>0, <2>1, <2>2, <2>3, <3>1, <3>2, <3>3, <3>5 DEF Orders, Count
    <3>6. QED
      BY <3>1, <3>4, <3>5
  <2>6. QED
    BY <2>5 DEF OrdersOK
<1>8. ASSUME NEW w \in Worker,
             Check(w) \/ Cancel(w) \/ Record(w) \/ Finish(w) \/ Fail(w) \/ GiveUp(w)
      PROVE  OrdersOK'
  <2>1. /\ UNCHANGED <<request, queue, transfers, stalled>>
        /\ \A v \in Worker : v # w => worker'[v] = worker[v]
    BY <1>8 DEF Check, Cancel, Record, Finish, Fail, GiveUp
  <2>2. worker'[w].pc = "reading" => worker[w].pc = "reading" /\ worker'[w].id = worker[w].id
    BY <1>8 DEF Check, Cancel, Record, Finish, Fail, GiveUp, Resting, Handler, WorkerState
  <2>3. \A i \in TxId : w \in Held(i)' => w \in Held(i)
    BY <2>2 DEF Held
  <2>4. \A i \in TxId : Inserted(i)' = Inserted(i)
    BY <2>1 DEF Inserted
  <2>5. ASSUME NEW i \in TxId
        PROVE  IsFiniteSet(Held(i)') /\ Orders(i)' <= 1 + stalled'[i]
    <3>1. /\ IsFiniteSet(Held(i)') /\ Cardinality(Held(i)') \in Nat
          /\ Cardinality(Held(i)') <= Cardinality(Held(i)) + Count(w \in Held(i)')
          /\ Cardinality(Held(i)') <= Cardinality(Held(i)) \/ w \notin Held(i)
      BY <1>0, <2>1, HeldAfter
    <3>2. Cardinality(Held(i)') <= Cardinality(Held(i))
      BY <1>0, <2>3, <3>1 DEF Count
    <3>3. Orders(i) <= 1 + stalled[i]
      BY DEF OrdersOK
    <3>4. QED
      BY <1>0, <2>1, <2>4, <3>1, <3>2, <3>3 DEF Orders, Count
  <2>6. QED
    BY <2>5 DEF OrdersOK
<1>9. CASE UNCHANGED vars \/ \E u \in User : UpdateAccount(u)
  <2>1. UNCHANGED <<worker, transfers, stalled, queue, request>>
    BY <1>9 DEF UpdateAccount, vars
  <2>2. \A id \in TxId : Inserted(id)' = Inserted(id)
    BY <2>1 DEF Inserted
  <2>3. QED
    BY <1>1, <2>1, <2>2 DEF Count
<1>10. QED
  BY <1>2, <1>3, <1>4, <1>5, <1>6, <1>7, <1>8, <1>9 DEF Next, RequestStep, HandlerStep

-----------------------------------------------------------------------------
(* One payout at a time.  A payout is cleared once a handler has found no    *)
(* other pending one, and from then on while it is transferred; two pending  *)
(* payouts of a member are never both cleared.                               *)

PendingOf(u) == {id \in TxId : /\ tx[id].purpose = "payout"
                               /\ tx[id].sender = u
                               /\ tx[id].state = "pending"}

Cleared(id) ==
  \/ transfers[id] > 0
  \/ \E w \in Worker : /\ worker[w].pc = "reading" /\ worker[w].id = id
                       /\ worker[w].pending = "ok"

TableFinite == IsFiniteSet({id \in TxId : tx[id].state # "none"})

OneCleared ==
  \A u \in User \cup {NoUser} : \A a, b \in PendingOf(u) : a # b => ~Cleared(a) \/ ~Cleared(b)

FlightInv == TableFinite /\ OneCleared

LEMMA InitFlight == Init => FlightInv
<1> SUFFICES ASSUME Init PROVE FlightInv
  OBVIOUS
<1>1. TableFinite
  BY PayoutAssumption DEF Init, TableFinite
<1>2. \A id \in TxId : Cleared(id) => tx[id].state = "succeeded"
  BY DEF Init, Cleared, Paid, Resting, Handler
<1>3. OneCleared
  BY <1>2 DEF OneCleared, PendingOf
<1>4. QED
  BY <1>1, <1>3 DEF FlightInv

\* Marking a row adds none.
LEMMA MarkRow ==
  ASSUME NEW tbl \in Table, NEW id \in TxId, NEW s \in TxState, NEW other \in TxId
  PROVE  /\ other # id => MarkState(tbl, id, s)[other] = tbl[other]
         /\ MarkState(tbl, id, s)[id].state = s
         /\ MarkState(tbl, id, s)[other].purpose = tbl[other].purpose
         /\ MarkState(tbl, id, s)[other].sender = tbl[other].sender
BY DEF MarkState, Table, Tx

\* With a second pending payout there, none is cleared.
LEMMA ClearedIsAlone ==
  ASSUME IInv, TableFinite, NEW u, PendingPayouts(tx, u) <= 1,
         NEW a \in PendingOf(u), NEW b \in PendingOf(u)
  PROVE  a = b
<1> SUFFICES ASSUME a # b PROVE FALSE
  OBVIOUS
<1>1. IsFiniteSet(PendingOf(u))
  BY FS_Subset DEF TableFinite, PendingOf
<1>2. {a, b} \in SUBSET PendingOf(u)
  OBVIOUS
<1>3. IsFiniteSet({a}) /\ Cardinality({a}) = 1
  BY FS_Singleton
<1>4. Cardinality({a} \cup {b}) = 2
  BY <1>3, FS_AddElement
<1>5. {a, b} = {a} \cup {b}
  OBVIOUS
<1>6. Cardinality(PendingOf(u)) \in Nat /\ Cardinality({a, b}) <= Cardinality(PendingOf(u))
  BY <1>1, <1>2, FS_Subset, FS_CardinalityType
<1>7. PendingPayouts(tx, u) = Cardinality(PendingOf(u))
  BY DEF PendingPayouts, PendingOf
<1>8. QED
  BY <1>4, <1>5, <1>6, <1>7

LEMMA NextTableFinite ==
  ASSUME IInv, TableFinite, UsedOK, [Next]_vars
  PROVE  TableFinite'
<1> USE DEF IInv, TypeOK
<1> DEFINE used == {id \in TxId : tx[id].state # "none"}
<1>1. ASSUME NEW c \in Caller, Reserve(c)
      PROVE  TableFinite'
  <2>1. PICK id \in TxId : tx' = Insert(tx, id, Row("payout", "pending", request[c].sender,
                                                   NoUser, request[c].amount, 0))
    BY <1>1 DEF Reserve
  <2>2. used' \subseteq used \cup {id}
    BY <2>1 DEF Insert, Table
  <2>3. IsFiniteSet(used \cup {id})
    BY FS_AddElement DEF TableFinite
  <2>4. QED
    BY <2>2, <2>3, FS_Subset DEF TableFinite
<1>2. ASSUME NEW w \in Worker, Cancel(w) \/ Record(w) \/ Fail(w)
      PROVE  TableFinite'
  <2>1. worker[w].pc # "resting" /\ worker[w].id \in TxId
    BY <1>2 DEF Cancel, Record, Fail, HoldersOK
  <2>2. PICK s \in TxState : tx' = MarkState(tx, worker[w].id, s)
    BY <1>2 DEF Cancel, Record, Fail, TxState
  <2>3. tx[worker[w].id].state # "none"
    BY <2>1 DEF UsedOK, Responsible
  <2>4. used' \subseteq used
    BY <2>1, <2>2, <2>3, MarkRow
  <2>5. QED
    BY <2>4, FS_Subset DEF TableFinite
<1>3. CASE UNCHANGED tx
  BY <1>3 DEF TableFinite
<1>4. ASSUME NEW c \in Caller,
             Ask(c) \/ ReadBalance(c) \/ ReadPending(c) \/ Drop(c) \/ Enqueue(c)
      PROVE  UNCHANGED tx
  BY <1>4 DEF Ask, ReadBalance, ReadPending, Drop, Enqueue
<1>5. ASSUME NEW w \in Worker,
             TakeJob(w) \/ Check(w) \/ Transfer(w) \/ Finish(w) \/ Redeliver(w) \/ GiveUp(w)
      PROVE  UNCHANGED tx
  BY <1>5 DEF TakeJob, Check, Transfer, Finish, Redeliver, GiveUp
<1>6. CASE UNCHANGED vars \/ \E u \in User : UpdateAccount(u)
  BY <1>3, <1>6 DEF UpdateAccount, vars
<1>7. QED
  BY <1>1, <1>2, <1>3, <1>4, <1>5, <1>6 DEF Next, RequestStep, HandlerStep

LEMMA NextOneCleared ==
  ASSUME IInv, FlightInv, UsedOK, [Next]_vars
  PROVE  OneCleared'
<1> USE DEF IInv, TypeOK
<1>0. ASSUME \A u \in User \cup {NoUser} : PendingOf(u)' \subseteq PendingOf(u),
             \A id \in TxId : Cleared(id)' => Cleared(id)
      PROVE  OneCleared'
  BY <1>0 DEF OneCleared, FlightInv, PendingOf
<1>1. ASSUME NEW c \in Caller, Reserve(c)
      PROVE  OneCleared'
  <2>1. PICK id \in TxId :
          /\ tx[id].state = "none"
          /\ tx' = Insert(tx, id, Row("payout", "pending", request[c].sender,
                                      NoUser, request[c].amount, 0))
    BY <1>1 DEF Reserve
  <2>2. UNCHANGED <<worker, transfers>>
    BY <1>1 DEF Reserve
  <2>3. \A u \in User \cup {NoUser} : PendingOf(u)' \subseteq PendingOf(u) \cup {id}
    BY <2>1 DEF PendingOf, Insert, Table
  <2>4. ~Cleared(id)
    BY <2>1 DEF UsedOK, Responsible, Cleared
  <2>5. \A i \in TxId : Cleared(i)' = Cleared(i)
    BY <2>2 DEF Cleared
  <2>6. QED
    BY <2>3, <2>4, <2>5 DEF OneCleared, FlightInv, PendingOf
<1>2. ASSUME NEW w \in Worker, Check(w)
      PROVE  OneCleared'
  <2>1. /\ UNCHANGED <<tx, transfers>> /\ worker[w].id \in TxId
        /\ \A v \in Worker : v # w => worker'[v] = worker[v]
        /\ worker'[w].pc = worker[w].pc /\ worker'[w].id = worker[w].id
    BY <1>2 DEF Check, HoldersOK, WorkerState
  <2>2. /\ \A u : PendingOf(u)' = PendingOf(u)
        /\ \A id \in TxId : id # worker[w].id /\ Cleared(id)' => Cleared(id)
    BY <2>1 DEF PendingOf, Cleared
  <2>3. CASE worker'[w].pending = worker[w].pending \/ worker'[w].pending # "ok"
    <3>1. \A id \in TxId : Cleared(id)' => Cleared(id)
      BY <2>1, <2>3 DEF Cleared
    <3>2. QED
      BY <1>0, <2>2, <3>1
  <2>4. CASE worker'[w].pending # worker[w].pending /\ worker'[w].pending = "ok"
    <3> DEFINE s == tx[worker[w].id].sender
    <3>1. ~(PendingPayouts(tx, s) > 1)
      BY <1>2, <2>4 DEF Check, Judge, WorkerState
    <3>2. PendingPayouts(tx, s) = Cardinality(PendingOf(s)) /\ IsFiniteSet(PendingOf(s))
      BY FS_Subset DEF PendingPayouts, PendingOf, FlightInv, TableFinite
    <3>3. PendingPayouts(tx, s) <= 1
      BY <3>1, <3>2, FS_CardinalityType
    <3>4. \A a, b \in PendingOf(s) : a = b
      BY <3>3, ClearedIsAlone DEF FlightInv
    <3>5. ASSUME NEW u \in User \cup {NoUser}, NEW a \in PendingOf(u), NEW b \in PendingOf(u),
                 a # b, Cleared(a)', Cleared(b)'
          PROVE  FALSE
      <4>1. u # s
        BY <3>4, <3>5
      <4>2. a # worker[w].id /\ b # worker[w].id
        BY <4>1 DEF PendingOf
      <4>3. Cleared(a) /\ Cleared(b)
        BY <2>2, <3>5, <4>2 DEF PendingOf
      <4>4. QED
        BY <3>5, <4>3 DEF FlightInv, OneCleared
    <3>6. QED
      BY <2>2, <3>5 DEF OneCleared
  <2>5. QED
    BY <2>3, <2>4
<1>3. ASSUME NEW w \in Worker, Transfer(w)
      PROVE  OneCleared'
  <2>1. /\ UNCHANGED tx /\ worker[w].pc = "reading" /\ worker[w].id \in TxId
        /\ worker[w].pending = "ok"
        /\ transfers' = [transfers EXCEPT ![worker[w].id] = @ + 1]
        /\ worker' = [worker EXCEPT ![w].pc = "transferred"]
    BY <1>3 DEF Transfer, Verdicts, HoldersOK
  <2>2. \A i \in TxId : i # worker[w].id => transfers'[i] = transfers[i]
    BY <2>1
  <2>3. \A v \in Worker : worker'[v].pc = "reading" => worker'[v] = worker[v]
    BY <2>1 DEF WorkerState
  <2>4. \A i \in TxId : Cleared(i)' => Cleared(i)
    BY <2>1, <2>2, <2>3 DEF Cleared
  <2>5. QED
    BY <1>0, <2>1, <2>4 DEF PendingOf
<1>4. ASSUME NEW w \in Worker, \/ TakeJob(w) \/ Cancel(w) \/ Record(w) \/ Finish(w)
                               \/ Fail(w) \/ Redeliver(w) \/ GiveUp(w)
      PROVE  OneCleared'
  <2>1. UNCHANGED transfers
    BY <1>4 DEF TakeJob, Cancel, Record, Finish, Fail, Redeliver, GiveUp
  <2>2. \A v \in Worker : worker'[v].pc = "reading" /\ worker'[v].pending = "ok" =>
                            worker'[v] = worker[v]
    BY <1>4 DEF TakeJob, Cancel, Record, Finish, Fail, Redeliver, GiveUp, Resting, Handler,
                WorkerState
  <2>3. \A i \in TxId : Cleared(i)' => Cleared(i)
    BY <2>1, <2>2 DEF Cleared
  <2>4. \/ UNCHANGED tx
        \/ worker[w].id \in TxId /\ \E s \in TxState \ {"pending"} :
             tx' = MarkState(tx, worker[w].id, s)
    BY <1>4 DEF TakeJob, Cancel, Record, Finish, Fail, Redeliver, GiveUp, TxState, HoldersOK
  <2>5. \A u \in User \cup {NoUser} : PendingOf(u)' \subseteq PendingOf(u)
    BY <2>4, MarkRow DEF PendingOf
  <2>6. QED
    BY <1>0, <2>3, <2>5
<1>5. ASSUME UNCHANGED <<tx, worker, transfers>>
      PROVE  OneCleared'
  BY <1>0, <1>5 DEF PendingOf, Cleared
<1>6. ASSUME NEW c \in Caller,
             Ask(c) \/ ReadBalance(c) \/ ReadPending(c) \/ Drop(c) \/ Enqueue(c)
      PROVE  UNCHANGED <<tx, worker, transfers>>
  BY <1>6 DEF Ask, ReadBalance, ReadPending, Drop, Enqueue
<1>7. CASE UNCHANGED vars \/ \E u \in User : UpdateAccount(u)
  BY <1>5, <1>7 DEF UpdateAccount, vars
<1>8. QED
  BY <1>1, <1>2, <1>3, <1>4, <1>5, <1>6, <1>7 DEF Next, RequestStep, HandlerStep

-----------------------------------------------------------------------------
(* The theorems about all three.                                           *)

PayoutInv == IInv /\ CountInv /\ FlightInv

LEMMA AlwaysPayoutInv == Spec => []PayoutInv
<1>1. Init => PayoutInv
  BY InitIInv, InitCount, InitFlight DEF PayoutInv
<1>2. PayoutInv /\ [Next]_vars => PayoutInv'
  BY NextKeepsIInv, NextUsed, NextOrders, NextTableFinite, NextOneCleared
     DEF PayoutInv, CountInv, FlightInv
<1>3. QED
  BY <1>1, <1>2, PTL DEF Spec

\* However many handlers have a payout's job at once, the money leaves at most
\* once more than Bull handed the job out again (queue/payout.ts:127-187, which
\* sends no idempotency key).
THEOREM TransfersBounded == Spec => []TransfersBoundedByDeliveries
<1>1. ASSUME PayoutInv, NEW id \in TxId PROVE transfers[id] <= 1 + stalled[id]
  <2>1. IsFiniteSet(Held(id)) /\ Orders(id) <= 1 + stalled[id]
    BY <1>1 DEF PayoutInv, CountInv, OrdersOK
  <2>2. Cardinality(Held(id)) \in Nat
    BY <2>1, FS_CardinalityType
  <2>3. transfers[id] \in Nat /\ stalled[id] \in Nat
    BY <1>1, PayoutAssumption DEF PayoutInv, IInv, TypeOK
  <2>4. QED
    BY <2>1, <2>2, <2>3 DEF Orders, Count
<1>2. PayoutInv => TransfersBoundedByDeliveries
  BY <1>1 DEF TransfersBoundedByDeliveries
<1>3. QED
  BY <1>2, AlwaysPayoutInv, PTL

\* Requests race past each other's checks, but the handlers' check
\* (queue/payout.ts:123-139) lets only one of a member's pending payouts through.
THEOREM OneInFlight == Spec => []OnePayoutInFlight
<1>1. ASSUME PayoutInv, NEW a \in TxId, NEW b \in TxId, a # b,
             tx[a].purpose = "payout", tx[b].purpose = "payout",
             tx[a].sender = tx[b].sender,
             tx[a].state = "pending", tx[b].state = "pending"
      PROVE  transfers[a] = 0 \/ transfers[b] = 0
  <2>1. PICK u \in User \cup {NoUser} : a \in PendingOf(u) /\ b \in PendingOf(u)
    BY <1>1 DEF PayoutInv, IInv, TypeOK, Table, Tx, PendingOf
  <2>2. ~Cleared(a) \/ ~Cleared(b)
    BY <1>1, <2>1 DEF PayoutInv, FlightInv, OneCleared
  <2>3. transfers[a] \in Nat /\ transfers[b] \in Nat
    BY <1>1 DEF PayoutInv, IInv, TypeOK
  <2>4. QED
    BY <2>2, <2>3 DEF Cleared
<1>2. PayoutInv => OnePayoutInFlight
  BY <1>1 DEF OnePayoutInFlight
<1>3. QED
  BY <1>2, AlwaysPayoutInv, PTL
=============================================================================
