------------------------------- MODULE LikePay -------------------------------
(* One donation in LIKE: the row inserted by payTo, the donor coming back from
   Like Pay (GET) and the webhook (POST), both of routes/pay/likecoin.ts, and the
   timeout of pending transactions.

   The row is known by a token first and by the hash of the payment afterwards,
   in one column that is unique.  Like Pay posts each status of the payment until
   it gets an answer without an error. *)
EXTENDS Naturals, FiniteSets

CONSTANTS
  Visit,     \* requests of the donor and of Like Pay at once
  MaxFaults  \* repeated requests, errors and stops

VARIABLES
  likePay,   \* the payment at Like Pay
  wholeSum,  \* whether the amount is a whole number of LIKE
  record,    \* the row of payTo, and one the webhook may create: key and state
  posted,    \* statuses Like Pay posts
  answered,  \* statuses it got an answer for
  visit,     \* per request: who, status, next step, row found
  told,      \* whether donor and recipient were told
  lapses     \* faults, and what happened that the properties except

likePayVars == <<likePay, wholeSum, record, posted, answered, visit, told, lapses>>

Row == {"paid", "made"}
Final == {"success", "failed"}
Idle == [who |-> "none", status |-> "none", step |-> "idle", row |-> "none"]
NoRow == [key |-> "none", state |-> "none"]

Init ==
  /\ likePay = "none"
  /\ wholeSum \in BOOLEAN
  /\ record = [r \in Row |-> IF r = "paid" THEN [key |-> "token", state |-> "pending"] ELSE NoRow]
  /\ posted = {} /\ answered = {}
  /\ visit = [v \in Visit |-> Idle]
  /\ told = FALSE
  /\ lapses = [faults |-> 0, late |-> FALSE, timer |-> FALSE, back |-> FALSE]

\* The payment is pending first, as a rule, and then succeeds or fails.
Pay(status) ==
  /\ \/ likePay = "none" /\ status \in Final \cup {"pending"}
     \/ likePay = "pending" /\ status \in Final
  /\ likePay' = status
  /\ posted' = posted \cup {status}
  /\ UNCHANGED <<wholeSum, record, answered, visit, told, lapses>>

\* A request comes in; to repeat one that was answered is a fault.
Arrive(v, who, status) ==
  LET again == status \in answered /\ who = "webhook" IN
  /\ visit[v] = Idle
  /\ IF who = "webhook" THEN status \in posted ELSE likePay = status /\ status \in Final
  /\ (again \/ lapses.back) => lapses.faults < MaxFaults
  /\ visit' = [visit EXCEPT ![v] = [who |-> who, status |-> status, row |-> "none",
       step |-> IF who = "webhook" THEN "hash" ELSE "token"]]
  /\ lapses' = [lapses EXCEPT !.faults = @ + IF again \/ (who = "donor" /\ lapses.back) THEN 1 ELSE 0,
                              !.back = @ \/ who = "donor"]
  /\ UNCHANGED <<likePay, wholeSum, record, posted, answered, told>>

KeyedBy(key) == {r \in Row : record[r].key = key}

FindByHash(v) ==
  /\ visit[v].step = "hash"
  /\ visit' = [visit EXCEPT ![v] =
       IF KeyedBy("hash") = {} THEN [@ EXCEPT !.step = "token"]
       ELSE [@ EXCEPT !.step = "update", !.row = CHOOSE r \in KeyedBy("hash") : TRUE]]
  /\ UNCHANGED <<likePay, wholeSum, record, posted, answered, told, lapses>>

\* The donor is sent to the page for failures, the webhook goes on to create.
FindByToken(v) ==
  /\ visit[v].step = "token"
  /\ visit' = [visit EXCEPT ![v] =
       IF KeyedBy("token") # {} THEN [@ EXCEPT !.step = "update", !.row = "paid"]
       ELSE IF @.who = "donor" THEN Idle ELSE [@ EXCEPT !.step = "create"]]
  /\ UNCHANGED <<likePay, wholeSum, record, posted, answered, told, lapses>>

NewState_Verbatim(status) == status

\* The statuses of Like Pay as states of a transaction.
NewState(status) ==
  CASE status = "success" -> "succeeded" [] status = "failed" -> "failed" [] OTHER -> "pending"

\* A whole sum, or the comparison of the rounded amount fails.
Accepts(v) == visit[v].who = "donor" \/ wholeSum

MayCreate_Always == TRUE

\* provider_tx_id is unique.
MayCreate == KeyedBy("hash") = {}

Rest_AnswersAtOnce(v) ==
  IF visit[v].who = "donor" \/ visit[v].status = "failed" THEN Idle
  ELSE [visit[v] EXCEPT !.step = "answer"]

\* Done with the row; who was told of a failure answers with an error.
Rest(v) ==
  IF visit[v].who = "donor" \/ visit[v].status = "failed" THEN Idle
  ELSE [visit[v] EXCEPT !.step = IF visit[v].status = "success" THEN "notify" ELSE "answer"]

\* The update looks at nothing but the amount.
UpdateRow(v) ==
  /\ visit[v].step = "update"
  /\ IF Accepts(v)
     THEN /\ record' = [record EXCEPT ![visit[v].row] =
               [key |-> "hash", state |-> NewState(visit[v].status)]]
          /\ visit' = [visit EXCEPT ![v] = Rest(v)]
          /\ lapses' = [lapses EXCEPT !.late = @ \/
               (visit[v].status = "pending" /\ record[visit[v].row].state \in {"succeeded", "failed"})]
     ELSE /\ visit' = [visit EXCEPT ![v] = Idle]
          /\ UNCHANGED <<record, lapses>>
  /\ UNCHANGED <<likePay, wholeSum, posted, answered, told>>

CreateRow(v) ==
  /\ visit[v].step = "create"
  /\ IF MayCreate
     THEN /\ record' = [record EXCEPT !["made"] =
               [key |-> "hash", state |-> NewState(visit[v].status)]]
          /\ visit' = [visit EXCEPT ![v] = Rest(v)]
     ELSE /\ visit' = [visit EXCEPT ![v] = Idle]
          /\ UNCHANGED record
  /\ UNCHANGED <<likePay, wholeSum, posted, answered, told, lapses>>

NotifyDonation(v) ==
  /\ visit[v].step = "notify"
  /\ told' = TRUE
  /\ visit' = [visit EXCEPT ![v].step = "answer"]
  /\ UNCHANGED <<likePay, wholeSum, record, posted, answered, lapses>>

Answer(v) ==
  /\ visit[v].step = "answer"
  /\ answered' = answered \cup {visit[v].status}
  /\ visit' = [visit EXCEPT ![v] = Idle]
  /\ UNCHANGED <<likePay, wholeSum, record, posted, told, lapses>>

\* A statement or the notice throws, or the server stops.
Break(v) ==
  /\ visit[v] # Idle
  /\ lapses.faults < MaxFaults
  /\ lapses' = [lapses EXCEPT !.faults = @ + 1]
  /\ visit' = [visit EXCEPT ![v] = Idle]
  /\ UNCHANGED <<likePay, wholeSum, record, posted, answered, told>>

\* cancelTimeoutTransactions
CancelTimeout(r) ==
  /\ record[r].state = "pending"
  /\ record' = [record EXCEPT ![r].state = "canceled"]
  /\ lapses' = [lapses EXCEPT !.timer = TRUE]
  /\ UNCHANGED <<likePay, wholeSum, posted, answered, visit, told>>

Next ==
  \/ \E status \in Final \cup {"pending"} :
       \/ Pay(status)
       \/ \E v \in Visit, who \in {"donor", "webhook"} : Arrive(v, who, status)
  \/ \E v \in Visit :
       FindByHash(v) \/ FindByToken(v) \/ UpdateRow(v) \/ CreateRow(v)
         \/ NotifyDonation(v) \/ Answer(v) \/ Break(v)
  \/ \E r \in Row : CancelTimeout(r)

Spec == Init /\ [][Next]_likePayVars

-----------------------------------------------------------------------------
(* States are those of a transaction, keys are one of the two. *)
TypeOK ==
  /\ \A r \in Row : /\ record[r].key \in {"none", "token", "hash"}
                    /\ record[r].state \in {"none", "pending", "succeeded", "failed", "canceled"}
  /\ answered \subseteq posted

(* The donation is recorded once, whichever of the donor and Like Pay comes first,
   both at once, again, or cut off (likecoin.ts:79-121, 179-258). *)
LikeRecordedOnce == record["made"] = NoRow /\ Cardinality(KeyedBy("hash")) <= 1

(* When Like Pay has an answer for the payment it made, the row succeeded and both
   sides were told, also after the timer had canceled it - unless an older status
   was posted after a newer one (likecoin.ts:193-275). *)
PaidIsSettled ==
  ("success" \in answered /\ ~lapses.late) => record["paid"].state = "succeeded" /\ told
=============================================================================
