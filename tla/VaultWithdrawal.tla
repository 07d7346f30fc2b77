--------------------------- MODULE VaultWithdrawal ---------------------------
(* Withdrawing what donors left for a member in the curation vault
   (mutations/user/withdrawLockedTokens.ts, connectors/blockchain/curationVault.ts).

   The mutation looks for a pending withdrawal, asks the vault for the balance,
   inserts a row with that amount, has the vault pay everything it holds, waits
   for the transaction and settles the row.  The vault pays whatever is there
   when the operation is included; the mutation learns the hash of the
   transaction and asks for no more. *)
EXTENDS Naturals, FiniteSets

CONSTANTS
  Payee,        \* requests of the member at once
  MaxDonations, \* donations of 1 to the member's account in the vault
  MaxRows,      \* withdrawals there may ever be
  MaxFaults     \* overlaps, stops, errors and lapses of patience

VARIABLES
  vault,        \* balance of the member in the vault
  paid,         \* what the vault has paid out so far
  donations,    \* how much was donated
  operation,    \* per withdrawal: its operation, "none", "sent", "paid", "void"
  withdrawal,   \* transaction rows, in the order they were inserted
  payee,        \* per request: next step, amount read, its row
  mishaps,      \* how many faults so far
  mishap        \* which (history variable)

vaultVars == <<vault, paid, donations, operation, withdrawal, payee, mishaps, mishap>>

Row == 1..MaxRows
NoRow == [state |-> "none", amount |-> 0]
Idle == [step |-> "idle", amount |-> 0, row |-> 0]

Init ==
  /\ vault \in 0..MaxDonations
  /\ paid = 0 /\ donations = vault
  /\ operation = [w \in Row |-> "none"]
  /\ withdrawal = [w \in Row |-> NoRow]
  /\ payee = [p \in Payee |-> Idle]
  /\ mishaps = 0 /\ mishap = {}

Donate ==
  /\ donations < MaxDonations
  /\ donations' = donations + 1 /\ vault' = vault + 1
  /\ UNCHANGED <<paid, operation, withdrawal, payee, mishaps, mishap>>

Pending == {w \in Row : withdrawal[w].state = "pending"}

\* Requests that have looked for a pending withdrawal and inserted none yet.
Looking == {p \in Payee : payee[p].step \in {"amount", "insert"}}

MayAsk_Always == TRUE

\* With a withdrawal pending the answer is that one.
MayAsk == Pending = {}

AskWithdrawal(p) ==
  /\ payee[p] = Idle
  /\ MayAsk
  /\ Looking = {} \/ mishaps < MaxFaults
  /\ payee' = [payee EXCEPT ![p].step = "amount"]
  /\ mishaps' = mishaps + IF Looking = {} THEN 0 ELSE 1
  /\ mishap' = IF Looking = {} THEN mishap ELSE mishap \cup {"overlap"}
  /\ UNCHANGED <<vault, paid, donations, operation, withdrawal>>

\* Nothing to withdraw is refused.
ReadAmount(p) ==
  /\ payee[p].step = "amount"
  /\ payee' = [payee EXCEPT ![p] =
       IF vault = 0 THEN Idle ELSE [step |-> "insert", amount |-> vault, row |-> 0]]
  /\ UNCHANGED <<vault, paid, donations, operation, withdrawal, mishaps, mishap>>

InsertRow(p) ==
  /\ payee[p].step = "insert"
  /\ \E w \in Row :
       /\ withdrawal[w] = NoRow /\ \A v \in 1..(w - 1) : withdrawal[v] # NoRow
       /\ withdrawal' = [withdrawal EXCEPT ![w] =
            [state |-> "pending", amount |-> payee[p].amount]]
       /\ payee' = [payee EXCEPT ![p].step = "submit", ![p].row = w]
  /\ UNCHANGED <<vault, paid, donations, operation, mishaps, mishap>>

-----------------------------------------------------------------------------
(* The vault. *)

\* An empty account is found out when the operation is estimated.
Submit(p) ==
  /\ payee[p].step = "submit"
  /\ operation' = [operation EXCEPT ![payee[p].row] = IF vault = 0 THEN "void" ELSE "sent"]
  /\ payee' = [payee EXCEPT ![p].step = IF vault = 0 THEN "fail" ELSE "await"]
  /\ UNCHANGED <<vault, paid, donations, withdrawal, mishaps, mishap>>

\* Included, an operation pays all there is, or nothing when there is nothing.
Include(w) ==
  /\ operation[w] = "sent"
  /\ operation' = [operation EXCEPT ![w] = IF vault = 0 THEN "void" ELSE "paid"]
  /\ paid' = paid + vault /\ vault' = 0
  /\ UNCHANGED <<donations, withdrawal, payee, mishaps, mishap>>

\* Its signature expires after three minutes.
Expire(w) ==
  /\ operation[w] = "sent"
  /\ \A p \in Payee : payee[p].row # w
  /\ operation' = [operation EXCEPT ![w] = "void"]
  /\ UNCHANGED <<vault, paid, donations, withdrawal, payee, mishaps, mishap>>

AwaitTransaction_AtOnce(p) ==
  /\ payee[p].step = "await"
  /\ payee' = [payee EXCEPT ![p].step = "settle"]
  /\ UNCHANGED <<vault, paid, donations, operation, withdrawal, mishaps, mishap>>

AwaitTransaction(p) ==
  /\ payee[p].step = "await"
  /\ operation[payee[p].row] # "sent"
  /\ payee' = [payee EXCEPT ![p].step = "settle"]
  /\ UNCHANGED <<vault, paid, donations, operation, withdrawal, mishaps, mishap>>

-----------------------------------------------------------------------------
Fault(name) ==
  /\ mishaps < MaxFaults
  /\ mishaps' = mishaps + 1 /\ mishap' = mishap \cup {name}

\* The call throws or takes too long, or the transaction that settles the row
\* does not come to its commit.
Throw(p) ==
  /\ payee[p].step \in {"submit", "await", "settle"}
  /\ Fault(IF payee[p].step = "settle" THEN "error" ELSE "impatience")
  /\ payee' = [payee EXCEPT ![p].step = "fail"]
  /\ UNCHANGED <<vault, paid, donations, operation, withdrawal>>

SettleRow(p) ==
  /\ payee[p].step = "settle"
  /\ withdrawal' = [withdrawal EXCEPT ![payee[p].row].state = "succeeded"]
  /\ payee' = [payee EXCEPT ![p] = Idle]
  /\ UNCHANGED <<vault, paid, donations, operation, mishaps, mishap>>

FailRow(p) ==
  /\ payee[p].step = "fail"
  /\ withdrawal' = [withdrawal EXCEPT ![payee[p].row].state = "failed"]
  /\ payee' = [payee EXCEPT ![p] = Idle]
  /\ UNCHANGED <<vault, paid, donations, operation, mishaps, mishap>>

Stop(p) ==
  /\ payee[p] # Idle
  /\ Fault("stop")
  /\ payee' = [payee EXCEPT ![p] = Idle]
  /\ UNCHANGED <<vault, paid, donations, operation, withdrawal>>

\* cancelTimeoutTransactions comes half an hour later, when no request waits.
TimesOut(w) == w \in Pending /\ \A p \in Payee : payee[p].row # w

CancelTimeout(w) ==
  /\ TimesOut(w)
  /\ withdrawal' = [withdrawal EXCEPT ![w].state = "canceled"]
  /\ UNCHANGED <<vault, paid, donations, operation, payee, mishaps, mishap>>

Next ==
  \/ Donate
  \/ \E p \in Payee :
       \/ AskWithdrawal(p) \/ ReadAmount(p) \/ InsertRow(p) \/ Submit(p)
       \/ AwaitTransaction(p) \/ SettleRow(p) \/ FailRow(p) \/ Throw(p) \/ Stop(p)
  \/ \E w \in Row : Include(w) \/ Expire(w) \/ CancelTimeout(w)

Spec == Init /\ [][Next]_vaultVars

-----------------------------------------------------------------------------
Succeeded == {w \in Row : withdrawal[w].state = "succeeded"}

\* What rows claim, unit by unit.
UnitsOf(W) == UNION {{w} \X (1..withdrawal[w].amount) : w \in W}

(* What was donated is in the vault or was paid out, and rows keep their states. *)
TypeOK ==
  /\ vault + paid = donations
  /\ \A w \in Row : withdrawal[w].state \in {"none", "pending", "succeeded", "failed", "canceled"}

(* The rows that succeeded claim no more than the vault has paid, whatever is
   donated meanwhile, unless two requests both found no pending one: their
   operations pay once, and both rows succeed (withdrawLockedTokens.ts:58-92,
   101-131). *)
ClaimedWasPaid ==
  "overlap" \notin mishap => Cardinality(UnitsOf(Succeeded)) <= paid

(* When every request was answered without an error, a stop or a lapse of patience,
   a row says whether its operation has paid (withdrawLockedTokens.ts:99-169). *)
RowTellsPayment ==
  (mishap = {} /\ \A p \in Payee : payee[p] = Idle) =>
    \A w \in Row : withdrawal[w].state = "succeeded" <=> operation[w] = "paid"
=============================================================================
