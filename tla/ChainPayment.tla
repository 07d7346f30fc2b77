---------------------------- MODULE ChainPayment ----------------------------
(***************************************************************************)
(* Donations in USDT.  A donor drafts a row, pays on the chain by one of   *)
(* two contracts, and asks payTo to settle; an SQS message makes           *)
(* payToBlockchain judge the receipt.  Apart from that a scheduled sync    *)
(* walks over the logs of both contracts and settles what it finds.  Both  *)
(* write the tables transaction and blockchain_transaction; a chain row is *)
(* indexed here by its hash.  One donor, one recipient, one article.       *)
(***************************************************************************)
EXTENDS Integers, FiniteSets, TLC

CONSTANTS TxId, NoTx,       \* rows of transaction
          Hash, NoHash,     \* hashes of transactions on the chain
          PaysFor,          \* drafts a payment may name; NoTx: none
          Asked, Amount,    \* amounts asked for; amounts the wallet may send
          Caller,           \* payTo requests under way at once
          Worker,           \* Lambdas handling messages
          MaxHead,          \* bound: the last block of the model
          Confirms          \* BLOCKCHAIN_SAFE_CONFIRMS

ASSUME ChainAssumption ==
  /\ NoTx \notin TxId /\ NoHash \notin Hash
  /\ PaysFor \subseteq TxId \cup {NoTx} /\ Asked \subseteq Amount /\ Amount \subseteq Nat /\ MaxHead \in Nat /\ Confirms \in Nat

VARIABLES tx,         \* TxId -> state, amount, hash (provider_tx_id)
          chainTx,    \* Hash -> the row of blockchain_transaction
          event,      \* at the chain: Hash -> status, block, contract, amount
          head,       \* at the chain: the newest block
          wallet,     \* whether the recipient has linked an ETH address
          request,    \* Caller -> where a payTo stands
          queue,      \* messages SQS still holds
          worker,     \* Worker -> where a payToBlockchain stands
          savepoint,  \* Contract -> the block the sync has come to
          saved,      \* Hash of the events in blockchain_curation_event
          sync,       \* where the sync stands
          crashed     \* not in the code: a sync stopped before its savepoint

vars == <<tx, chainTx, event, head, wallet, request, queue, worker, savepoint,
          saved, sync, crashed>>

Contract == {"curation", "vault"}

TxState == {"none", "pending", "succeeded", "failed", "canceled"}

NoRow == [state |-> "none", amount |-> 0, hash |-> NoHash]

NoChainRow == [state |-> "none", of |-> NoTx]

NoEvent == [status |-> "none", block |-> 0, contract |-> "curation",
            amount |-> 0, for |-> NoTx]

NoRequest == [pc |-> "idle", tx |-> NoTx, hash |-> NoHash, amount |-> 0]

NoJob == [pc |-> "idle", tx |-> NoTx, hash |-> NoHash, amount |-> 0,
          contract |-> "curation", verdict |-> "none"]

NoSync == [pc |-> "idle", contract |-> "curation", upto |-> 0, logs |-> {},
           done |-> {}, hash |-> NoHash, row |-> NoChainRow, tx |-> NoTx]

TypeOK ==
  /\ tx \in [TxId -> [state : TxState, amount : Amount \cup {0},
                      hash : Hash \cup {NoHash}]]
  /\ chainTx \in [Hash -> [state : {"none", "pending", "succeeded", "reverted"},
                           of : TxId \cup {NoTx}]]
  /\ event \in [Hash -> [status : {"none", "sent", "mined", "reverted"},
                         block : 0..MaxHead, contract : Contract,
                         amount : Amount \cup {0}, for : TxId \cup {NoTx}]]
  /\ head \in 0..MaxHead /\ wallet \in BOOLEAN /\ crashed \in BOOLEAN
  /\ request \in [Caller -> [pc : {"idle", "checked"},
                             tx : TxId \cup {NoTx}, hash : Hash \cup {NoHash},
                             amount : Amount \cup {0}]]
  /\ queue \in SUBSET TxId
  /\ worker \in [Worker -> [pc : {"idle", "judged"},
                            tx : TxId \cup {NoTx}, hash : Hash \cup {NoHash},
                            amount : Amount \cup {0}, contract : Contract,
                            verdict : TxState]]
  /\ savepoint \in [Contract -> 0..MaxHead]
  /\ saved \in SUBSET Hash
  /\ sync \in [pc : {"idle", "walk", "found", "event", "save", "advance"},
               contract : Contract, upto : 0..MaxHead, logs : SUBSET Hash,
               done : SUBSET Hash, hash : Hash \cup {NoHash},
               row : [state : {"none", "pending", "succeeded", "reverted"},
                      of : TxId \cup {NoTx}],
               tx : TxId \cup {NoTx}]

Init ==
  /\ tx = [t \in TxId |-> NoRow]
  /\ chainTx = [h \in Hash |-> NoChainRow]
  /\ event = [h \in Hash |-> NoEvent]
  /\ head = 0 /\ wallet = FALSE /\ crashed = FALSE
  /\ request = [c \in Caller |-> NoRequest]
  /\ queue = {}
  /\ worker = [w \in Worker |-> NoJob]
  /\ savepoint = [c \in Contract |-> 0]
  /\ saved = {}
  /\ sync = NoSync

chainVars == <<event, head, wallet>>
progressVars == <<savepoint, saved, crashed>>
syncVars  == <<progressVars, sync>>

-----------------------------------------------------------------------------
(* The chain, the donor's client and the recipient (external).             *)

\* A row that began without a hash.
IsDraft(t) == /\ tx[t].state # "none"
              /\ tx[t].hash # NoHash => event[tx[t].hash].for = t

\* The client pays for a draft, or before there is a row.  It pays the vault
\* when the recipient has no address, and the wallet may send another amount;
\* paying again for the same draft is speeding a transaction up, or a mistake.
Pay(h, t, a) ==
  /\ event[h].status = "none"
  /\ t # NoTx => IsDraft(t)
  /\ event' = [event EXCEPT ![h] =
       [status |-> "sent", block |-> 0, amount |-> a, for |-> t,
        contract |-> IF wallet THEN "curation" ELSE "vault"]]
  /\ UNCHANGED <<tx, chainTx, head, wallet, request, queue, worker, syncVars>>

\* A block, with any of the payments under way.
Mine ==
  /\ head < MaxHead
  /\ head' = head + 1
  /\ \E mined, failed \in SUBSET {h \in Hash : event[h].status = "sent"} :
       /\ mined \cap failed = {}
       /\ event' = [h \in Hash |->
            IF h \in mined
            THEN [event[h] EXCEPT !.status = "mined", !.block = head']
            ELSE IF h \in failed THEN [event[h] EXCEPT !.status = "reverted"]
            ELSE event[h]]
  /\ UNCHANGED <<tx, chainTx, wallet, request, queue, worker, syncVars>>

LinkWallet ==
  /\ ~wallet /\ wallet' = TRUE
  /\ UNCHANGED <<tx, chainTx, event, head, request, queue, worker, syncVars>>

-----------------------------------------------------------------------------
(* payTo, the USDT branch.                                                 *)

\* Without a hash: a pending row whose provider_tx_id is still a random one.
Draft(t, a) ==
  /\ tx[t].state = "none"
  /\ tx' = [tx EXCEPT ![t] = [state |-> "pending", amount |-> a, hash |-> NoHash]]
  /\ UNCHANGED <<chainTx, request, queue, worker, chainVars, syncVars>>

\* With a hash, and the id of the draft it pays, which must be pending.
Settle(c, h, a) ==
  LET t == event[h].for IN
  /\ request[c].pc = "idle"
  /\ event[h].status # "none"
  /\ t # NoTx => tx[t].state = "pending" /\ tx[t].amount = a
  /\ request' = [request EXCEPT ![c] =
                   [pc |-> "checked", tx |-> t, hash |-> h, amount |-> a]]
  /\ UNCHANGED <<tx, chainTx, queue, worker, chainVars, syncVars>>

LinkedTo(h) == {t \in TxId : tx[t].hash = h}

FreeIds == {t \in TxId : tx[t].state = "none"}

\* The rows findOrCreateTransactionByBlockchainTxHash may come back with: the
\* given one, the one that has the hash, or a new one.
RowFor(t, h) == IF t # NoTx THEN {t}
                ELSE IF LinkedTo(h) # {} THEN LinkedTo(h) ELSE FreeIds

\* One database transaction; provider_tx_id is unique.  After it the message is
\* sent without waiting: the answer leaves whether it arrives or not.
Link(c) ==
  LET r == request[c] IN
  /\ r.pc = "checked"
  /\ \E t \in RowFor(r.tx, r.hash) :
       /\ LinkedTo(r.hash) \subseteq {t}
       /\ tx' = [tx EXCEPT ![t] =
            IF @.state = "none"
            THEN [state |-> "pending", amount |-> r.amount, hash |-> r.hash]
            ELSE [@ EXCEPT !.hash = r.hash]]
       /\ chainTx' = [chainTx EXCEPT ![r.hash] =
            [state |-> IF @.state = "none" THEN "pending" ELSE @.state, of |-> t]]
       /\ queue' \in {queue, queue \cup {t}}
  /\ request' = [request EXCEPT ![c] = NoRequest]
  /\ UNCHANGED <<worker, chainVars, syncVars>>

\* The request is cut off, or fails on the unique key.
Abort(c) ==
  /\ request[c].pc = "checked"
  /\ request' = [request EXCEPT ![c] = NoRequest]
  /\ UNCHANGED <<tx, chainTx, queue, worker, chainVars, syncVars>>

-----------------------------------------------------------------------------
(* payToBlockchain; a handler that throws leaves its message in the queue. *)

\* Mutant: the amount is not compared.
Verdict_AnyAmount(e, row, contract) ==
  IF e.status = "reverted" THEN "failed" ELSE "succeeded"

\* containMatchedEvent on the receipt: the event counts when it has the row's
\* amount and the contract is the one looked at.
Verdict(e, row, contract) ==
  IF e.status = "reverted" THEN "failed"
  ELSE IF e.contract = contract /\ e.amount = row.amount THEN "succeeded" ELSE "canceled"

\* The recipient's address, as it is now, decides which contract's events are
\* looked at.  Row and receipt are read together.
Judge(w, t) ==
  LET h == tx[t].hash
      contract == IF wallet THEN "curation" ELSE "vault"
  IN
  /\ worker[w].pc = "idle" /\ t \in queue
  /\ h # NoHash /\ event[h].status \in {"mined", "reverted"}
  /\ worker' = [worker EXCEPT ![w] =
       [pc |-> "judged", tx |-> t, hash |-> h, amount |-> tx[t].amount,
        contract |-> contract, verdict |-> Verdict(event[h], tx[t], contract)]]
  /\ UNCHANGED <<tx, chainTx, request, queue, chainVars, syncVars>>

\* updateTxAndBlockchainTxState: one database transaction, whatever the states.
\* Then the recipient is notified, and when that throws the message stays.
Conclude(w) ==
  LET job == worker[w] IN
  /\ job.pc = "judged"
  /\ tx' = [tx EXCEPT ![job.tx].state = job.verdict]
  /\ chainTx' = [chainTx EXCEPT ![job.hash].state =
                   IF job.verdict = "failed" THEN "reverted" ELSE "succeeded"]
  /\ queue' \in {queue, queue \ {job.tx}}
  /\ worker' = [worker EXCEPT ![w] = NoJob]
  /\ UNCHANGED <<request, chainVars, syncVars>>

\* The Lambda dies first.
Die(w) ==
  /\ worker[w].pc = "judged"
  /\ worker' = [worker EXCEPT ![w] = NoJob]
  /\ UNCHANGED <<tx, chainTx, request, queue, chainVars, syncVars>>

\* SQS drops a message that failed too often.
GiveUp(t) ==
  /\ t \in queue /\ \A w \in Worker : worker[w].tx # t
  /\ queue' = queue \ {t}
  /\ UNCHANGED <<tx, chainTx, request, worker, chainVars, syncVars>>

-----------------------------------------------------------------------------
(* handleSyncCurationEvents: one contract after the other.                 *)

Logs(c, from, to) ==
  {h \in Hash : /\ event[h].status = "mined" /\ event[h].contract = c
                /\ event[h].block \in from..to}

\* Mutants: the savepoint takes the newest block; the block of the savepoint is
\* fetched again; the early return is missing.
FetchLogs_SavesHead(c) ==
  IF savepoint[c] + 1 >= head - Confirms
  THEN [logs |-> {}, upto |-> savepoint[c]]
  ELSE [logs |-> Logs(c, savepoint[c] + 1, head - Confirms), upto |-> head]

FetchLogs_Inclusive(c) ==
  IF savepoint[c] >= head - Confirms
  THEN [logs |-> {}, upto |-> savepoint[c]]
  ELSE [logs |-> Logs(c, savepoint[c], head - Confirms), upto |-> head - Confirms]

FetchLogs_NoReturn(c) ==
  [logs |-> Logs(c, savepoint[c] + 1, head - Confirms), upto |-> head - Confirms]

\* fetchCurationLogs: nothing to do until a safe block lies past the first one.
FetchLogs(c) ==
  LET from == savepoint[c] + 1
      safe == head - Confirms
  IN IF from >= safe THEN [logs |-> {}, upto |-> savepoint[c]]
                     ELSE [logs |-> Logs(c, from, safe), upto |-> safe]

Visit(c) == [NoSync EXCEPT !.pc = "walk", !.contract = c,
                           !.logs = FetchLogs(c).logs,
                           !.upto = FetchLogs(c).upto]

StartSync ==
  /\ sync.pc = "idle"
  /\ sync' = Visit("curation")
  /\ UNCHANGED <<tx, chainTx, request, queue, worker, chainVars, progressVars>>

\* The chain row of the next log is read, or written with the log's data.
TakeLog(h) ==
  /\ sync.pc = "walk" /\ h \in sync.logs
  /\ \A g \in sync.logs : event[h].block <= event[g].block
  /\ chainTx' = [chainTx EXCEPT ![h] =
       IF @.state = "none" THEN [state |-> "succeeded", of |-> NoTx] ELSE @]
  /\ sync' = [sync EXCEPT !.pc = "found", !.hash = h, !.row = chainTx'[h]]
  /\ UNCHANGED <<tx, request, queue, worker, chainVars, progressVars>>

NextLog == [sync EXCEPT !.pc = "walk", !.logs = @ \ {sync.hash},
                        !.done = @ \cup {sync.hash}, !.hash = NoHash,
                        !.row = NoChainRow, !.tx = NoTx]

Resolved(row) == row.of # NoTx /\ row.state = "succeeded"

\* A draft that fits the event, for a donor who never asked to settle.
Drafts(h) == {t \in TxId : /\ tx[t].state = "pending"
                           /\ tx[t].amount = event[h].amount}

\* The row a log belongs to: the one the chain row names, the one that has the
\* hash, or a draft that fits; {} when there is none.
Candidates(h, row) ==
  IF row.of # NoTx THEN {row.of}
  ELSE IF LinkedTo(h) # {} THEN LinkedTo(h) ELSE Drafts(h)

\* handleNewEvent up to the links.  A row found by its hash and settled, or a
\* resolved chain row, ends the event.  With no row the code means to insert one,
\* but every such attempt fails and is rolled back: looking for the row of an
\* unknown donor passes undefined to knex, and the id of an inserted row is
\* not the string the link needs.  The failure is caught and the log goes on.
FindRow ==
  LET h == sync.hash
      found == IF Resolved(sync.row) THEN {} ELSE Candidates(h, sync.row)
      byHash == sync.row.of = NoTx /\ LinkedTo(h) # {}
  IN
  /\ sync.pc = "found"
  /\ IF found = {}
     THEN /\ sync' = NextLog
          /\ UNCHANGED <<tx, chainTx>>
     ELSE \E t \in found :
          /\ chainTx' = [chainTx EXCEPT ![h].of = t]
          /\ tx' = [tx EXCEPT ![t].hash = IF sync.row.of = NoTx THEN h ELSE @]
          /\ sync' = IF byHash /\ tx[t].state = "succeeded"
                     THEN NextLog
                     ELSE [sync EXCEPT !.pc = "event", !.tx = t]
  /\ UNCHANGED <<request, queue, worker, chainVars, progressVars>>

\* sender changed the amount in the wallet: the row takes the event's.
Correct ==
  LET h == sync.hash t == sync.tx IN
  /\ sync.pc = "event"
  /\ tx[t].amount # event[h].amount
  /\ LinkedTo(h) \subseteq {t}
  /\ tx' = [tx EXCEPT ![t].amount = event[h].amount, ![t].hash = h]
  /\ UNCHANGED <<chainTx, request, queue, worker, chainVars, syncVars>>

\* succeedBothTxAndBlockchainTx, and the log is done.
SettleEvent ==
  LET h == sync.hash t == sync.tx IN
  /\ sync.pc = "event"
  /\ tx[t].amount = event[h].amount
  /\ tx' = [tx EXCEPT ![t].state = "succeeded"]
  /\ chainTx' = [chainTx EXCEPT ![h].state = "succeeded"]
  /\ sync' = NextLog
  /\ UNCHANGED <<request, queue, worker, chainVars, progressVars>>

\* A statement of handleNewEvent throws: logged, and the log counts as done.
FailEvent ==
  /\ sync.pc \in {"found", "event"}
  /\ sync' = NextLog
  /\ UNCHANGED <<tx, chainTx, request, queue, worker, chainVars, progressVars>>

\* One insert of all events; blockchain_transaction_id is unique there.
SaveEvents ==
  /\ sync.pc = "walk" /\ sync.logs = {}
  /\ sync.done \cap saved = {}
  /\ saved' = saved \cup sync.done
  /\ sync' = [sync EXCEPT !.pc = "advance"]
  /\ UNCHANGED <<tx, chainTx, request, queue, worker, chainVars, savepoint, crashed>>

\* The savepoint, then the vault contract after the curation contract.
Advance ==
  /\ sync.pc = "advance"
  /\ savepoint' = [savepoint EXCEPT ![sync.contract] = sync.upto]
  /\ sync' = IF sync.contract = "curation" THEN Visit("vault") ELSE NoSync
  /\ UNCHANGED <<tx, chainTx, request, queue, worker, chainVars, saved, crashed>>

\* The insert fails on the key, or the Lambda stops anywhere.
StopSync ==
  /\ sync.pc # "idle"
  /\ sync' = NoSync
  /\ crashed' = (crashed \/ (sync.pc = "advance" /\ sync.done # {}))
  /\ UNCHANGED <<tx, chainTx, request, queue, worker, chainVars, savepoint, saved>>
-----------------------------------------------------------------------------

\* Mutant: settled rows time out as well.
TimesOut_AnyState(row) == row.state \in {"pending", "succeeded"}

\* cancelTimeoutTransactions, for rows older than half an hour.
TimesOut(row) == row.state = "pending"

CancelTimeoutTransactions(t) ==
  /\ TimesOut(tx[t])
  /\ tx' = [tx EXCEPT ![t].state = "canceled"]
  /\ UNCHANGED <<chainTx, request, queue, worker, chainVars, syncVars>>

SyncStep ==
  \/ StartSync \/ (\E h \in Hash : TakeLog(h)) \/ FindRow \/ Correct
  \/ SettleEvent \/ SaveEvents \/ Advance

Next ==
  \/ \E h \in Hash, t \in PaysFor, a \in Amount : Pay(h, t, a)
  \/ Mine \/ LinkWallet
  \/ \E t \in TxId, a \in Asked : Draft(t, a)
  \/ \E c \in Caller, h \in Hash, a \in Asked : Settle(c, h, a)
  \/ \E c \in Caller : Link(c) \/ Abort(c)
  \/ \E w \in Worker, t \in TxId : Judge(w, t)
  \/ \E w \in Worker : Conclude(w) \/ Die(w)
  \/ \E t \in TxId : GiveUp(t) \/ CancelTimeoutTransactions(t)
  \/ SyncStep \/ FailEvent \/ StopSync

Spec == Init /\ [][Next]_vars

-----------------------------------------------------------------------------
(* Properties.                                                             *)

\* A donation recorded as succeeded has a payment of its amount on the chain,
\* whoever settled it and however often the donor asked, relinked the row or
\* changed the amount: the handler judges a row it read before, the sync
\* corrects rows a handler is judging (paymentService.ts:1465-1613, 1834-2039).
SettledWasPaid ==
  \A t \in TxId : tx[t].state = "succeeded" =>
    \E h \in Hash : event[h].status = "mined" /\ event[h].amount = tx[t].amount

\* The savepoint never passes an event that was not saved, although the sync
\* may stop between any two statements (_handleSyncCurationEvents).
NothingSkipped ==
  \A c \in Contract : Logs(c, 1, savepoint[c]) \subseteq saved

\* Events are saved before the savepoint moves, and they are unique there: a
\* sync that finds its events saved already can never get past them.  That
\* happens only when an earlier one stopped between the two writes; windows of
\* blocks never overlap otherwise.
StuckOnlyAfterCrash ==
  sync.pc = "walk" /\ sync.done \cap saved # {} => crashed

\* The sync takes every event once, and is in nobody's way but its own crash.
SyncTakesAll == NothingSkipped /\ StuckOnlyAfterCrash

\* A settled donation becomes unsettled only by a handler whose view was wrong:
\* the row had another amount or another payment when it was read, or the
\* recipient linked a wallet and the handler looked at the wrong contract.
UnsettledOnlyOnOldView ==
  \A t \in TxId : tx[t].state = "succeeded" /\ tx'[t].state # "succeeded" =>
    \E w \in Worker :
      /\ worker[w].pc = "judged" /\ worker[w].tx = t
      /\ \/ event[worker[w].hash].status = "reverted"
         \/ event[worker[w].hash].amount # tx[t].amount
         \/ worker[w].amount # tx[t].amount
         \/ worker[w].contract # event[worker[w].hash].contract

\* What is settled was paid, and is unsettled by nothing but an outdated view.
SettlementMatchesChain == [][SettledWasPaid' /\ UnsettledOnlyOnOldView]_vars

-----------------------------------------------------------------------------
(* The instance checked: one donor, two drafts or hashes, one handler and  *)
(* the sync over a short chain.                                            *)

\* Payments are in an early block, and in the last, which is never safe.
FewBlocks == \A h \in Hash : event[h].block # MaxHead - 1

\* A wallet linked meanwhile, or two payments: not both in one behaviour.
OneTrouble ==
  ~wallet \/ \A h, g \in Hash : h = g \/ "none" \in {event[h].status, event[g].status}

AnyRowOrHash == Permutations(TxId) \cup Permutations(Hash)
=============================================================================
