------------------------ MODULE ChainPayment_proofs ------------------------
(***************************************************************************)
(* Proofs about ChainPayment, for any drafts, payments, requests, Lambdas, *)
(* amounts, number of blocks and of confirmations.                         *)
(***************************************************************************)
EXTENDS ChainPayment, TLAPS

\* The log the sync is at is one of those it fetched.
AtLog == sync.pc \in {"found", "event"} => sync.hash \in sync.logs

\* The parts of TypeOK.
RowType == [state : TxState, amount : Amount \cup {0}, hash : Hash \cup {NoHash}]

ChainRowType == [state : {"none", "pending", "succeeded", "reverted"},
                 of : TxId \cup {NoTx}]

EventType == [status : {"none", "sent", "mined", "reverted"},
              block : 0..MaxHead, contract : Contract,
              amount : Amount \cup {0}, for : TxId \cup {NoTx}]

RequestType == [pc : {"idle", "checked"}, tx : TxId \cup {NoTx},
                hash : Hash \cup {NoHash}, amount : Amount \cup {0}]

JobType == [pc : {"idle", "judged"}, tx : TxId \cup {NoTx},
            hash : Hash \cup {NoHash}, amount : Amount \cup {0},
            contract : Contract, verdict : TxState]

SyncType == [pc : {"idle", "walk", "found", "event", "save", "advance"},
             contract : Contract, upto : 0..MaxHead, logs : SUBSET Hash,
             done : SUBSET Hash, hash : Hash \cup {NoHash},
             row : ChainRowType, tx : TxId \cup {NoTx}]

Types ==
  /\ tx \in [TxId -> RowType]
  /\ chainTx \in [Hash -> ChainRowType]
  /\ event \in [Hash -> EventType]
  /\ head \in 0..MaxHead /\ wallet \in BOOLEAN /\ crashed \in BOOLEAN
  /\ request \in [Caller -> RequestType]
  /\ queue \in SUBSET TxId
  /\ worker \in [Worker -> JobType]
  /\ savepoint \in [Contract -> 0..MaxHead]
  /\ saved \in SUBSET Hash
  /\ sync \in SyncType

LEMMA TypesAreTypeOK == Types <=> TypeOK
BY DEF Types, TypeOK, RowType, ChainRowType, EventType, RequestType, JobType, SyncType

-----------------------------------------------------------------------------
(* Types.                                                                  *)

LEMMA InitTypes == Init => Types /\ AtLog
<1> SUFFICES ASSUME Init PROVE Types /\ AtLog
  OBVIOUS
<1> USE ChainAssumption DEF Init
<1>1. tx \in [TxId -> RowType]
  BY DEF RowType, NoRow, TxState
<1>2. NoChainRow \in ChainRowType /\ chainTx \in [Hash -> ChainRowType]
  BY DEF ChainRowType, NoChainRow
<1>3. event \in [Hash -> EventType]
  BY DEF EventType, NoEvent, Contract
<1>4. request \in [Caller -> RequestType]
  BY DEF RequestType, NoRequest
<1>5. worker \in [Worker -> JobType]
  BY DEF JobType, NoJob, Contract, TxState
<1>6. sync \in SyncType
  BY <1>2 DEF SyncType, NoSync, Contract
<1>7. AtLog
  BY DEF AtLog, NoSync
<1>8. head \in 0..MaxHead /\ savepoint \in [Contract -> 0..MaxHead]
  OBVIOUS
<1>9. queue \in SUBSET TxId /\ saved \in SUBSET Hash /\ wallet \in BOOLEAN /\ crashed \in BOOLEAN
  OBVIOUS
<1>10. QED
  BY <1>1, <1>2, <1>3, <1>4, <1>5, <1>6, <1>7, <1>8, <1>9 DEF Types

\* What is fetched for a contract lies within the blocks there are.
LEMMA VisitType ==
  ASSUME Types, NEW c \in Contract
  PROVE  /\ FetchLogs(c).upto \in 0..MaxHead
         /\ FetchLogs(c).logs \in SUBSET Hash
         /\ Visit(c) = [pc |-> "walk", contract |-> c, upto |-> FetchLogs(c).upto,
                        logs |-> FetchLogs(c).logs, done |-> {}, hash |-> NoHash,
                        row |-> NoChainRow, tx |-> NoTx]
         /\ Visit(c) \in SyncType
<1>1. savepoint[c] \in 0..MaxHead /\ head \in 0..MaxHead /\ Confirms \in Nat /\ MaxHead \in Nat
  BY ChainAssumption DEF Types
<1>2. FetchLogs(c).upto \in 0..MaxHead
  BY <1>1 DEF FetchLogs
<1>3. FetchLogs(c).logs \in SUBSET Hash
  BY DEF FetchLogs, Logs
<1>4. Visit(c) = [pc |-> "walk", contract |-> c, upto |-> FetchLogs(c).upto,
                  logs |-> FetchLogs(c).logs, done |-> {}, hash |-> NoHash,
                  row |-> NoChainRow, tx |-> NoTx]
  <2> DEFINE F == FetchLogs(c)
             A == [NoSync EXCEPT !.pc = "walk"]
             B == [A EXCEPT !.contract = c]
             D == [B EXCEPT !.logs = F.logs]
             E == [D EXCEPT !.upto = F.upto]
  <2>1. Visit(c) = E
    BY DEF Visit
  <2>2. A = [pc |-> "walk", contract |-> "curation", upto |-> 0, logs |-> {},
             done |-> {}, hash |-> NoHash, row |-> NoChainRow, tx |-> NoTx]
    BY DEF NoSync
  <2> HIDE DEF A, F
  <2>3. B = [pc |-> "walk", contract |-> c, upto |-> 0, logs |-> {},
             done |-> {}, hash |-> NoHash, row |-> NoChainRow, tx |-> NoTx]
    BY <2>2
  <2> HIDE DEF B
  <2>4. D = [pc |-> "walk", contract |-> c, upto |-> 0, logs |-> F.logs,
             done |-> {}, hash |-> NoHash, row |-> NoChainRow, tx |-> NoTx]
    BY <2>3
  <2> HIDE DEF D
  <2>5. E = [pc |-> "walk", contract |-> c, upto |-> F.upto, logs |-> F.logs,
             done |-> {}, hash |-> NoHash, row |-> NoChainRow, tx |-> NoTx]
    BY <2>4
  <2>6. QED
    BY <2>1, <2>5 DEF F
<1>5. QED
  BY <1>2, <1>3, <1>4 DEF SyncType, ChainRowType, NoChainRow

\* NextLog puts the log the sync is at among those done.
LEMMA NextLogIs ==
  ASSUME Types
  PROVE  NextLog = [pc |-> "walk", contract |-> sync.contract, upto |-> sync.upto,
                    logs |-> sync.logs \ {sync.hash},
                    done |-> sync.done \cup {sync.hash},
                    hash |-> NoHash, row |-> NoChainRow, tx |-> NoTx]
<1> DEFINE A == [sync EXCEPT !.pc = "walk"]
           B == [A EXCEPT !.logs = @ \ {sync.hash}]
           C == [B EXCEPT !.done = @ \cup {sync.hash}]
           D == [C EXCEPT !.hash = NoHash]
           E == [D EXCEPT !.row = NoChainRow]
           F == [E EXCEPT !.tx = NoTx]
<1>1. NextLog = F
  BY DEF NextLog
<1>2. A = [pc |-> "walk", contract |-> sync.contract, upto |-> sync.upto,
           logs |-> sync.logs, done |-> sync.done, hash |-> sync.hash,
           row |-> sync.row, tx |-> sync.tx]
  BY DEF Types, SyncType
<1> HIDE DEF A
<1>3. B = [pc |-> "walk", contract |-> sync.contract, upto |-> sync.upto,
           logs |-> sync.logs \ {sync.hash}, done |-> sync.done, hash |-> sync.hash,
           row |-> sync.row, tx |-> sync.tx]
  BY <1>2
<1> HIDE DEF B
<1>4. C = [pc |-> "walk", contract |-> sync.contract, upto |-> sync.upto,
           logs |-> sync.logs \ {sync.hash}, done |-> sync.done \cup {sync.hash}, hash |-> sync.hash,
           row |-> sync.row, tx |-> sync.tx]
  BY <1>3
<1> HIDE DEF C
<1>5. D = [pc |-> "walk", contract |-> sync.contract, upto |-> sync.upto,
           logs |-> sync.logs \ {sync.hash}, done |-> sync.done \cup {sync.hash}, hash |-> NoHash,
           row |-> sync.row, tx |-> sync.tx]
  BY <1>4
<1> HIDE DEF D
<1>6. E = [pc |-> "walk", contract |-> sync.contract, upto |-> sync.upto,
           logs |-> sync.logs \ {sync.hash}, done |-> sync.done \cup {sync.hash}, hash |-> NoHash,
           row |-> NoChainRow, tx |-> sync.tx]
  BY <1>5
<1> HIDE DEF E
<1>7. F = [pc |-> "walk", contract |-> sync.contract, upto |-> sync.upto,
           logs |-> sync.logs \ {sync.hash}, done |-> sync.done \cup {sync.hash}, hash |-> NoHash,
           row |-> NoChainRow, tx |-> NoTx]
  BY <1>6
<1>8. QED
  BY <1>1, <1>7

\* One step of any actor.
LEMMA NextTypes == Types /\ AtLog /\ [Next]_vars => Types' /\ AtLog'
<1> SUFFICES ASSUME Types, AtLog, [Next]_vars PROVE Types' /\ AtLog'
  OBVIOUS
<1>1. ASSUME NEW h \in Hash, NEW t \in PaysFor, NEW a \in Amount, Pay(h, t, a)
      PROVE  Types' /\ AtLog'
  <2>1. event' \in [Hash -> EventType]
    BY <1>1, ChainAssumption DEF Pay, Types, EventType, Contract
  <2>2. QED
    BY <1>1, <2>1 DEF Pay, Types, AtLog, syncVars, progressVars
<1>2. CASE Mine
  <2>1. head' \in 0..MaxHead
    <3>1. head \in 0..MaxHead /\ MaxHead \in Nat /\ head < MaxHead /\ head' = head + 1
      BY <1>2, ChainAssumption DEF Mine, Types
    <3>2. QED
      BY <3>1
  <2>2. event' \in [Hash -> EventType]
    <3> DEFINE Sent == {h \in Hash : event[h].status = "sent"}
    <3>1. PICK mined \in SUBSET Sent, failed \in SUBSET Sent :
            event' = [h \in Hash |->
              IF h \in mined
              THEN [event[h] EXCEPT !.status = "mined", !.block = head']
              ELSE IF h \in failed THEN [event[h] EXCEPT !.status = "reverted"]
              ELSE event[h]]
      BY <1>2 DEF Mine
    <3>2. \A h \in Hash : event[h] \in EventType
      BY DEF Types
    <3>3. ASSUME NEW h \in Hash PROVE event'[h] \in EventType
      BY <3>1, <3>2, <2>1 DEF EventType
    <3>4. QED
      BY <3>1, <3>3
  <2>3. QED
    BY <1>2, <2>1, <2>2 DEF Mine, Types, AtLog, syncVars, progressVars
<1>3. CASE LinkWallet
  BY <1>3 DEF LinkWallet, Types, AtLog, syncVars, progressVars
<1>4. ASSUME NEW t \in TxId, NEW a \in Asked, Draft(t, a)
      PROVE  Types' /\ AtLog'
  <2>1. tx' \in [TxId -> RowType]
    BY <1>4, ChainAssumption DEF Draft, Types, RowType, TxState
  <2>2. QED
    BY <1>4, <2>1 DEF Draft, Types, AtLog, syncVars, progressVars, chainVars
<1>5. ASSUME NEW c \in Caller, NEW h \in Hash, NEW a \in Asked, Settle(c, h, a)
      PROVE  Types' /\ AtLog'
  <2>1. event[h].for \in TxId \cup {NoTx} /\ a \in Amount
    BY ChainAssumption DEF Types, EventType
  <2>2. request' \in [Caller -> RequestType]
    BY <1>5, <2>1 DEF Settle, Types, RequestType
  <2>3. QED
    BY <1>5, <2>2 DEF Settle, Types, AtLog, syncVars, progressVars, chainVars
<1>6. ASSUME NEW c \in Caller, Link(c)
      PROVE  Types' /\ AtLog'
  <2> DEFINE r == request[c]
  <2>1. r \in RequestType
    BY DEF Types
  <2>2. PICK t \in RowFor(r.tx, r.hash) :
          /\ tx' = [tx EXCEPT ![t] =
               IF @.state = "none"
               THEN [state |-> "pending", amount |-> r.amount, hash |-> r.hash]
               ELSE [@ EXCEPT !.hash = r.hash]]
          /\ chainTx' = [chainTx EXCEPT ![r.hash] =
               [state |-> IF @.state = "none" THEN "pending" ELSE @.state, of |-> t]]
          /\ queue' \in {queue, queue \cup {t}}
    BY <1>6 DEF Link
  <2>3. t \in TxId
    BY <2>1 DEF RowFor, LinkedTo, FreeIds, RequestType
  <2>4. tx' \in [TxId -> RowType]
    BY <2>1, <2>2, <2>3 DEF Types, RowType, RequestType, TxState
  <2>5. chainTx' \in [Hash -> ChainRowType]
    BY <2>2, <2>3 DEF Types, ChainRowType
  <2>6. request' \in [Caller -> RequestType]
    BY <1>6 DEF Link, Types, RequestType, NoRequest
  <2>7. QED
    BY <1>6, <2>2, <2>3, <2>4, <2>5, <2>6
       DEF Link, Types, AtLog, syncVars, progressVars, chainVars
<1>7. ASSUME NEW c \in Caller, Abort(c)
      PROVE  Types' /\ AtLog'
  <2>1. request' \in [Caller -> RequestType]
    BY <1>7 DEF Abort, Types, RequestType, NoRequest
  <2>2. QED
    BY <1>7, <2>1 DEF Abort, Types, AtLog, syncVars, progressVars, chainVars
<1>8. ASSUME NEW w \in Worker, NEW t \in TxId, Judge(w, t)
      PROVE  Types' /\ AtLog'
  <2> DEFINE h == tx[t].hash
             contract == IF wallet THEN "curation" ELSE "vault"
             verdict == Verdict(event[h], tx[t], contract)
  <2>1. contract \in Contract /\ verdict \in TxState
    BY DEF Contract, TxState, Verdict
  <2>2. h \in Hash \cup {NoHash} /\ tx[t].amount \in Amount \cup {0}
    BY DEF Types, RowType
  <2>3. worker' = [worker EXCEPT ![w] =
          [pc |-> "judged", tx |-> t, hash |-> h, amount |-> tx[t].amount,
           contract |-> contract, verdict |-> verdict]]
    BY <1>8 DEF Judge
  <2> HIDE DEF h, contract, verdict
  <2>4. worker' \in [Worker -> JobType]
    BY <2>1, <2>2, <2>3 DEF Types, JobType
  <2>5. QED
    BY <1>8, <2>4 DEF Judge, Types, AtLog, syncVars, progressVars, chainVars
<1>9. ASSUME NEW w \in Worker, Conclude(w)
      PROVE  Types' /\ AtLog'
  <2>1. worker[w] \in JobType /\ worker' \in [Worker -> JobType]
    BY <1>9 DEF Conclude, Types, JobType, NoJob, Contract, TxState
  <2>2. tx' \in [TxId -> RowType]
    <3>1. worker[w].verdict \in TxState /\ tx \in [TxId -> RowType]
      BY <2>1 DEF JobType, Types
    <3>2. tx' = [tx EXCEPT ![worker[w].tx].state = worker[w].verdict]
      BY <1>9 DEF Conclude
    <3>3. QED
      BY <3>1, <3>2 DEF RowType
  <2>3. chainTx' \in [Hash -> ChainRowType]
    BY <1>9 DEF Conclude, Types, ChainRowType
  <2>4. QED
    BY <1>9, <2>1, <2>2, <2>3 DEF Conclude, Types, AtLog, syncVars, progressVars, chainVars
<1>10. ASSUME NEW w \in Worker, Die(w)
       PROVE  Types' /\ AtLog'
  <2>1. worker' \in [Worker -> JobType]
    BY <1>10 DEF Die, Types, JobType, NoJob, Contract, TxState
  <2>2. QED
    BY <1>10, <2>1 DEF Die, Types, AtLog, syncVars, progressVars, chainVars
<1>11. ASSUME NEW t \in TxId, GiveUp(t) \/ CancelTimeoutTransactions(t)
       PROVE  Types' /\ AtLog'
  <2>1. tx' \in [TxId -> RowType] /\ queue' \in SUBSET TxId
    BY <1>11 DEF GiveUp, CancelTimeoutTransactions, Types, RowType, TxState
  <2>2. QED
    BY <1>11, <2>1
       DEF GiveUp, CancelTimeoutTransactions, Types, AtLog, syncVars, progressVars, chainVars
<1>12. CASE StartSync
  <2>1. "curation" \in Contract
    BY DEF Contract
  <2>2. sync' \in SyncType /\ sync'.pc = "walk"
    BY <1>12, <2>1, VisitType DEF StartSync
  <2>3. QED
    BY <1>12, <2>2 DEF StartSync, Types, AtLog, progressVars, chainVars
<1>13. ASSUME NEW h \in Hash, TakeLog(h)
       PROVE  Types' /\ AtLog'
  <2>1. chainTx' \in [Hash -> ChainRowType]
    BY <1>13 DEF TakeLog, Types, ChainRowType
  <2>2. sync' \in SyncType
    BY <1>13, <2>1 DEF TakeLog, Types, SyncType
  <2>3. sync'.hash \in sync'.logs
    BY <1>13 DEF TakeLog, Types, SyncType
  <2>4. QED
    BY <1>13, <2>1, <2>2, <2>3 DEF TakeLog, Types, AtLog, progressVars, chainVars
<1>14. ASSUME sync.pc \in {"found", "event"}
       PROVE  NextLog \in SyncType /\ NextLog.pc = "walk"
  <2>1. sync.hash \in Hash
    BY <1>14 DEF AtLog, Types, SyncType
  <2>2. QED
    BY <2>1, NextLogIs DEF Types, SyncType, ChainRowType, NoChainRow
<1>15. CASE FindRow
  <2> DEFINE h == sync.hash
             found == IF Resolved(sync.row) THEN {} ELSE Candidates(h, sync.row)
  <2>1. sync.pc = "found" /\ h \in Hash /\ sync.row \in ChainRowType
    BY <1>15 DEF FindRow, AtLog, Types, SyncType
  <2>2. found \subseteq TxId
    BY <2>1 DEF Candidates, LinkedTo, Drafts, ChainRowType
  <2>3. CASE found = {}
    BY <1>15, <1>14, <2>1, <2>3 DEF FindRow, Types, AtLog, progressVars, chainVars
  <2>4. CASE found # {}
    <3>1. PICK t \in found :
            /\ chainTx' = [chainTx EXCEPT ![h].of = t]
            /\ tx' = [tx EXCEPT ![t].hash = IF sync.row.of = NoTx THEN h ELSE @]
            /\ sync' \in {NextLog, [sync EXCEPT !.pc = "event", !.tx = t]}
      BY <1>15, <2>4 DEF FindRow
    <3>2. t \in TxId
      BY <2>2
    <3>3. chainTx' \in [Hash -> ChainRowType] /\ tx' \in [TxId -> RowType]
      BY <3>1, <3>2, <2>1 DEF Types, ChainRowType, RowType
    <3>4. sync' \in SyncType /\ AtLog'
      BY <3>1, <3>2, <1>14, <2>1 DEF AtLog, Types, SyncType
    <3>5. QED
      BY <1>15, <3>3, <3>4 DEF FindRow, Types, progressVars, chainVars
  <2>5. QED
    BY <2>3, <2>4
<1>16. CASE Correct
  <2>1. sync.hash \in Hash
    BY <1>16 DEF Correct, AtLog, Types, SyncType
  <2>2. tx' \in [TxId -> RowType]
    <3>1. event[sync.hash].amount \in Amount \cup {0} /\ tx \in [TxId -> RowType]
      BY <2>1 DEF Types, EventType
    <3>2. tx' = [tx EXCEPT ![sync.tx].amount = event[sync.hash].amount,
                           ![sync.tx].hash = sync.hash]
      BY <1>16 DEF Correct
    <3>3. QED
      BY <3>1, <3>2, <2>1 DEF RowType
  <2>3. QED
    BY <1>16, <2>2 DEF Correct, Types, AtLog, syncVars, progressVars, chainVars
<1>17. CASE SettleEvent
  <2>1. tx' \in [TxId -> RowType]
    BY <1>17 DEF SettleEvent, Types, RowType, TxState
  <2>2. chainTx' \in [Hash -> ChainRowType]
    BY <1>17 DEF SettleEvent, Types, ChainRowType
  <2>3. sync' \in SyncType /\ sync'.pc = "walk"
    BY <1>17, <1>14 DEF SettleEvent
  <2>4. QED
    BY <1>17, <2>1, <2>2, <2>3 DEF SettleEvent, Types, AtLog, progressVars, chainVars
<1>18. CASE FailEvent
  <2>1. sync' \in SyncType /\ sync'.pc = "walk"
    BY <1>18, <1>14 DEF FailEvent
  <2>2. QED
    BY <1>18, <2>1 DEF FailEvent, Types, AtLog, progressVars, chainVars
<1>19. CASE SaveEvents
  <2>1. sync' \in SyncType /\ sync'.pc = "advance" /\ sync.done \in SUBSET Hash
    BY <1>19 DEF SaveEvents, Types, SyncType
  <2>2. QED
    BY <1>19, <2>1 DEF SaveEvents, Types, AtLog, chainVars
<1>20. CASE Advance
  <2>1. sync.contract \in Contract /\ sync.upto \in 0..MaxHead /\ "vault" \in Contract
    BY DEF Types, SyncType, Contract
  <2>2. savepoint' \in [Contract -> 0..MaxHead]
    BY <1>20, <2>1 DEF Advance, Types
  <2>3. NoSync \in SyncType /\ NoSync.pc = "idle"
    BY ChainAssumption DEF NoSync, SyncType, Contract, ChainRowType, NoChainRow
  <2>4. sync' \in SyncType /\ sync'.pc \in {"walk", "idle"}
    BY <1>20, <2>1, <2>3, VisitType DEF Advance
  <2>5. QED
    BY <1>20, <2>2, <2>4 DEF Advance, Types, AtLog, chainVars
<1>21. CASE StopSync
  <2>1. NoSync \in SyncType /\ NoSync.pc = "idle"
    BY ChainAssumption DEF NoSync, SyncType, Contract, ChainRowType, NoChainRow
  <2>2. crashed' \in BOOLEAN
    BY <1>21 DEF StopSync, Types
  <2>3. QED
    BY <1>21, <2>1, <2>2 DEF StopSync, Types, AtLog, chainVars
<1>22. CASE UNCHANGED vars
  BY <1>22 DEF vars, Types, AtLog
<1>23. QED
  BY <1>1, <1>2, <1>3, <1>4, <1>5, <1>6, <1>7, <1>8, <1>9, <1>10, <1>11, <1>12, <1>13,
     <1>15, <1>16, <1>17, <1>18, <1>19, <1>20, <1>21, <1>22 DEF Next, SyncStep

-----------------------------------------------------------------------------
(* The sync.  While it visits a contract, the logs it has still to do and   *)
(* those done are all there are between the savepoint and the block it read *)
(* up to; what is saved lies below the savepoint, but for what it is about  *)
(* to pass, or passed by a sync that stopped.                               *)

ChainOK == \A h \in Hash : event[h].status = "mined" => event[h].block \in 1..head

Window == Logs(sync.contract, savepoint[sync.contract] + 1, sync.upto)

SyncOK ==
  /\ \A c \in Contract : savepoint[c] <= head
  /\ sync.pc # "idle" =>
       /\ savepoint[sync.contract] <= sync.upto /\ sync.upto <= head
       /\ sync.logs \cup sync.done = Window
  /\ sync.pc = "advance" => sync.logs = {} /\ sync.done \subseteq saved

SavedOK ==
  \A h \in saved :
    /\ event[h].status = "mined"
    /\ \/ crashed
       \/ event[h].block <= savepoint[event[h].contract]
       \/ sync.pc = "advance" /\ h \in sync.done

SyncInv == ChainOK /\ SyncOK /\ SavedOK /\ NothingSkipped

LEMMA InitSync == Init => SyncInv
<1> SUFFICES ASSUME Init PROVE SyncInv
  OBVIOUS
<1>1. \A h \in Hash : event[h].status = "none"
  BY DEF Init, NoEvent
<1>2. \A c \in Contract : savepoint[c] = 0
  BY DEF Init
<1>3. sync.pc = "idle" /\ saved = {} /\ head = 0
  BY DEF Init, NoSync
<1>4. QED
  BY <1>1, <1>2, <1>3 DEF SyncInv, ChainOK, SyncOK, SavedOK, NothingSkipped, Logs

\* The invariant implies the property: what is done lies above the savepoint.
LEMMA SyncInvIsEnough == Types /\ SyncInv => SyncTakesAll
<1> SUFFICES ASSUME Types, SyncInv, sync.pc = "walk", NEW h \in sync.done \cap saved, ~crashed
             PROVE  FALSE
  BY DEF SyncInv, SyncTakesAll, StuckOnlyAfterCrash
<1>1. h \in Logs(sync.contract, savepoint[sync.contract] + 1, sync.upto)
  BY DEF SyncInv, SyncOK, Window
<1>2. event[h].block >= savepoint[sync.contract] + 1 /\ event[h].contract = sync.contract
  BY <1>1 DEF Logs, Types, SyncType, EventType
<1>3. event[h].block <= savepoint[sync.contract]
  BY <1>2 DEF SyncInv, SavedOK
<1>4. savepoint[sync.contract] \in Nat /\ event[h].block \in Nat
  BY ChainAssumption DEF Types, SyncType, EventType
<1>5. QED
  BY <1>2, <1>3, <1>4

\* What another actor does leaves the sync alone.
LEMMA QuietSync == ASSUME SyncInv, UNCHANGED <<event, head, syncVars>> PROVE SyncInv'
BY DEF SyncInv, ChainOK, SyncOK, SavedOK, NothingSkipped, Window, Logs, syncVars, progressVars

\* The chain adds events above its head, and changes none below.
LEMMA ChainSync ==
  ASSUME Types, Types', SyncInv, UNCHANGED syncVars, head' \in Nat, head <= head',
         \A h \in Hash : \/ event'[h] = event[h]
                         \/ /\ event[h].status # "mined"
                            /\ event'[h].status = "mined" => event'[h].block = head' /\ head < head'
  PROVE  SyncInv'
<1> USE DEF SyncInv
<1>0. head \in Nat /\ \A c \in Contract : savepoint[c] \in Nat
  BY ChainAssumption DEF Types
<1>1. ChainOK'
  BY <1>0, ChainAssumption DEF ChainOK, Types, EventType
<1>2. ASSUME NEW c, NEW a \in Nat, NEW b \in Nat, b <= head
      PROVE  Logs(c, a, b)' = Logs(c, a, b)
  <2>1. \A h \in Hash : event'[h].status = "mined" /\ event'[h].block <= head => event'[h] = event[h]
    BY <1>0
  <2>2. \A h \in Hash : event[h].status = "mined" => event'[h] = event[h]
    OBVIOUS
  <2>3. QED
    BY <1>0, <1>2, <2>1, <2>2 DEF Logs
<1>3. SavedOK'
  BY DEF SavedOK, Types, syncVars, progressVars
<1>4. NothingSkipped'
  <2>1. ASSUME NEW c \in Contract PROVE (Logs(c, 1, savepoint[c]) \subseteq saved)'
    <3>1. Logs(c, 1, savepoint[c])' = Logs(c, 1, savepoint[c])
      BY <1>0, <1>2 DEF SyncOK, syncVars, progressVars
    <3>2. QED
      BY <3>1 DEF NothingSkipped, syncVars, progressVars
  <2>2. QED
    BY <2>1 DEF NothingSkipped
<1>5. SyncOK'
  <2>1. (\A c \in Contract : savepoint[c] <= head)'
    BY <1>0 DEF SyncOK, syncVars, progressVars
  <2>2. ASSUME sync.pc # "idle" PROVE Window' = Window /\ sync.upto <= head'
    <3>1. sync.contract \in Contract /\ sync.upto \in Nat
      BY ChainAssumption DEF Types, SyncType
    <3>2. QED
      BY <1>0, <1>2, <2>2, <3>1 DEF SyncOK, Window, syncVars, progressVars
  <2>3. QED
    BY <2>1, <2>2 DEF SyncOK, syncVars, progressVars
<1>6. QED
  BY <1>1, <1>3, <1>4, <1>5

\* A visit fetches all there is between the savepoint and where it will move.
LEMMA VisitWindow ==
  ASSUME Types, NEW c \in Contract, savepoint[c] <= head
  PROVE  /\ savepoint[c] <= FetchLogs(c).upto /\ FetchLogs(c).upto <= head
         /\ FetchLogs(c).logs = Logs(c, savepoint[c] + 1, FetchLogs(c).upto)
<1>1. savepoint[c] \in Nat /\ head \in Nat /\ Confirms \in Nat
  BY ChainAssumption DEF Types
<1>2. CASE savepoint[c] + 1 >= head - Confirms
  <2>1. FetchLogs(c) = [logs |-> {}, upto |-> savepoint[c]]
    BY <1>2 DEF FetchLogs
  <2>2. \A h \in Hash : event[h].block \in Nat
    BY ChainAssumption DEF Types, EventType
  <2>3. Logs(c, savepoint[c] + 1, savepoint[c]) = {}
    BY <1>1, <2>2 DEF Logs
  <2>4. QED
    BY <1>1, <2>1, <2>3
<1>3. CASE ~(savepoint[c] + 1 >= head - Confirms)
  <2>1. FetchLogs(c) = [logs |-> Logs(c, savepoint[c] + 1, head - Confirms),
                        upto |-> head - Confirms]
    BY <1>3 DEF FetchLogs
  <2>2. QED
    BY <1>1, <1>3, <2>1
<1>4. QED
  BY <1>2, <1>3

\* Where a visit begins, the window is what it fetched.
LEMMA BeginVisit ==
  ASSUME Types, Types', NEW c \in Contract, sync' = Visit(c),
         UNCHANGED <<event, head>>, savepoint[c]' = savepoint[c],
         \A d \in Contract : savepoint'[d] <= head
  PROVE  SyncOK'
<1>1. /\ sync'.pc = "walk" /\ sync'.contract = c
      /\ sync'.upto = FetchLogs(c).upto /\ sync'.logs = FetchLogs(c).logs
      /\ sync'.done = {}
  BY VisitType
<1>2. savepoint[c] <= head
  OBVIOUS
<1>3. Window' = sync'.logs
  BY <1>1, <1>2, VisitWindow DEF Window, Logs
<1>4. QED
  BY <1>1, <1>2, <1>3, VisitWindow DEF SyncOK

\* Steps within a visit that save nothing and move no savepoint.
LEMMA WithinVisit ==
  ASSUME SyncInv, UNCHANGED <<event, head, savepoint, saved, crashed>>,
         sync.pc # "idle", sync.pc # "advance", sync'.pc # "advance",
         sync'.pc # "idle" =>
           /\ sync'.contract = sync.contract /\ sync'.upto = sync.upto
           /\ sync'.logs \cup sync'.done = sync.logs \cup sync.done
  PROVE  SyncInv'
BY DEF SyncInv, ChainOK, SyncOK, SavedOK, NothingSkipped, Window, Logs

LEMMA NextSyncInv ==
  Types /\ AtLog /\ SyncInv /\ [Next]_vars /\ Types' => SyncInv'
<1> SUFFICES ASSUME Types, AtLog, SyncInv, [Next]_vars, Types' PROVE SyncInv'
  OBVIOUS
<1>0. head \in Nat /\ head' \in Nat
  BY ChainAssumption DEF Types
<1>1. ASSUME NEW h \in Hash, NEW t \in PaysFor, NEW a \in Amount, Pay(h, t, a)
      PROVE  SyncInv'
  <2>1. event \in [Hash -> EventType] /\ event[h].status = "none"
    BY <1>1 DEF Pay, Types
  <2>2. event'[h].status = "sent" /\ \A g \in Hash : g # h => event'[g] = event[g]
    BY <1>1, <2>1 DEF Pay
  <2>3. ASSUME NEW g \in Hash
        PROVE  \/ event'[g] = event[g]
               \/ event[g].status # "mined" /\ event'[g].status # "mined"
    BY <2>1, <2>2
  <2>4. QED
    BY <1>0, <1>1, <2>3, ChainSync DEF Pay
<1>2. CASE Mine
  <2>1. head' = head + 1 /\ UNCHANGED syncVars
    BY <1>2 DEF Mine
  <2>2. ASSUME NEW g \in Hash
        PROVE  \/ event'[g] = event[g]
               \/ /\ event[g].status # "mined"
                  /\ event'[g].status = "mined" => event'[g].block = head'
    <3> DEFINE Sent == {h \in Hash : event[h].status = "sent"}
    <3>1. PICK mined \in SUBSET Sent, failed \in SUBSET Sent :
            event' = [h \in Hash |->
              IF h \in mined
              THEN [event[h] EXCEPT !.status = "mined", !.block = head']
              ELSE IF h \in failed THEN [event[h] EXCEPT !.status = "reverted"]
              ELSE event[h]]
      BY <1>2 DEF Mine
    <3>2. event[g] \in EventType
      BY DEF Types
    <3>3. QED
      BY <3>1, <3>2 DEF EventType
  <2>3. QED
    BY <1>0, <2>1, <2>2, ChainSync
<1>3. CASE \/ LinkWallet
           \/ \E t \in TxId, a \in Asked : Draft(t, a)
           \/ \E c \in Caller, h \in Hash, a \in Asked : Settle(c, h, a)
           \/ \E c \in Caller : Link(c) \/ Abort(c)
           \/ \E w \in Worker, t \in TxId : Judge(w, t)
           \/ \E w \in Worker : Conclude(w) \/ Die(w)
           \/ \E t \in TxId : GiveUp(t) \/ CancelTimeoutTransactions(t)
           \/ Correct \/ UNCHANGED vars
  <2>1. UNCHANGED <<event, head, syncVars>>
    BY <1>3 DEF LinkWallet, Draft, Settle, Link, Abort, Judge, Conclude, Die, GiveUp,
                CancelTimeoutTransactions, Correct, vars, chainVars, syncVars, progressVars
  <2>2. QED
    BY <2>1, QuietSync
<1>4. CASE StartSync
  <2>1. "curation" \in Contract /\ sync' = Visit("curation") /\ sync.pc = "idle"
        /\ UNCHANGED <<event, head, savepoint, saved, crashed>>
    BY <1>4 DEF StartSync, Contract, chainVars, progressVars
  <2>2. SyncOK'
    BY <2>1, BeginVisit DEF SyncInv, SyncOK
  <2>3. QED
    BY <2>1, <2>2 DEF SyncInv, ChainOK, SavedOK, NothingSkipped, Logs
<1>5. CASE FindRow \/ SettleEvent \/ FailEvent \/ \E h \in Hash : TakeLog(h)
  <2>1. UNCHANGED <<event, head, savepoint, saved, crashed>>
    BY <1>5 DEF FindRow, SettleEvent, FailEvent, TakeLog, chainVars, progressVars
  <2>2. sync.pc \in {"walk", "found", "event"}
    BY <1>5 DEF FindRow, SettleEvent, FailEvent, TakeLog
  <2>3. CASE sync' = NextLog /\ sync.pc \in {"found", "event"}
    <3>1. sync.hash \in sync.logs
      BY <2>3 DEF AtLog
    <3>2. /\ sync'.pc = "walk" /\ sync'.contract = sync.contract /\ sync'.upto = sync.upto
          /\ sync'.logs \cup sync'.done = sync.logs \cup sync.done
      BY <2>3, <3>1, NextLogIs
    <3>3. QED
      BY <2>1, <2>3, <3>2, WithinVisit
  <2>4. CASE \E t \in TxId \cup {NoTx} : sync' = [sync EXCEPT !.pc = "event", !.tx = t]
    BY <2>1, <2>2, <2>4, WithinVisit DEF Types, SyncType
  <2>5. CASE \E h \in Hash : TakeLog(h)
    <3>1. /\ sync.pc = "walk" /\ sync'.pc = "found" /\ sync'.contract = sync.contract
          /\ sync'.upto = sync.upto /\ sync'.logs = sync.logs /\ sync'.done = sync.done
      BY <2>5 DEF TakeLog, Types, SyncType
    <3>2. QED
      BY <2>1, <3>1, WithinVisit
  <2>6. CASE FindRow
    <3> DEFINE found == IF Resolved(sync.row) THEN {} ELSE Candidates(sync.hash, sync.row)
    <3>1. sync.pc = "found" /\ sync.row \in ChainRowType
      BY <2>6 DEF FindRow, Types, SyncType
    <3>2. found \subseteq TxId
      BY <3>1 DEF Candidates, LinkedTo, Drafts, ChainRowType
    <3>3. \/ sync' = NextLog
          \/ \E t \in found : sync' = [sync EXCEPT !.pc = "event", !.tx = t]
      BY <2>6 DEF FindRow
    <3>4. QED
      BY <2>3, <2>4, <3>1, <3>2, <3>3
  <2>7. CASE SettleEvent \/ FailEvent
    BY <2>3, <2>7 DEF SettleEvent, FailEvent
  <2>8. QED
    BY <1>5, <2>5, <2>6, <2>7
<1>6. CASE SaveEvents
  <2>1. /\ sync.pc = "walk" /\ sync.logs = {} /\ saved' = saved \cup sync.done
        /\ sync'.pc = "advance" /\ sync'.contract = sync.contract /\ sync'.upto = sync.upto
        /\ sync'.logs = {} /\ sync'.done = sync.done
        /\ UNCHANGED <<event, head, savepoint, crashed>>
    BY <1>6 DEF SaveEvents, chainVars, Types, SyncType
  <2>2. Window' = Window /\ sync.done = Window
    BY <2>1 DEF Window, Logs, SyncInv, SyncOK
  <2>3. SyncOK'
    BY <2>1, <2>2 DEF SyncInv, SyncOK
  <2>4. SavedOK'
    BY <2>1, <2>2 DEF SyncInv, SavedOK, Window, Logs
  <2>5. QED
    BY <2>1, <2>3, <2>4 DEF SyncInv, ChainOK, NothingSkipped, Logs
<1>7. CASE Advance
  <2> DEFINE k == sync.contract
  <2>1. /\ sync.pc = "advance" /\ sync.logs = {} /\ sync.done = Window
        /\ Window \subseteq saved /\ savepoint[k] <= sync.upto /\ sync.upto <= head
    BY <1>7 DEF Advance, SyncInv, SyncOK
  <2>2. /\ savepoint' = [savepoint EXCEPT ![k] = sync.upto]
        /\ sync' = IF k = "curation" THEN Visit("vault") ELSE NoSync
        /\ UNCHANGED <<event, head, saved, crashed>>
    BY <1>7 DEF Advance, chainVars
  <2>3. k \in Contract /\ sync.upto \in Nat /\ "vault" \in Contract
        /\ savepoint \in [Contract -> Nat]
    BY ChainAssumption DEF Types, SyncType, Contract
  <2>4. \A c \in Contract : savepoint'[c] <= head /\ savepoint[c] <= savepoint'[c]
    BY <2>1, <2>2, <2>3 DEF SyncInv, SyncOK
  <2>5. SyncOK'
    <3>1. CASE k = "curation"
      <4>1. savepoint["vault"]' = savepoint["vault"]
        BY <2>2, <2>3, <3>1
      <4>2. QED
        BY <2>2, <2>3, <2>4, <3>1, <4>1, BeginVisit
    <3>2. CASE k # "curation"
      BY <2>2, <2>4, <3>2 DEF SyncOK, NoSync
    <3>3. QED
      BY <3>1, <3>2
  <2>6. SavedOK'
    <3>1. ASSUME NEW h \in saved
          PROVE  event[h].status = "mined" /\ (crashed \/ event[h].block <= savepoint'[event[h].contract])
      <4>1. event[h].contract \in Contract /\ event[h].block \in Nat
        BY ChainAssumption DEF Types, EventType
      <4>2. CASE event[h].block <= savepoint[event[h].contract]
        <5>1. savepoint[event[h].contract] <= savepoint'[event[h].contract]
          BY <2>4, <4>1
        <5>2. /\ savepoint[event[h].contract] \in Nat
              /\ savepoint'[event[h].contract] \in Nat
          BY ChainAssumption, <4>1 DEF Types
        <5>3. event[h].status = "mined"
          BY DEF SyncInv, SavedOK
        <5>4. QED
          BY <4>1, <4>2, <5>1, <5>2, <5>3
      <4>3. CASE h \in sync.done
        <5>1. event[h].contract = k /\ event[h].block <= sync.upto /\ event[h].status = "mined"
          BY <2>1, <2>3, <4>1, <4>3 DEF Window, Logs
        <5>2. savepoint'[k] = sync.upto
          BY <2>2, <2>3
        <5>3. QED
          BY <5>1, <5>2
      <4>4. CASE crashed
        BY <4>4 DEF SyncInv, SavedOK
      <4>5. QED
        BY <4>2, <4>3, <4>4 DEF SyncInv, SavedOK
    <3>2. QED
      BY <2>2, <3>1 DEF SavedOK
  <2>7. NothingSkipped'
    <3>1. ASSUME NEW c \in Contract, NEW h \in Logs(c, 1, savepoint'[c])
          PROVE  h \in saved
      <4>1. h \in Hash /\ event[h].block \in Nat
        BY ChainAssumption DEF Logs, Types, EventType
      <4>2. CASE h \in Logs(c, 1, savepoint[c])
        BY <4>2 DEF SyncInv, NothingSkipped
      <4>3. CASE h \notin Logs(c, 1, savepoint[c])
        <5>1. c = k /\ savepoint'[c] = sync.upto
          BY <2>2, <2>3, <3>1, <4>3
        <5>2. h \in Window
          BY <2>3, <3>1, <4>1, <4>3, <5>1 DEF Window, Logs
        <5>3. QED
          BY <2>1, <5>2
      <4>4. QED
        BY <4>2, <4>3
    <3>2. QED
      BY <2>2, <3>1 DEF NothingSkipped, Logs
  <2>8. QED
    BY <2>2, <2>5, <2>6, <2>7 DEF SyncInv, ChainOK
<1>8. CASE StopSync
  <2>1. /\ sync'.pc = "idle" /\ crashed' = (crashed \/ (sync.pc = "advance" /\ sync.done # {}))
        /\ UNCHANGED <<event, head, savepoint, saved>>
    BY <1>8 DEF StopSync, NoSync, chainVars
  <2>2. QED
    BY <2>1 DEF SyncInv, ChainOK, SyncOK, SavedOK, NothingSkipped, Logs
<1>9. QED
  BY <1>1, <1>2, <1>3, <1>4, <1>5, <1>6, <1>7, <1>8 DEF Next, SyncStep

-----------------------------------------------------------------------------
(* Rows.  Whoever is about to settle a row refers to one that exists, and    *)
(* what is about to be settled has a payment of the amount the row has now,  *)
(* which may not be the one it had when it was judged.                       *)

Paid(a) == \E h \in Hash : event[h].status = "mined" /\ event[h].amount = a

LinksOK ==
  /\ \A t \in TxId : tx[t].state = "none" => tx[t].hash = NoHash
  /\ \A h \in Hash : chainTx[h].of # NoTx => tx[chainTx[h].of].state # "none"

AtRowOK ==
  /\ sync.pc \in {"found", "event"} /\ sync.row.of # NoTx =>
       tx[sync.row.of].state # "none"
  /\ sync.pc = "event" => sync.tx \in TxId /\ tx[sync.tx].state # "none"

JobOK(w) ==
  worker[w].pc = "judged" =>
    /\ worker[w].tx \in TxId /\ worker[w].hash \in Hash
    /\ tx[worker[w].tx].state # "none"
    /\ event[worker[w].hash].status \in {"mined", "reverted"}
    /\ \/ /\ worker[w].verdict = "succeeded"
          /\ Paid(tx[worker[w].tx].amount)
       \/ /\ worker[w].verdict = "failed"
          /\ event[worker[w].hash].status = "reverted"
       \/ /\ worker[w].verdict = "canceled"
          /\ \/ event[worker[w].hash].amount # worker[w].amount
             \/ event[worker[w].hash].contract # worker[w].contract

RowInv == LinksOK /\ AtRowOK /\ (\A w \in Worker : JobOK(w)) /\ SettledWasPaid

LEMMA InitRows == Init => RowInv
<1> SUFFICES ASSUME Init PROVE RowInv
  OBVIOUS
<1>1. \A t \in TxId : tx[t].state = "none" /\ tx[t].hash = NoHash
  BY DEF Init, NoRow
<1>2. \A h \in Hash : chainTx[h].of = NoTx
  BY DEF Init, NoChainRow
<1>3. sync.pc = "idle" /\ \A w \in Worker : worker[w].pc = "idle"
  BY DEF Init, NoSync, NoJob
<1>4. QED
  BY <1>1, <1>2, <1>3 DEF RowInv, LinksOK, AtRowOK, JobOK, SettledWasPaid

\* What a step may do to a row: a row that was not there is not settled at once;
\* of one that was the amount becomes that of a payment or stays, and it is
\* settled by a payment of its amount.
Moves(t) ==
  \/ /\ tx[t].state = "none" /\ tx'[t].state # "succeeded"
     /\ tx'[t].state = "none" => tx'[t].hash = NoHash
  \/ /\ tx[t].state # "none" /\ tx'[t].state # "none"
     /\ tx'[t].amount = tx[t].amount \/ Paid(tx[t].amount)'
     /\ tx'[t].state = "succeeded" => tx[t].state = "succeeded" \/ Paid(tx[t].amount)'

LEMMA KeepRows ==
  ASSUME Types, Types', RowInv,
         \A h \in Hash : event[h].status \in {"mined", "reverted"} => event'[h] = event[h],
         \A t \in TxId : Moves(t),
         \A h \in Hash : \/ chainTx'[h].of \in {chainTx[h].of, NoTx}
                         \/ tx'[chainTx'[h].of].state # "none",
         \A w \in Worker : \/ worker'[w] = worker[w]
                           \/ worker'[w].pc # "judged"
                           \/ JobOK(w)',
         AtRowOK' \/ UNCHANGED sync
  PROVE  RowInv'
<1>1. ASSUME NEW a, Paid(a) PROVE Paid(a)'
  BY <1>1 DEF Paid
<1>2. ASSUME NEW t \in TxId, tx[t].state # "none" PROVE tx'[t].state # "none"
  BY <1>2 DEF Moves
<1>3. LinksOK'
  <2>1. ASSUME NEW t \in TxId, tx'[t].state = "none" PROVE tx'[t].hash = NoHash
    BY <2>1 DEF Moves
  <2>2. ASSUME NEW h \in Hash, chainTx'[h].of # NoTx
        PROVE  tx'[chainTx'[h].of].state # "none"
    <3>1. chainTx'[h].of \in TxId
      BY <2>2 DEF Types, ChainRowType
    <3>2. QED
      BY <1>2, <2>2, <3>1 DEF RowInv, LinksOK
  <2>3. QED
    BY <2>1, <2>2 DEF LinksOK
<1>4. AtRowOK'
  <2>1. sync.row.of \in TxId \cup {NoTx}
    BY DEF Types, SyncType, ChainRowType
  <2>2. QED
    BY <1>2, <2>1 DEF RowInv, AtRowOK
<1>5. ASSUME NEW w \in Worker PROVE JobOK(w)'
  <2>1. CASE worker'[w] = worker[w] /\ worker[w].pc = "judged"
    <3>0. PICK t \in TxId, h \in Hash : t = worker[w].tx /\ h = worker[w].hash
      BY <2>1 DEF RowInv, JobOK
    <3>1. t \in TxId /\ h \in Hash /\ tx[t].state # "none" /\ event'[h] = event[h]
      BY <2>1, <3>0 DEF RowInv, JobOK
    <3>2. tx'[t].state # "none"
      BY <1>2, <3>1
    <3>3. Paid(tx[t].amount) => Paid(tx[t].amount)'
      <4>1. tx'[t].amount = tx[t].amount \/ Paid(tx[t].amount)'
        BY <3>1 DEF Moves
      <4>2. QED
        BY <1>1, <4>1 DEF Paid
    <3>4. QED
      BY <2>1, <3>0, <3>1, <3>2, <3>3 DEF RowInv, JobOK
  <2>2. CASE worker'[w].pc # "judged"
    BY <2>2 DEF JobOK
  <2>3. QED
    BY <2>1, <2>2
<1>6. SettledWasPaid'
  <2>1. ASSUME NEW t \in TxId, tx'[t].state = "succeeded" PROVE Paid(tx[t].amount)'
    <3>1. CASE tx[t].state = "succeeded"
      <4>1. Paid(tx[t].amount)
        BY <3>1 DEF RowInv, SettledWasPaid, Paid
      <4>2. QED
        BY <1>1, <2>1, <3>1, <4>1 DEF Moves, Paid
    <3>2. CASE tx[t].state # "succeeded"
      BY <2>1, <3>2 DEF Moves
    <3>3. QED
      BY <3>1, <3>2
  <2>2. QED
    BY <2>1 DEF SettledWasPaid, Paid
<1>7. QED
  BY <1>3, <1>4, <1>5, <1>6 DEF RowInv

\* The log the sync is at was mined.
LEMMA AtMinedLog ==
  ASSUME Types, AtLog, SyncInv, sync.pc \in {"found", "event"}
  PROVE  sync.hash \in Hash /\ event[sync.hash].status = "mined"
<1>1. sync.hash \in Window
  BY DEF AtLog, SyncInv, SyncOK
<1>2. QED
  BY <1>1 DEF Window, Logs

LEMMA NextRowInv ==
  Types /\ AtLog /\ SyncInv /\ RowInv /\ [Next]_vars /\ Types' => RowInv'
<1> SUFFICES ASSUME Types, AtLog, SyncInv, RowInv, [Next]_vars, Types' PROVE RowInv'
  OBVIOUS
<1>a. \A t \in TxId : tx'[t] = tx[t] => Moves(t)
  BY DEF Moves, RowInv, LinksOK
<1>1. ASSUME NEW h \in Hash, NEW t \in PaysFor, NEW a \in Amount, Pay(h, t, a)
      PROVE  RowInv'
  <2>1. event[h].status = "none" /\ UNCHANGED <<tx, chainTx, worker, sync>>
    BY <1>1 DEF Pay, syncVars
  <2>2. \A g \in Hash : g # h => event'[g] = event[g]
    BY <1>1 DEF Pay, Types
  <2>3. QED
    BY <1>a, <2>1, <2>2, KeepRows
<1>2. CASE Mine
  <2>1. UNCHANGED <<tx, chainTx, worker, sync>>
    BY <1>2 DEF Mine, syncVars
  <2>2. \A g \in Hash : event[g].status # "sent" => event'[g] = event[g]
    BY <1>2 DEF Mine
  <2>3. QED
    BY <1>a, <2>1, <2>2, KeepRows
<1>3. CASE \/ LinkWallet \/ UNCHANGED vars
           \/ \E c \in Caller, h \in Hash, a \in Asked : Settle(c, h, a)
           \/ \E c \in Caller : Abort(c)
           \/ \E t \in TxId : GiveUp(t)
  <2>1. UNCHANGED <<tx, chainTx, event, worker, sync>>
    BY <1>3 DEF LinkWallet, Settle, Abort, GiveUp, vars, chainVars, syncVars
  <2>2. QED
    BY <1>a, <2>1, KeepRows
<1>4. ASSUME NEW t \in TxId, NEW a \in Asked, Draft(t, a)
      PROVE  RowInv'
  <2>1. UNCHANGED <<chainTx, event, worker, sync>> /\ tx \in [TxId -> RowType]
    BY <1>4 DEF Draft, chainVars, syncVars, Types
  <2>2. /\ tx[t].state = "none" /\ tx'[t].state = "pending"
        /\ \A u \in TxId : u # t => tx'[u] = tx[u]
    BY <1>4, <2>1 DEF Draft
  <2>3. \A u \in TxId : Moves(u)
    BY <1>a, <2>2 DEF Moves
  <2>4. QED
    BY <2>1, <2>3, KeepRows
<1>5. ASSUME NEW c \in Caller, Link(c)
      PROVE  RowInv'
  <2> DEFINE r == request[c]
  <2>1. PICK t \in RowFor(r.tx, r.hash) :
          /\ tx' = [tx EXCEPT ![t] =
               IF @.state = "none"
               THEN [state |-> "pending", amount |-> r.amount, hash |-> r.hash]
               ELSE [@ EXCEPT !.hash = r.hash]]
          /\ chainTx' = [chainTx EXCEPT ![r.hash] =
               [state |-> IF @.state = "none" THEN "pending" ELSE @.state, of |-> t]]
    BY <1>5 DEF Link
  <2>2. t \in TxId /\ UNCHANGED <<event, worker, sync>>
    BY <1>5 DEF RowFor, LinkedTo, FreeIds, Types, RequestType, Link, chainVars, syncVars
  <2>3. /\ \A u \in TxId : u # t => tx'[u] = tx[u]
        /\ tx[t].state = "none" => tx'[t].state = "pending"
        /\ tx[t].state # "none" => tx'[t].state = tx[t].state /\ tx'[t].amount = tx[t].amount
    BY <2>1, <2>2 DEF Types, RowType
  <2>4. \A u \in TxId : Moves(u)
    BY <1>a, <2>3 DEF Moves
  <2>5. \A h \in Hash : chainTx'[h].of \in {chainTx[h].of, t}
    BY <2>1 DEF Types, ChainRowType
  <2>6. QED
    BY <2>2, <2>3, <2>4, <2>5, KeepRows
<1>6. ASSUME NEW w \in Worker, NEW t \in TxId, Judge(w, t)
      PROVE  RowInv'
  <2> DEFINE h == tx[t].hash
             contract == IF wallet THEN "curation" ELSE "vault"
             verdict == Verdict(event[h], tx[t], contract)
  <2>1. /\ UNCHANGED <<tx, chainTx, event, sync>>
        /\ worker' = [worker EXCEPT ![w] =
             [pc |-> "judged", tx |-> t, hash |-> h, amount |-> tx[t].amount,
              contract |-> contract, verdict |-> verdict]]
        /\ h # NoHash /\ event[h].status \in {"mined", "reverted"}
    BY <1>6 DEF Judge, chainVars, syncVars
  <2>2. h \in Hash /\ tx[t].state # "none"
    BY <2>1 DEF Types, RowType, RowInv, LinksOK
  <2>3. \/ verdict = "failed" /\ event[h].status = "reverted"
        \/ /\ verdict = "canceled"
           /\ event[h].amount # tx[t].amount \/ event[h].contract # contract
        \/ /\ verdict = "succeeded" /\ event[h].status = "mined"
           /\ event[h].amount = tx[t].amount
    BY <2>1 DEF Verdict
  <2>4. /\ worker'[w].tx = t /\ worker'[w].hash = h /\ worker'[w].amount = tx[t].amount
        /\ worker'[w].contract = contract /\ worker'[w].verdict = verdict
        /\ \A v \in Worker : v # w => worker'[v] = worker[v]
    BY <2>1 DEF Types
  <2> HIDE DEF h, contract, verdict
  <2>5. JobOK(w)'
    BY <2>1, <2>2, <2>3, <2>4 DEF JobOK, Paid
  <2>6. QED
    BY <1>a, <2>1, <2>4, <2>5, KeepRows
<1>7. ASSUME NEW w \in Worker, Conclude(w)
      PROVE  RowInv'
  <2> DEFINE job == worker[w]
  <2>1. /\ UNCHANGED <<event, sync>> /\ job.pc = "judged"
        /\ tx' = [tx EXCEPT ![job.tx].state = job.verdict]
        /\ chainTx' = [chainTx EXCEPT ![job.hash].state =
                         IF job.verdict = "failed" THEN "reverted" ELSE "succeeded"]
        /\ worker' = [worker EXCEPT ![w] = NoJob]
    BY <1>7 DEF Conclude, chainVars, syncVars
  <2>2. PICK t \in TxId : t = job.tx
    BY <2>1 DEF RowInv, JobOK
  <2>3. /\ tx[t].state # "none"
        /\ \/ job.verdict = "succeeded" /\ Paid(tx[t].amount)
           \/ job.verdict \in {"failed", "canceled"}
    BY <2>1, <2>2 DEF RowInv, JobOK
  <2>4. /\ \A u \in TxId : u # t => tx'[u] = tx[u]
        /\ tx'[t].state = job.verdict /\ tx'[t].amount = tx[t].amount
    BY <2>1, <2>2 DEF Types, RowType
  <2>5. Moves(t)
    BY <2>1, <2>3, <2>4 DEF Moves, Paid
  <2>6. \A u \in TxId : Moves(u)
    BY <1>a, <2>4, <2>5
  <2>7. \A h \in Hash : chainTx'[h].of = chainTx[h].of
    BY <2>1 DEF Types, ChainRowType
  <2>8. \A v \in Worker : worker'[v] = worker[v] \/ worker'[v].pc # "judged"
    BY <2>1 DEF Types, NoJob
  <2>9. QED
    BY <2>1, <2>6, <2>7, <2>8, KeepRows
<1>8. ASSUME NEW w \in Worker, Die(w)
      PROVE  RowInv'
  <2>1. UNCHANGED <<tx, chainTx, event, sync>>
        /\ \A v \in Worker : worker'[v] = worker[v] \/ worker'[v].pc # "judged"
    BY <1>8 DEF Die, Types, NoJob, chainVars, syncVars
  <2>2. QED
    BY <1>a, <2>1, KeepRows
<1>9. ASSUME NEW t \in TxId, CancelTimeoutTransactions(t)
      PROVE  RowInv'
  <2>1. UNCHANGED <<chainTx, event, worker, sync>>
    BY <1>9 DEF CancelTimeoutTransactions, chainVars, syncVars
  <2>2. /\ \A u \in TxId : u # t => tx'[u] = tx[u]
        /\ tx[t].state = "pending" /\ tx'[t].state = "canceled" /\ tx'[t].amount = tx[t].amount
    BY <1>9 DEF CancelTimeoutTransactions, TimesOut, Types, RowType
  <2>3. \A u \in TxId : Moves(u)
    BY <1>a, <2>2 DEF Moves
  <2>4. QED
    BY <2>1, <2>3, KeepRows
<1>10. CASE StartSync \/ FailEvent \/ SaveEvents \/ Advance \/ StopSync
  <2>1. UNCHANGED <<tx, chainTx, event, worker>>
    BY <1>10 DEF StartSync, FailEvent, SaveEvents, Advance, StopSync, chainVars
  <2>2. sync'.pc \notin {"found", "event"}
    BY <1>10, VisitType, NextLogIs
       DEF StartSync, FailEvent, SaveEvents, Advance, StopSync, NoSync, Contract, Types, SyncType
  <2>3. QED
    BY <1>a, <2>1, <2>2, KeepRows DEF AtRowOK
<1>11. ASSUME NEW h \in Hash, TakeLog(h)
       PROVE  RowInv'
  <2>1. /\ UNCHANGED <<tx, event, worker>> /\ sync'.pc = "found" /\ sync'.row = chainTx'[h]
        /\ chainTx' = [chainTx EXCEPT ![h] =
             IF @.state = "none" THEN [state |-> "succeeded", of |-> NoTx] ELSE @]
    BY <1>11 DEF TakeLog, Types, SyncType, chainVars
  <2>2. \A g \in Hash : chainTx'[g].of \in {chainTx[g].of, NoTx}
    BY <2>1 DEF Types, ChainRowType
  <2>3. AtRowOK'
    BY <2>1, <2>2 DEF AtRowOK, RowInv, LinksOK
  <2>4. QED
    BY <1>a, <2>1, <2>2, <2>3, KeepRows
<1>12. CASE FindRow
  <2> DEFINE h == sync.hash
             found == IF Resolved(sync.row) THEN {} ELSE Candidates(h, sync.row)
  <2>1. /\ sync.pc = "found" /\ UNCHANGED <<event, worker>>
        /\ sync.row \in ChainRowType /\ h \in Hash /\ NoHash \notin Hash
    BY <1>12, AtMinedLog, ChainAssumption DEF FindRow, chainVars, Types, SyncType
  <2>2. CASE found = {}
    <3>1. UNCHANGED <<tx, chainTx>> /\ sync'.pc = "walk"
      BY <1>12, <2>2, NextLogIs DEF FindRow
    <3>2. QED
      BY <1>a, <2>1, <3>1, KeepRows DEF AtRowOK
  <2>3. CASE found # {}
    <3>1. PICK t \in found :
            /\ chainTx' = [chainTx EXCEPT ![h].of = t]
            /\ tx' = [tx EXCEPT ![t].hash = IF sync.row.of = NoTx THEN h ELSE @]
            /\ sync' \in {NextLog, [sync EXCEPT !.pc = "event", !.tx = t]}
      BY <1>12, <2>3 DEF FindRow
    <3>2. t \in TxId
      BY <2>1 DEF Candidates, LinkedTo, Drafts, ChainRowType
    <3>3. tx[t].state # "none"
      BY <2>1, <3>2 DEF Candidates, LinkedTo, Drafts, RowInv, LinksOK, AtRowOK
    <3>4. /\ \A u \in TxId : u # t => tx'[u] = tx[u]
          /\ tx'[t].state = tx[t].state /\ tx'[t].amount = tx[t].amount
      BY <3>1, <3>2 DEF Types, RowType
    <3>5. \A u \in TxId : Moves(u)
      BY <1>a, <3>3, <3>4 DEF Moves
    <3>6. \A g \in Hash : chainTx'[g].of \in {chainTx[g].of, t}
      BY <3>1 DEF Types, ChainRowType
    <3>7. \/ sync'.pc = "walk"
          \/ sync'.pc = "event" /\ sync'.tx = t /\ sync'.row = sync.row
      <4>1. CASE sync' = NextLog
        BY <4>1, NextLogIs
      <4>2. CASE sync' = [sync EXCEPT !.pc = "event", !.tx = t]
        BY <4>2 DEF Types, SyncType
      <4>3. QED
        BY <3>1, <4>1, <4>2
    <3>8. AtRowOK'
      BY <2>1, <3>2, <3>3, <3>4, <3>7 DEF AtRowOK, RowInv, ChainRowType
    <3>9. QED
      BY <2>1, <3>2, <3>3, <3>4, <3>5, <3>6, <3>8, KeepRows
  <2>4. QED
    BY <2>2, <2>3
<1>13. CASE Correct
  <2> DEFINE t == sync.tx
             h == sync.hash
  <2>1. /\ sync.pc = "event" /\ UNCHANGED <<chainTx, event, worker, sync>>
        /\ tx' = [tx EXCEPT ![t].amount = event[h].amount, ![t].hash = h]
    BY <1>13 DEF Correct, chainVars, syncVars
  <2>2. PICK u \in TxId : u = t /\ tx[u].state # "none"
    BY <2>1 DEF RowInv, AtRowOK
  <2>3. h \in Hash /\ event[h].status = "mined"
    BY <2>1, AtMinedLog
  <2>4. /\ \A v \in TxId : v # u => tx'[v] = tx[v]
        /\ tx'[u].state = tx[u].state /\ tx'[u].amount = event[h].amount
    BY <2>1, <2>2 DEF Types, RowType
  <2>5. Paid(tx[u].amount)'
    BY <2>1, <2>3, <2>4 DEF Paid
  <2>6. \A v \in TxId : Moves(v)
    BY <1>a, <2>2, <2>4, <2>5 DEF Moves
  <2>7. QED
    BY <2>1, <2>6, KeepRows
<1>14. CASE SettleEvent
  <2> DEFINE t == sync.tx
             h == sync.hash
  <2>1. /\ sync.pc = "event" /\ UNCHANGED <<event, worker>>
        /\ tx[t].amount = event[h].amount
        /\ tx' = [tx EXCEPT ![t].state = "succeeded"]
        /\ chainTx' = [chainTx EXCEPT ![h].state = "succeeded"]
        /\ sync'.pc = "walk"
    BY <1>14, NextLogIs DEF SettleEvent, chainVars
  <2>2. PICK u \in TxId : u = t /\ tx[u].state # "none"
    BY <2>1 DEF RowInv, AtRowOK
  <2>3. h \in Hash /\ event[h].status = "mined"
    BY <2>1, AtMinedLog
  <2>4. /\ \A v \in TxId : v # u => tx'[v] = tx[v]
        /\ tx'[u].state = "succeeded" /\ tx'[u].amount = tx[u].amount
    BY <2>1, <2>2 DEF Types, RowType
  <2>5. Paid(tx[u].amount)'
    BY <2>1, <2>2, <2>3, <2>4 DEF Paid
  <2>6. \A v \in TxId : Moves(v)
    BY <1>a, <2>2, <2>4, <2>5 DEF Moves
  <2>7. \A g \in Hash : chainTx'[g].of = chainTx[g].of
    BY <2>1 DEF Types, ChainRowType
  <2>8. QED
    BY <2>1, <2>6, <2>7, KeepRows DEF AtRowOK
<1>15. QED
  BY <1>1, <1>2, <1>3, <1>4, <1>5, <1>6, <1>7, <1>8, <1>9, <1>10, <1>11, <1>12, <1>13, <1>14
     DEF Next, SyncStep

-----------------------------------------------------------------------------
(* The theorems.                                                           *)

\* All that every state keeps.
IInv == Types /\ AtLog /\ SyncInv /\ RowInv

LEMMA InitIInv == Init => IInv
BY InitTypes, InitSync, InitRows DEF IInv

LEMMA NextIInv == IInv /\ [Next]_vars => IInv'
BY NextTypes, NextSyncInv, NextRowInv DEF IInv

LEMMA AlwaysIInv == Spec => []IInv
BY InitIInv, NextIInv, PTL DEF Spec

\* Of all steps only the end of a handler unsettles a row, and then its verdict
\* says what was wrong with what it saw.
LEMMA UnsettledStep == IInv /\ [Next]_vars => UnsettledOnlyOnOldView
<1> SUFFICES ASSUME IInv, [Next]_vars, NEW t \in TxId,
                    tx[t].state = "succeeded", tx'[t].state # "succeeded"
             PROVE  \E w \in Worker :
               /\ worker[w].pc = "judged" /\ worker[w].tx = t
               /\ \/ event[worker[w].hash].status = "reverted"
                  \/ event[worker[w].hash].amount # tx[t].amount
                  \/ worker[w].amount # tx[t].amount
                  \/ worker[w].contract # event[worker[w].hash].contract
  BY DEF UnsettledOnlyOnOldView
<1> USE DEF IInv
<1>0. tx \in [TxId -> RowType]
  BY DEF Types
<1>1. CASE UNCHANGED tx
  BY <1>1
<1>2. CASE \E u \in TxId, a \in Asked : Draft(u, a)
  BY <1>0, <1>2 DEF Draft
<1>3. CASE \E c \in Caller : Link(c)
  <2>0. PICK c \in Caller : Link(c)
    BY <1>3
  <2>1. PICK u \in RowFor(request[c].tx, request[c].hash) :
          tx' = [tx EXCEPT ![u] =
            IF @.state = "none"
            THEN [state |-> "pending", amount |-> request[c].amount,
                  hash |-> request[c].hash]
            ELSE [@ EXCEPT !.hash = request[c].hash]]
    BY <2>0 DEF Link
  <2>2. QED
    BY <1>0, <2>1 DEF RowType
<1>4. CASE FindRow
  <2>1. PICK u \in Candidates(sync.hash, sync.row) :
          tx' = [tx EXCEPT ![u].hash = IF sync.row.of = NoTx THEN sync.hash ELSE @]
    BY <1>4 DEF FindRow
  <2>2. QED
    BY <1>0, <2>1 DEF RowType
<1>5. CASE Correct
  BY <1>0, <1>5 DEF Correct, RowType
<1>6. CASE SettleEvent
  BY <1>0, <1>6 DEF SettleEvent, RowType
<1>7. CASE \E u \in TxId : CancelTimeoutTransactions(u)
  BY <1>0, <1>7 DEF CancelTimeoutTransactions, TimesOut, RowType
<1>8. ASSUME NEW w \in Worker, Conclude(w)
      PROVE  /\ worker[w].pc = "judged" /\ worker[w].tx = t
             /\ \/ event[worker[w].hash].status = "reverted"
                \/ event[worker[w].hash].amount # tx[t].amount
                \/ worker[w].amount # tx[t].amount
                \/ worker[w].contract # event[worker[w].hash].contract
  <2>1. /\ worker[w].pc = "judged"
        /\ tx' = [tx EXCEPT ![worker[w].tx].state = worker[w].verdict]
    BY <1>8 DEF Conclude
  <2>2. worker[w].tx = t /\ worker[w].verdict # "succeeded"
    BY <1>0, <2>1 DEF RowType
  <2>3. QED
    BY <2>1, <2>2 DEF RowInv, JobOK
<1>9. CASE UNCHANGED vars
  BY <1>9, <1>1 DEF vars
<1>10. CASE \/ \E h \in Hash, u \in PaysFor, a \in Amount : Pay(h, u, a)
            \/ Mine \/ LinkWallet
            \/ \E c \in Caller, h \in Hash, a \in Asked : Settle(c, h, a)
            \/ \E c \in Caller : Abort(c)
            \/ \E w \in Worker, u \in TxId : Judge(w, u)
            \/ \E w \in Worker : Die(w)
            \/ \E u \in TxId : GiveUp(u)
            \/ StartSync \/ \E h \in Hash : TakeLog(h)
            \/ SaveEvents \/ Advance \/ FailEvent \/ StopSync
  BY <1>10, <1>1 DEF Pay, Mine, LinkWallet, Settle, Abort, Judge, Die, GiveUp,
                     StartSync, TakeLog, SaveEvents, Advance, FailEvent, StopSync
<1>11. QED
  BY <1>2, <1>3, <1>4, <1>5, <1>6, <1>7, <1>8, <1>9, <1>10 DEF Next, SyncStep

\* Whatever the chain, the donors, the handlers, the sync and their failures do,
\* the tables and the steps under way keep their shape.
THEOREM TypeCorrect == Spec => []TypeOK
<1>1. IInv => TypeOK
  BY TypesAreTypeOK DEF IInv
<1>2. QED
  BY <1>1, AlwaysIInv, PTL

\* For any number of blocks, confirmations and events: the savepoint passes no
\* event that was not saved, and only a sync that died between saving its events
\* and moving its savepoint leaves one that can never pass
\* (_handleSyncCurationEvents).
THEOREM SyncTakesEverything == Spec => []SyncTakesAll
<1>1. IInv => SyncTakesAll
  BY SyncInvIsEnough DEF IInv
<1>2. QED
  BY <1>1, AlwaysIInv, PTL

\* For any number of payments, requests, handlers and amounts: a donation is
\* recorded as succeeded only when its amount was paid on the chain, and one that
\* was settled is unsettled only by a handler that judged an older view of it
\* (payToBlockchain and handleNewEvent over the same two tables).
THEOREM SettlementMatches == Spec => SettlementMatchesChain
<1>1. IInv /\ [Next]_vars => SettledWasPaid' /\ UnsettledOnlyOnOldView
  BY NextIInv, UnsettledStep DEF IInv, RowInv
<1>2. QED
  BY <1>1, AlwaysIInv, PTL DEF Spec, SettlementMatchesChain
=============================================================================
