----------------------------- MODULE WarmCache -----------------------------
(* A ranking in the object cache, recomputed in the background by whoever takes
   its warm lock (getObjectOrWarm and warm of connectors/cache/index.ts). *)
EXTENDS Naturals

CONSTANTS
  Reader,   \* requests at once
  MaxStops  \* warmers that stop

VARIABLES
  ranking,  \* the cached ranking is there
  lock,     \* who took the warm lock
  warmer,   \* per request: step of its background recompute
  expired,  \* the lock expired under a warmer still at work
  asked,    \* a request missed the ranking
  stops

warmVars == <<ranking, lock, warmer, expired, asked, stops>>

Nobody == "nobody"

Init ==
  /\ ranking = FALSE /\ lock = Nobody
  /\ warmer = [r \in Reader |-> "idle"]
  /\ expired = FALSE /\ asked = FALSE /\ stops = 0

ExpireRanking ==
  /\ ranking
  /\ ranking' = FALSE
  /\ UNCHANGED <<lock, warmer, expired, asked, stops>>

MayWarm_WithoutNX == TRUE

\* SET ... NX
MayWarm == lock = Nobody

\* getObjectOrWarm, on a miss: whoever gets the lock warms in the background.
AskRanking(r) ==
  /\ ~ranking /\ warmer[r] = "idle"
  /\ asked' = TRUE
  /\ IF MayWarm
       THEN lock' = r /\ warmer' = [warmer EXCEPT ![r] = "look"]
       ELSE UNCHANGED <<lock, warmer>>
  /\ UNCHANGED <<ranking, expired, stops>>

\* warm looks again: another writer may have filled the key.
LookAgain(r) ==
  /\ warmer[r] = "look"
  /\ warmer' = [warmer EXCEPT ![r] = IF ranking THEN "release" ELSE "compute"]
  /\ UNCHANGED <<ranking, lock, expired, asked, stops>>

\* The getter, which may fail silently, and the store
Compute(r) ==
  /\ warmer[r] = "compute"
  /\ warmer' = [warmer EXCEPT ![r] = "release"]
  /\ \/ ranking' = TRUE /\ asked' = FALSE
     \/ UNCHANGED <<ranking, asked>>
  /\ UNCHANGED <<lock, expired, stops>>

\* The lock is deleted, whoever holds it by now.
Release(r) ==
  /\ warmer[r] = "release"
  /\ warmer' = [warmer EXCEPT ![r] = "idle"]
  /\ lock' = Nobody
  /\ UNCHANGED <<ranking, expired, asked, stops>>

\* The server stops while it warms.
StopWarmer(r) ==
  /\ warmer[r] # "idle" /\ stops < MaxStops
  /\ stops' = stops + 1
  /\ warmer' = [warmer EXCEPT ![r] = "idle"]
  /\ UNCHANGED <<ranking, lock, expired, asked>>

LockTimesOut_Never == FALSE

\* "EX 300"
LockTimesOut == lock # Nobody

ExpireLock ==
  /\ LockTimesOut
  /\ lock' = Nobody
  /\ expired' = (expired \/ \E r \in Reader : warmer[r] # "idle")
  /\ UNCHANGED <<ranking, warmer, asked, stops>>

Next ==
  \/ ExpireRanking \/ ExpireLock
  \/ \E r \in Reader :
       AskRanking(r) \/ LookAgain(r) \/ Compute(r) \/ Release(r) \/ StopWarmer(r)

\* Readers keep coming, and the getter succeeds if it is tried again and again.
Fairness ==
  /\ WF_warmVars(ExpireLock)
  /\ \A r \in Reader :
       /\ WF_warmVars(LookAgain(r)) /\ WF_warmVars(Compute(r)) /\ WF_warmVars(Release(r))
       /\ SF_warmVars(AskRanking(r) /\ MayWarm)
       /\ SF_warmVars(Compute(r) /\ ranking')

Spec == Init /\ [][Next]_warmVars /\ Fairness

-----------------------------------------------------------------------------
(* Steps are those of the code, and whoever warms holds the lock until it expires. *)
TypeOK ==
  /\ \A r \in Reader : warmer[r] \in {"idle", "look", "compute", "release"}
  /\ lock \in Reader \cup {Nobody}
  /\ \A r \in Reader : ~expired /\ warmer[r] # "idle" => lock = r

(* One request alone recomputes a ranking (cache/index.ts:124-155), unless the
   lock expired under it. *)
SingleFlight ==
  ~expired =>
    \A r, o \in Reader : warmer[r] # "idle" /\ warmer[o] # "idle" => r = o

(* A ranking somebody asked for is there in the end, though a warmer may stop
   with the lock in its hands. *)
RankingIsWarmed == asked ~> ranking
=============================================================================
