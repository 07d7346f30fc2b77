----------------------------- MODULE RateCache -----------------------------
(* An exchange rate in the object cache (connectors/exchangeRate/index.ts over
   getObject and storeObject of connectors/cache/index.ts).

   A request that misses fetches the rate and stores it; a job fetches all rates
   and stores them one by one.  Fetch and store are far apart.  A rate is the time
   the source changed it last. *)
EXTENDS Naturals

CONSTANTS
  Reader,   \* requests at once
  Job,      \* the scheduled job
  MaxTime   \* how often the source changes

VARIABLES
  now,      \* the rate at the source
  rate,     \* the cached rate, 0 if none
  reader,   \* per request and for the job: step and what it holds
  outrun    \* the last store came from a fetch that another store outran

rateVars == <<now, rate, reader, outrun>>

Off == [step |-> "idle", holds |-> 0, fetched |-> FALSE, passed |-> FALSE]

Init ==
  /\ now = 1 /\ rate = 0
  /\ reader = [r \in Reader \cup {Job} |-> Off]
  /\ outrun = FALSE

\* The source's last_updated_at never goes back.
Source ==
  /\ now < MaxTime
  /\ now' = now + 1
  /\ UNCHANGED <<rate, reader, outrun>>

ExpireRate ==
  /\ rate # 0
  /\ rate' = 0
  /\ UNCHANGED <<now, reader, outrun>>

AfterRead_StoresAgain(v) == IF v = 0 THEN [Off EXCEPT !.step = "fetch"]
                            ELSE [Off EXCEPT !.step = "store", !.holds = v]

\* getObject: a hit is returned, a miss goes on to the getter.
AfterRead(v) == IF v = 0 THEN [Off EXCEPT !.step = "fetch"] ELSE Off

GetRate(r) ==
  /\ reader[r] = Off
  /\ reader' = [reader EXCEPT ![r] = AfterRead(rate)]
  /\ UNCHANGED <<now, rate, outrun>>

\* updateTokenRates, updateFiatRates: the job fetches without a look.
StartJob ==
  /\ reader[Job] = Off
  /\ reader' = [reader EXCEPT ![Job].step = "fetch"]
  /\ UNCHANGED <<now, rate, outrun>>

\* fetchRate, or nothing if the source fails
Fetch(r) ==
  /\ reader[r].step = "fetch"
  /\ \/ reader' = [reader EXCEPT ![r] = [Off EXCEPT !.step = "store", !.holds = now,
                                                   !.fetched = TRUE]]
     \/ reader' = [reader EXCEPT ![r] = Off]
  /\ UNCHANGED <<now, rate, outrun>>

StoreRate(r) ==
  /\ reader[r].step = "store"
  /\ rate' = reader[r].holds
  /\ outrun' = reader[r].passed
  /\ reader' = [o \in DOMAIN reader |->
       IF o = r THEN Off ELSE [reader[o] EXCEPT !.passed = reader[o].fetched]]
  /\ UNCHANGED <<now>>

------------------------------------------------------------------

Next ==
  \/ Source \/ ExpireRate \/ StartJob
  \/ \E r \in Reader : GetRate(r)
  \/ \E r \in Reader \cup {Job} : Fetch(r) \/ StoreRate(r)

Spec == Init /\ [][Next]_rateVars

-----------------------------------------------------------------------------
(* Steps are those of the code, and a rate is one the source had. *)
TypeOK ==
  /\ rate \in 0..now
  /\ \A r \in DOMAIN reader : /\ reader[r].step \in {"idle", "fetch", "store"}
                              /\ reader[r].holds \in 0..now

(* A cached rate is replaced by an older one only by a writer that fetched before
   another one stored (cache/index.ts:74-122, exchangeRate/index.ts:104-112). *)
RateGoesBackOnlyOutrun ==
  [ rate # 0 /\ rate' # 0 /\ rate' < rate => outrun' ]_rateVars
=============================================================================
