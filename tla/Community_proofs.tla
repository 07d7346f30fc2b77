-------------------------- MODULE Community_proofs --------------------------
(* The community's parts one by one: staff decisions stand, payments match their
   providers, and channels, collections and profiles stay within their limits,
   for any number of requests, circles, channels, reasons, articles and works.

   Each part has an inductive invariant of its own, XInv, shown by a lemma per
   action; the last section puts them together for Community.  *)
EXTENDS Community, Sequences, FiniteSetTheorems, TLAPS

\* Cardinality, as the part of reposts of likes has it, is that of FiniteSets.
LEMMA LikeCounts == \A S : Like!Cardinality(S) = Cardinality(S)
BY Zenon DEF Like!Cardinality, Cardinality

\* Cardinality, as the part of removals of comments has it, is that of FiniteSets.
LEMMA WatchCounts == \A S : Watch!Cardinality(S) = Cardinality(S)
BY Zenon DEF Watch!Cardinality, Cardinality

\* Cardinality, as the part of subscriptions has it, is that of FiniteSets.
LEMMA SubCounts == \A S : Sub!Cardinality(S) = Cardinality(S)
BY Zenon DEF Sub!Cardinality, Cardinality

\* Cardinality, as the part of withdrawals has it, is that of FiniteSets.
LEMMA VaultCounts == \A S : Vault!Cardinality(S) = Cardinality(S)
BY Zenon DEF Vault!Cardinality, Cardinality

\* Cardinality, as the part of pinned works has it, is that of FiniteSets.
LEMMA PinnedWorkCounts == \A S : Work!Cardinality(S) = Cardinality(S)
BY Zenon DEF Work!Cardinality, Cardinality

\* Cardinality, as the part of pinned articles has it, is that of FiniteSets.
LEMMA PinCounts == \A S : Pin!Cardinality(S) = Cardinality(S)
BY Zenon DEF Pin!Cardinality, Cardinality

\* Cardinality, as the part of collections has it, is that of FiniteSets.
LEMMA CollCounts == \A S : Coll!Cardinality(S) = Cardinality(S)
BY Zenon DEF Coll!Cardinality, Cardinality

-----------------------------------------------------------------------------
(* ArticleChannel: the classifier, staff and the author on one article.      *)

ChannelRow == [on: BOOLEAN, labeled: BOOLEAN, there: BOOLEAN]
Verdict == {"none", "accepted", "rejected", "resolved"}
ChannelTask ==
  [step: {"idle", "diff", "add", "drop", "close", "try", "labels"}, auto: BOOLEAN,
   verdict: Verdict, want: SUBSET Channel, add: SUBSET Channel, drop: SUBSET Channel,
   labels: SUBSET Channel, late: BOOLEAN]

ChanTypes ==
  /\ rows \in [Channel -> ChannelRow]
  /\ \A c \in Channel : rows[c].there \/ rows[c] = Chan!NoRow
  /\ jobs \in Seq({"processing", "finished", "error"})
  /\ sync \in [job: Nat, state: {"none", "asked", "processing", "finished", "error"}]
  /\ IF sync.state = "none" THEN sync.job = 0 ELSE sync.job \in 1..Len(jobs)
  /\ feedback \in [state: {"none", "positive", "pending"} \cup Verdict, ids: SUBSET Channel]
  /\ task \in [Request -> ChannelTask]

(* An automatic resolution drops none of the labels it read, and knows when a
   verdict was written after it found the feedback pending. *)
ResolutionsKnow ==
  \A t \in Request :
    /\ task[t].auto /\ task[t].step = "diff" => task[t].labels \subseteq task[t].want
    /\ task[t].auto /\ task[t].step \in {"add", "drop"} => task[t].drop \cap task[t].labels = {}
    /\ task[t].verdict = "resolved" => task[t].auto
    /\ task[t].auto /\ feedback.state \in {"accepted", "rejected"} => task[t].late

ChanInv == ChanTypes /\ ResolutionsKnow

\* Nothing was classified at first.
LEMMA ChanInit == Chan!Init => ChanInv
  BY DEF Chan!Init, ChanInv, ChanTypes, ResolutionsKnow, ChannelRow, ChannelTask, Verdict,
         Chan!NoRow, Chan!NoSync, Chan!NoFeedback, Chan!Idle

\* The classifier and its job.
LEMMA ChanClassifies ==
  ASSUME ChanInv,
         Chan!Classify \/ Chan!Retry \/ Chan!ReadJob \/ Chan!StoreResult \/ Chan!SetJobState
           \/ Chan!SyncStops
  PROVE  ChanInv' /\ Chan!LabelsStand
<1>1. /\ UNCHANGED <<feedback, task>>
      /\ rows' \in [Channel -> ChannelRow] /\ \A c \in Channel : rows'[c].there \/ rows'[c] = Chan!NoRow
      /\ \A c \in Channel : rows[c].labeled => rows'[c] = rows[c]
  <2>1. UNCHANGED <<feedback, task>>
    BY DEF Chan!Classify, Chan!Retry, Chan!ReadJob, Chan!StoreResult, Chan!SetJobState,
           Chan!SyncStops
  <2>2. \A scored \in SUBSET Channel :
          /\ Chan!Scored(scored) \in [Channel -> ChannelRow]
          /\ \A c \in Channel : /\ Chan!Scored(scored)[c].there \/ Chan!Scored(scored)[c] = Chan!NoRow
                                /\ rows[c].labeled => Chan!Scored(scored)[c] = rows[c]
    BY DEF ChanInv, ChanTypes, ChannelRow, Chan!Scored, Chan!Row, Chan!NoRow
  <2>3. rows' = rows \/ \E scored \in SUBSET Channel : rows' = Chan!Scored(scored)
    BY DEF Chan!Classify, Chan!Retry, Chan!ReadJob, Chan!StoreResult, Chan!SetJobState,
           Chan!SyncStops
  <2> QED
    BY <2>1, <2>2, <2>3 DEF ChanInv, ChanTypes
<1>2. /\ jobs' \in Seq({"processing", "finished", "error"})
      /\ sync' \in [job: Nat, state: {"none", "asked", "processing", "finished", "error"}]
      /\ IF sync'.state = "none" THEN sync'.job = 0 ELSE sync'.job \in 1..Len(jobs')
  <2> USE DEF ChanInv, ChanTypes
  <2>1. CASE Chan!Classify
    <3>1. jobs = <<>> /\ jobs' \in {<<"processing">>, <<"error">>} /\ sync' = sync
      BY <2>1 DEF Chan!Classify
    <3>a. <<"processing">> \in Seq({"processing", "finished", "error"})
      OBVIOUS
    <3>b. <<"error">> \in Seq({"processing", "finished", "error"})
      OBVIOUS
    <3>2. jobs' \in Seq({"processing", "finished", "error"})
      BY <3>1, <3>a, <3>b
    <3>3. sync.state = "none" /\ sync.job = 0
      BY <3>1
    <3> QED
      BY <3>1, <3>2, <3>3
  <2>2. CASE Chan!Retry
    <3>1. jobs' = Append(jobs, "processing") /\ sync' = sync
      BY <2>2 DEF Chan!Retry
    <3>2. jobs' \in Seq({"processing", "finished", "error"}) /\ Len(jobs') = Len(jobs) + 1
      BY <3>1
    <3>3. Len(jobs) \in Nat
      OBVIOUS
    <3>4. sync.job \in 1..Len(jobs) => sync.job \in 1..Len(jobs')
      BY <3>2, <3>3
    <3>5. sync' \in [job: Nat, state: {"none", "asked", "processing", "finished", "error"}]
      BY <3>1
    <3>6. IF sync.state = "none" THEN sync.job = 0 ELSE sync.job \in 1..Len(jobs)
      OBVIOUS
    <3>7. IF sync'.state = "none" THEN sync'.job = 0 ELSE sync'.job \in 1..Len(jobs')
      BY <3>1, <3>4, <3>6
    <3> QED
      BY <3>2, <3>5, <3>7
  <2>3. CASE Chan!ReadJob
    <3>1. jobs # <<>> /\ jobs' = jobs /\ sync' = [job |-> Len(jobs), state |-> "asked"]
      BY <2>3 DEF Chan!ReadJob, Chan!Latest
    <3>2. Len(jobs) \in Nat /\ Len(jobs) # 0
      BY <3>1
    <3> QED
      BY <3>1, <3>2
  <2>4. CASE Chan!StoreResult
    <3>1. jobs' = jobs /\ sync.state = "asked"
          /\ sync' \in {[sync EXCEPT !.state = x] : x \in {"finished", "processing", "error"}}
      BY <2>4 DEF Chan!StoreResult
    <3>2. sync.job \in 1..Len(jobs')
      BY <3>1
    <3>3. sync' \in [job: Nat, state: {"none", "asked", "processing", "finished", "error"}]
          /\ sync'.state # "none" /\ sync'.job = sync.job
      BY <3>1
    <3> QED
      BY <3>1, <3>2, <3>3
  <2>5. CASE Chan!SetJobState
    <3>1. /\ jobs' = [jobs EXCEPT ![sync.job] = sync.state] /\ sync' = Chan!NoSync
          /\ sync.state \in {"processing", "finished", "error"}
      BY <2>5 DEF Chan!SetJobState
    <3>2. jobs' \in Seq({"processing", "finished", "error"})
      BY <3>1
    <3>3. sync' = [job |-> 0, state |-> "none"]
      BY <3>1 DEF Chan!NoSync
    <3> QED
      BY <3>2, <3>3
  <2>6. CASE Chan!SyncStops
    BY <2>6 DEF Chan!SyncStops, Chan!NoSync
  <2> QED
    BY <2>1, <2>2, <2>3, <2>4, <2>5, <2>6
<1>3. ChanInv'
  BY <1>1, <1>2 DEF ChanInv, ChanTypes, ResolutionsKnow
<1> QED
  BY <1>1, <1>3 DEF Chan!LabelsStand

\* What a request learns and wants keeps its type.
LEMMA ChanAfter ==
  ASSUME NEW r \in ChannelTask
  PROVE  /\ Chan!After(r) \in ChannelTask /\ Chan!After(r).step \in {"close", "try"}
         /\ Chan!After(r).auto => r.auto /\ Chan!After(r).late = r.late
         /\ Chan!After(r).verdict = "resolved" => r.verdict = "resolved" /\ (r.auto => Chan!After(r).auto)
  BY DEF Chan!After, Chan!Idle, ChannelTask, Verdict

\* One request goes on, and the feedback is none that staff decided on.
LEMMA ChanProceeds ==
  ASSUME ChanInv, NEW t \in Request, NEW next \in ChannelTask,
         task' = [task EXCEPT ![t] = next], next # task[t],
         UNCHANGED <<jobs, sync>>,
         feedback' \in [state: {"none", "positive", "pending"} \cup Verdict, ids: SUBSET Channel],
         feedback' = feedback \/ feedback'.state \notin {"accepted", "rejected"},
         rows' \in [Channel -> ChannelRow],
         \A c \in Channel : rows'[c].there \/ rows'[c] = Chan!NoRow,
         next.auto /\ next.step = "diff" => next.labels \subseteq next.want,
         next.auto /\ next.step \in {"add", "drop"} => next.drop \cap next.labels = {},
         next.verdict = "resolved" => next.auto,
         next.auto /\ feedback'.state \in {"accepted", "rejected"} => next.late
  PROVE  ChanInv' /\ Chan!LabelsStand
<1>1. task'[t] = next /\ \A x \in Request : x # t => task'[x] = task[x]
  BY DEF ChanInv, ChanTypes
<1>2. ChanTypes'
  BY DEF ChanInv, ChanTypes
<1>3. ResolutionsKnow'
  BY <1>1 DEF ChanInv, ResolutionsKnow
<1> QED
  BY <1>1, <1>2, <1>3 DEF ChanInv, Chan!LabelsStand

\* A request begins: what it is to do is not automatic.
LEMMA ChanBegins ==
  ASSUME ChanInv, NEW t \in Request, NEW ids \in SUBSET Channel,
         NEW s \in {"pending", "positive"}, NEW v \in {"accepted", "rejected"},
         Chan!AskSet(t, ids) \/ Chan!GiveFeedback(t, ids, s) \/ Chan!AskReview(t, v)
  PROVE  ChanInv' /\ Chan!LabelsStand
<1>1. PICK next \in ChannelTask :
        /\ task' = [task EXCEPT ![t] = next] /\ UNCHANGED <<rows, jobs, sync>>
        /\ ~next.auto /\ next.verdict # "resolved"
  <2>1. CASE Chan!AskSet(t, ids)
    <3> DEFINE next == [Chan!Idle EXCEPT !.step = "diff", !.want = ids]
    <3>1. next \in ChannelTask /\ ~next.auto /\ next.verdict # "resolved"
      BY DEF Chan!Idle, ChannelTask, Verdict
    <3>2. task' = [task EXCEPT ![t] = next] /\ UNCHANGED <<rows, jobs, sync>>
      BY <2>1 DEF Chan!AskSet, Chan!Begin
    <3> HIDE DEF next
    <3> QED
      BY <3>1, <3>2
  <2>2. CASE Chan!GiveFeedback(t, ids, s)
    <3> DEFINE next == [Chan!Idle EXCEPT !.step = IF s = "pending" THEN "try" ELSE "idle"]
    <3>1. next \in ChannelTask /\ ~next.auto /\ next.verdict # "resolved"
      BY DEF Chan!Idle, ChannelTask, Verdict
    <3>2. task' = [task EXCEPT ![t] = next] /\ UNCHANGED <<rows, jobs, sync>>
      BY <2>2 DEF Chan!GiveFeedback, Chan!Begin
    <3> HIDE DEF next
    <3> QED
      BY <3>1, <3>2
  <2>3. CASE Chan!AskReview(t, v)
    <3> DEFINE next == [Chan!Idle EXCEPT !.verdict = v,
                         !.step = IF v = "accepted" THEN "diff" ELSE "close",
                         !.want = IF v = "accepted" THEN feedback.ids ELSE {}]
    <3>0. feedback.ids \in SUBSET Channel
      BY DEF ChanInv, ChanTypes
    <3>1. next \in ChannelTask /\ ~next.auto /\ next.verdict # "resolved"
      BY <3>0 DEF Chan!Idle, ChannelTask, Verdict
    <3>2. task' = [task EXCEPT ![t] = next] /\ UNCHANGED <<rows, jobs, sync>>
      BY <2>3 DEF Chan!AskReview, Chan!Begin
    <3> HIDE DEF next
    <3> QED
      BY <3>1, <3>2
  <2> QED
    BY <2>1, <2>2, <2>3
<1>2. /\ feedback' \in [state: {"none", "positive", "pending"} \cup Verdict, ids: SUBSET Channel]
      /\ feedback' = feedback \/ feedback'.state \notin {"accepted", "rejected"}
  BY DEF ChanInv, ChanTypes, Chan!AskSet, Chan!GiveFeedback, Chan!AskReview
<1>3. task' \in [Request -> ChannelTask] /\ task'[t] = next
      /\ \A x \in Request : x # t => task'[x] = task[x]
  BY <1>1 DEF ChanInv, ChanTypes
<1>4. ChanTypes'
  BY <1>1, <1>2, <1>3 DEF ChanInv, ChanTypes
<1>5. ResolutionsKnow'
  BY <1>1, <1>2, <1>3 DEF ChanInv, ResolutionsKnow
<1> QED
  BY <1>1, <1>4, <1>5 DEF ChanInv, Chan!LabelsStand

\* The difference of what is wanted and what is there.
LEMMA ChanDiff ==
  ASSUME ChanInv, NEW t \in Request, Chan!Diff(t)
  PROVE  ChanInv' /\ Chan!LabelsStand
<1> DEFINE add == task[t].want \ Chan!Enabled
           drop == Chan!Enabled \ task[t].want
           r == [task[t] EXCEPT !.want = {}, !.add = add, !.drop = drop]
           next == CASE add # {} -> [r EXCEPT !.step = "add"]
                     [] add = {} /\ drop # {} -> [r EXCEPT !.step = "drop"]
                     [] OTHER -> Chan!After(r)
<1>1. /\ task[t].step = "diff" /\ task' = [task EXCEPT ![t] = next]
      /\ UNCHANGED <<rows, jobs, sync, feedback>>
  BY DEF Chan!Diff
<1>2. task[t] \in ChannelTask /\ (task[t].auto => task[t].labels \subseteq task[t].want)
      /\ (task[t].verdict = "resolved" => task[t].auto)
      /\ (task[t].auto /\ feedback.state \in {"accepted", "rejected"} => task[t].late)
  BY <1>1 DEF ChanInv, ChanTypes, ResolutionsKnow
<1>3. add \in SUBSET Channel /\ drop \in SUBSET Channel
  BY <1>2 DEF Chan!Enabled, ChannelTask
<1>4. task[t].auto => drop \cap task[t].labels = {}
  BY <1>2
<1> HIDE DEF add, drop
<1>5. r \in ChannelTask /\ r.auto = task[t].auto /\ r.verdict = task[t].verdict /\ r.late = task[t].late
      /\ r.drop = drop /\ r.labels = task[t].labels
  BY <1>2, <1>3 DEF ChannelTask
<1> HIDE DEF r
<1>6. \/ next \in {[r EXCEPT !.step = "add"], [r EXCEPT !.step = "drop"]}
      \/ next = Chan!After(r)
  OBVIOUS
<1> HIDE DEF next
<1>7. CASE next \in {[r EXCEPT !.step = "add"], [r EXCEPT !.step = "drop"]}
  <2>1. next \in ChannelTask /\ next.step \in {"add", "drop"} /\ next.auto = task[t].auto
        /\ next.verdict = task[t].verdict /\ next.late = task[t].late /\ next.drop = drop
        /\ next.labels = task[t].labels
    BY <1>5, <1>7 DEF ChannelTask
  <2> QED
    BY <1>1, <1>2, <1>4, <2>1, ChanProceeds DEF ChanInv, ChanTypes
<1>8. CASE next = Chan!After(r)
  <2>1. next \in ChannelTask /\ next.step \in {"close", "try"}
         /\ (next.auto => r.auto /\ next.late = r.late)
         /\ (next.verdict = "resolved" => r.verdict = "resolved" /\ (r.auto => next.auto))
    BY <1>5, <1>8, ChanAfter
  <2> QED
    BY <1>1, <1>2, <1>5, <2>1, ChanProceeds DEF ChanInv, ChanTypes
<1> QED
  BY <1>6, <1>7, <1>8

\* Rows are switched on.
LEMMA ChanAdd ==
  ASSUME ChanInv, NEW t \in Request, Chan!AddRows(t)
  PROVE  ChanInv' /\ Chan!LabelsStand
<1> DEFINE r == [task[t] EXCEPT !.add = {}]
           next == IF r.drop # {} THEN [r EXCEPT !.step = "drop"] ELSE Chan!After(r)
<1>1. /\ task[t].step = "add" /\ task' = [task EXCEPT ![t] = next]
      /\ UNCHANGED <<jobs, sync, feedback>>
      /\ rows' = [c \in Channel |->
               IF c \in task[t].add
                 THEN Chan!Row(TRUE, ~task[t].auto \/ rows[c].labeled) ELSE rows[c]]
  BY DEF Chan!AddRows
<1>2. task[t] \in ChannelTask /\ (task[t].auto => task[t].drop \cap task[t].labels = {})
      /\ (task[t].verdict = "resolved" => task[t].auto)
      /\ (task[t].auto /\ feedback.state \in {"accepted", "rejected"} => task[t].late)
  BY <1>1 DEF ChanInv, ChanTypes, ResolutionsKnow
<1>3. rows' \in [Channel -> ChannelRow] /\ \A c \in Channel : rows'[c].there \/ rows'[c] = Chan!NoRow
  BY <1>1, <1>2 DEF ChanInv, ChanTypes, ChannelRow, ChannelTask, Chan!Row
<1>5. r \in ChannelTask /\ r.auto = task[t].auto /\ r.verdict = task[t].verdict /\ r.late = task[t].late
      /\ r.drop = task[t].drop /\ r.labels = task[t].labels
  BY <1>2 DEF ChannelTask
<1> HIDE DEF r
<1>6. next = [r EXCEPT !.step = "drop"] \/ next = Chan!After(r)
  OBVIOUS
<1> HIDE DEF next
<1>7. CASE next = [r EXCEPT !.step = "drop"]
  <2>1. next \in ChannelTask /\ next.step = "drop" /\ next.auto = task[t].auto
        /\ next.verdict = task[t].verdict /\ next.late = task[t].late /\ next.drop = task[t].drop
        /\ next.labels = task[t].labels
    BY <1>5, <1>7 DEF ChannelTask
  <2> QED
    BY <1>1, <1>2, <1>3, <2>1, ChanProceeds DEF ChanInv, ChanTypes
<1>8. CASE next = Chan!After(r)
  <2>1. next \in ChannelTask /\ next.step \in {"close", "try"}
         /\ (next.auto => r.auto /\ next.late = r.late)
         /\ (next.verdict = "resolved" => r.verdict = "resolved" /\ (r.auto => next.auto))
    BY <1>5, <1>8, ChanAfter
  <2> QED
    BY <1>1, <1>2, <1>3, <1>5, <2>1, ChanProceeds DEF ChanInv, ChanTypes
<1> QED
  BY <1>6, <1>7, <1>8

\* Rows are switched off, labeled ones by staff only.
LEMMA ChanDrop ==
  ASSUME ChanInv, NEW t \in Request, Chan!DropRows(t)
  PROVE  ChanInv' /\ Chan!LabelsStand /\ Chan!AutoKeepsLabels
<1> DEFINE next == Chan!After(task[t])
<1>1. /\ task[t].step = "drop" /\ task' = [task EXCEPT ![t] = next]
      /\ UNCHANGED <<jobs, sync, feedback>>
      /\ rows' = [c \in Channel |->
               IF c \in task[t].drop /\ rows[c].there
                 THEN Chan!Row(FALSE, ~task[t].auto \/ rows[c].labeled) ELSE rows[c]]
  BY DEF Chan!DropRows
<1>2. task[t] \in ChannelTask /\ (task[t].auto => task[t].drop \cap task[t].labels = {})
      /\ (task[t].verdict = "resolved" => task[t].auto)
      /\ (task[t].auto /\ feedback.state \in {"accepted", "rejected"} => task[t].late)
  BY <1>1 DEF ChanInv, ChanTypes, ResolutionsKnow
<1>3. rows' \in [Channel -> ChannelRow] /\ \A c \in Channel : rows'[c].there \/ rows'[c] = Chan!NoRow
  BY <1>1, <1>2 DEF ChanInv, ChanTypes, ChannelRow, ChannelTask, Chan!Row
<1>4. next \in ChannelTask /\ next.step \in {"close", "try"}
       /\ (next.auto => task[t].auto /\ next.late = task[t].late)
       /\ (next.verdict = "resolved" => task[t].verdict = "resolved" /\ (task[t].auto => next.auto))
  BY <1>2, ChanAfter
<1> HIDE DEF next
<1>5. ChanInv' /\ Chan!LabelsStand
  BY <1>1, <1>2, <1>3, <1>4, ChanProceeds DEF ChanInv, ChanTypes
<1>6. \A x \in Request : x # t => task'[x] = task[x]
  BY <1>1 DEF ChanInv, ChanTypes
<1>7. \A c \in Channel : rows[c].on /\ ~rows'[c].on => c \in task[t].drop
  BY <1>1
<1>8. Chan!AutoKeepsLabels
  <2> SUFFICES ASSUME NEW x \in Request, NEW c \in Channel, task[x].step = "drop", task[x].auto,
                      c \in Chan!Labeled, task'[x].step = "close", ~rows'[c].on
               PROVE  c \notin task[x].labels
    BY DEF Chan!AutoKeepsLabels
  <2>1. x = t
    BY <1>6
  <2> QED
    BY <1>2, <1>7, <2>1 DEF Chan!Labeled
<1> QED
  BY <1>5, <1>8

\* A resolution wants at least the labels it read.
LEMMA ChanResolves ==
  ASSUME ChanInv, NEW t \in Request,
         Chan!TryResolve(t) \/ Chan!ReadLabels(t) \/ Chan!TaskStops(t)
  PROVE  ChanInv' /\ Chan!LabelsStand
<1>1. task[t] \in ChannelTask /\ feedback.ids \in SUBSET Channel
      /\ (task[t].verdict = "resolved" => task[t].auto)
      /\ (task[t].auto /\ feedback.state \in {"accepted", "rejected"} => task[t].late)
  BY DEF ChanInv, ChanTypes, ResolutionsKnow
<1>2. UNCHANGED <<rows, jobs, sync, feedback>>
  BY DEF Chan!TryResolve, Chan!ReadLabels, Chan!TaskStops
<1>3. Chan!Idle \in ChannelTask /\ Chan!Idle.step = "idle" /\ ~Chan!Idle.auto
      /\ Chan!Idle.verdict # "resolved"
  BY DEF Chan!Idle, ChannelTask, Verdict
<1>4. CASE task' = [task EXCEPT ![t] = Chan!Idle] /\ task[t].step # "idle"
  BY <1>2, <1>3, <1>4, ChanProceeds DEF ChanInv, ChanTypes
<1>5. CASE Chan!TryResolve(t) /\ Chan!MayResolve
  <2> DEFINE next == [Chan!Idle EXCEPT !.step = "labels", !.auto = TRUE, !.verdict = "resolved",
                                       !.want = feedback.ids]
  <2>1. /\ task' = [task EXCEPT ![t] = next] /\ task[t].step = "try" /\ feedback.state = "pending"
    BY <1>5 DEF Chan!TryResolve, Chan!MayResolve
  <2>2. next \in ChannelTask /\ next.step = "labels" /\ next.auto
    BY <1>1 DEF Chan!Idle, ChannelTask, Verdict
  <2> HIDE DEF next
  <2> QED
    BY <1>2, <2>1, <2>2, ChanProceeds DEF ChanInv, ChanTypes
<1>6. CASE Chan!ReadLabels(t)
  <2> DEFINE next == [task[t] EXCEPT !.step = "diff", !.want = Chan!Target(task[t]),
                                     !.labels = Chan!Labeled]
  <2>1. /\ task' = [task EXCEPT ![t] = next] /\ task[t].step = "labels"
    BY <1>6 DEF Chan!ReadLabels, ChanInv, ChanTypes, ChannelTask
  <2>2. next \in ChannelTask /\ next.step = "diff" /\ next.auto = task[t].auto
        /\ next.labels \subseteq next.want /\ next.verdict = task[t].verdict /\ next.late = task[t].late
    BY <1>1 DEF Chan!Target, Chan!Labeled, ChannelTask
  <2> HIDE DEF next
  <2> QED
    BY <1>1, <1>2, <2>1, <2>2, ChanProceeds DEF ChanInv, ChanTypes
<1> QED
  BY <1>4, <1>5, <1>6 DEF Chan!TryResolve, Chan!TaskStops

\* The feedback is closed.
LEMMA ChanClose ==
  ASSUME ChanInv, NEW t \in Request, Chan!Close(t)
  PROVE  ChanInv' /\ Chan!LabelsStand /\ Chan!VerdictStands
<1>1. /\ task[t].step = "close" /\ UNCHANGED <<rows, jobs, sync>>
      /\ feedback' = [feedback EXCEPT !.state = task[t].verdict]
      /\ task' = [x \in Request |->
               IF x = t THEN Chan!Idle ELSE [task[x] EXCEPT !.late = task[x].auto]]
  BY DEF Chan!Close
<1>2. Chan!Idle \in ChannelTask /\ Chan!Idle.step = "idle" /\ ~Chan!Idle.auto
      /\ Chan!Idle.verdict # "resolved"
  BY DEF Chan!Idle, ChannelTask, Verdict
<1>3. \A x \in Request : x # t =>
        /\ task'[x] \in ChannelTask /\ task'[x].late = task[x].auto
        /\ task'[x].step = task[x].step /\ task'[x].auto = task[x].auto
        /\ task'[x].verdict = task[x].verdict /\ task'[x].want = task[x].want
        /\ task'[x].drop = task[x].drop /\ task'[x].labels = task[x].labels
  <2> SUFFICES ASSUME NEW x \in Request, x # t, NEW q, q = task[x]
               PROVE  /\ task'[x] \in ChannelTask /\ task'[x].late = q.auto
                      /\ task'[x].step = q.step /\ task'[x].auto = q.auto
                      /\ task'[x].verdict = q.verdict /\ task'[x].want = q.want
                      /\ task'[x].drop = q.drop /\ task'[x].labels = q.labels
    OBVIOUS
  <2>1. task'[x] = [q EXCEPT !.late = q.auto]
    BY <1>1
  <2>2. q \in ChannelTask
    BY DEF ChanInv, ChanTypes
  <2> QED
    BY <2>1, <2>2 DEF ChannelTask
<1>a. task'[t] = Chan!Idle /\ task[t] \in ChannelTask /\ feedback'.state = task[t].verdict
  BY <1>1 DEF ChanInv, ChanTypes
<1>b. \A x \in Request : task'[x] \in ChannelTask
  BY <1>2, <1>3, <1>a
<1>c. feedback' \in [state: {"none", "positive", "pending"} \cup Verdict, ids: SUBSET Channel]
  <2>1. task[t].verdict \in Verdict
    BY <1>a DEF ChannelTask
  <2> QED
    BY <1>1, <2>1 DEF ChanInv, ChanTypes
<1>4. ChanTypes'
  <2>1. task' \in [Request -> ChannelTask]
    BY <1>1, <1>b
  <2> QED
    BY <1>1, <1>c, <2>1 DEF ChanInv, ChanTypes
<1>5. ResolutionsKnow'
  <2>1. ASSUME NEW x \in Request, x # t
        PROVE  /\ task'[x].auto /\ task'[x].step = "diff" => task'[x].labels \subseteq task'[x].want
               /\ task'[x].auto /\ task'[x].step \in {"add", "drop"} =>
                    task'[x].drop \cap task'[x].labels = {}
               /\ task'[x].verdict = "resolved" => task'[x].auto
               /\ task'[x].auto => task'[x].late
    BY <1>3, <2>1 DEF ChanInv, ResolutionsKnow
  <2> QED
    BY <1>2, <1>a, <2>1 DEF ResolutionsKnow
<1>6. Chan!VerdictStands
  BY <1>1 DEF Chan!VerdictStands, ChanInv, ChanTypes, ResolutionsKnow
<1>7. task' # task
  BY <1>1, <1>2
<1> QED
  BY <1>4, <1>5, <1>6, <1>7 DEF ChanInv, Chan!LabelsStand

\* Only closing decides on the feedback, and only dropping ends in "close" from "drop".
LEMMA ChanNext ==
  ChanInv /\ Chan!Next =>
    ChanInv' /\ Chan!LabelsStand /\ Chan!AutoKeepsLabels /\ Chan!VerdictStands
<1> SUFFICES ASSUME ChanInv, Chan!Next
             PROVE  ChanInv' /\ Chan!LabelsStand /\ Chan!AutoKeepsLabels /\ Chan!VerdictStands
  OBVIOUS
<1>1. CASE Chan!Classify \/ Chan!Retry \/ Chan!ReadJob \/ Chan!StoreResult \/ Chan!SetJobState
             \/ Chan!SyncStops
  <2>1. UNCHANGED <<feedback, task>>
    BY <1>1 DEF Chan!Classify, Chan!Retry, Chan!ReadJob, Chan!StoreResult, Chan!SetJobState,
                Chan!SyncStops
  <2> QED
    BY <1>1, <2>1, ChanClassifies DEF Chan!AutoKeepsLabels, Chan!VerdictStands
<1>2. ASSUME NEW t \in Request, NEW ids \in SUBSET Channel,
             NEW s \in {"pending", "positive"}, NEW v \in {"accepted", "rejected"},
             Chan!AskSet(t, ids) \/ Chan!GiveFeedback(t, ids, s) \/ Chan!AskReview(t, v)
      PROVE  ChanInv' /\ Chan!LabelsStand /\ Chan!AutoKeepsLabels /\ Chan!VerdictStands
  <2>1. feedback' = feedback \/ feedback'.state \in {"pending", "positive"}
    BY <1>2 DEF Chan!AskSet, Chan!GiveFeedback, Chan!AskReview
  <2>2. rows' = rows
    BY <1>2 DEF Chan!AskSet, Chan!GiveFeedback, Chan!AskReview
  <2> QED
    BY <1>2, <2>1, <2>2, ChanBegins DEF Chan!AutoKeepsLabels, Chan!VerdictStands, Chan!Labeled
<1>3. ASSUME NEW t \in Request, Chan!Diff(t) \/ Chan!TryResolve(t) \/ Chan!ReadLabels(t)
                                  \/ Chan!TaskStops(t)
      PROVE  ChanInv' /\ Chan!LabelsStand /\ Chan!AutoKeepsLabels /\ Chan!VerdictStands
  <2>1. UNCHANGED <<rows, feedback>>
    BY <1>3 DEF Chan!Diff, Chan!TryResolve, Chan!ReadLabels, Chan!TaskStops
  <2> QED
    BY <1>3, <2>1, ChanDiff, ChanResolves
       DEF Chan!AutoKeepsLabels, Chan!VerdictStands, Chan!Labeled
<1>4. ASSUME NEW t \in Request, Chan!AddRows(t)
      PROVE  ChanInv' /\ Chan!LabelsStand /\ Chan!AutoKeepsLabels /\ Chan!VerdictStands
  <2>1. feedback' = feedback /\ \A c \in Channel : rows[c].on => rows'[c].on
    BY <1>4 DEF Chan!AddRows, Chan!Row
  <2> QED
    BY <1>4, <2>1, ChanAdd DEF Chan!AutoKeepsLabels, Chan!VerdictStands, Chan!Labeled
<1>5. ASSUME NEW t \in Request, Chan!DropRows(t)
      PROVE  ChanInv' /\ Chan!LabelsStand /\ Chan!AutoKeepsLabels /\ Chan!VerdictStands
  <2>1. feedback' = feedback
    BY <1>5 DEF Chan!DropRows
  <2> QED
    BY <1>5, <2>1, ChanDrop DEF Chan!VerdictStands
<1>6. ASSUME NEW t \in Request, Chan!Close(t)
      PROVE  ChanInv' /\ Chan!LabelsStand /\ Chan!AutoKeepsLabels /\ Chan!VerdictStands
  <2>1. rows' = rows
    BY <1>6 DEF Chan!Close
  <2> QED
    BY <1>6, <2>1, ChanClose DEF Chan!AutoKeepsLabels, Chan!Labeled
<1> QED
  BY <1>1, <1>2, <1>3, <1>4, <1>5, <1>6 DEF Chan!Next

\* The invariant has the types in it.
LEMMA ChanTypeOK == ChanInv => Chan!TypeOK
  BY DEF ChanInv, ChanTypes, ChannelRow, Verdict, Chan!TypeOK, Chan!Row, Chan!NoRow

-----------------------------------------------------------------------------
(* CommunityWatch: removals of a comment, their cases and everybody else.    *)

\* An action that was taken, a case, and what a request holds.
Taken ==
  [state: {"active", "restored"}, original: {"active", "collapsed"}, reason: Reason,
   appeal: {"none", "received", "resolved"},
   review: {"none", "pending", "upheld", "reason_adjusted", "reversed"}]
CaseRecord ==
  [status: {"none", "received", "action_taken", "appealed", "resolved"},
   outcome: {"none", "content_hidden", "upheld", "restored"},
   notice: {"none", "pending", "sent"}]
Duty ==
  [step: {"idle", "find", "created", "notice", "transition", "restored", "fold"},
   prev: {Watch!NoAction} \cup Taken, action: {Watch!NoAction} \cup Taken,
   events: SUBSET {"appeal_received", "appeal_resolved", "review_upheld"},
   seen: {"none", "active", "collapsed"}, to: {"none", "active", "collapsed"}]

WatchTypes ==
  /\ comment \in {"active", "collapsed", "banned", "archived"}
  /\ actions \in [1..MaxActions -> {Watch!NoAction} \cup Taken]
  /\ cases \in [Reason -> CaseRecord]
  /\ moderation \in [Request -> Duty]
  /\ removals \in [updates: Nat, faults: Nat]
  /\ \A r \in Request :
       /\ moderation[r].step = "idle" => moderation[r] = Watch!Idle
       /\ moderation[r].step \in {"created", "notice", "transition", "restored"} =>
            moderation[r].prev \in Taken /\ moderation[r].action \in Taken
       /\ moderation[r].step = "fold" =>
            moderation[r].seen # "none" /\ moderation[r].to # "none"

\* Only the latest action may stand, and none is taken after a gap.
LatestStands ==
  \A a, b \in 1..MaxActions :
    /\ actions[a].state = "active" /\ a < b => actions[b] = Watch!NoAction
    /\ actions[b] # Watch!NoAction /\ a < b => actions[a] # Watch!NoAction

\* The case of an action says what became of it, and the author knows.
OutcomeTold(act) ==
  /\ act.state = "active" => cases[act.reason].outcome \in {"content_hidden", "upheld"}
  /\ act.state = "restored" => cases[act.reason].outcome = "restored"

CaseTold(act) ==
  OutcomeTold(act) /\ (act.state = "active" => cases[act.reason].notice = "sent")

IsLatest(a) ==
  /\ a \in 1..MaxActions /\ actions[a] # Watch!NoAction
  /\ \A b \in 1..MaxActions : b > a => actions[b] = Watch!NoAction

Unexcepted == oddities \cap {"overlap", "cut", "merged", "late"} = {}

(* Without exceptions one request is at work, on the latest action: either the
   case tells of it already, or the request is about to write what it tells. *)
CasesFollow ==
  Unexcepted =>
    /\ \A r, s \in Request :
         moderation[r].step # "idle" /\ moderation[s].step # "idle" => r = s
    /\ \A r \in Request : moderation[r].step = "find" => Watch!Active # {}
    /\ \A a \in 1..MaxActions : IsLatest(a) =>
         /\ (\A r \in Request : moderation[r].step \in {"idle", "fold"}) => CaseTold(actions[a])
         /\ \A r \in Request :
              /\ moderation[r].step = "find" => actions[a].state = "active"
              /\ moderation[r].step = "created" =>
                   actions[a].state = "active" /\ moderation[r].action = actions[a]
              /\ moderation[r].step = "restored" =>
                   /\ actions[a].state = "restored" /\ moderation[r].action = actions[a]
                   /\ moderation[r].prev.reason = actions[a].reason
              /\ moderation[r].step = "notice" =>
                   moderation[r].action = actions[a] /\ OutcomeTold(actions[a])
              /\ moderation[r].step = "transition" /\ moderation[r].action.state = "active" =>
                   /\ moderation[r].action = actions[a] /\ CaseTold(moderation[r].prev)
                   /\ moderation[r].prev.state = "active"

WatchInv == WatchTypes /\ LatestStands /\ Watch!StandingRemovalHides /\ CasesFollow

\* No comment is removed at first.
LEMMA WatchInit == Watch!Init => WatchInv
<1> SUFFICES ASSUME Watch!Init PROVE WatchInv
  OBVIOUS
<1> USE DEF Watch!Init, Watch!NoAction, Watch!NoCase, Watch!Idle
<1>1. WatchTypes
  BY DEF WatchTypes, CaseRecord, Duty
<1>2. LatestStands
  BY DEF LatestStands
<1>3. \A a \in 1..MaxActions : actions[a] = Watch!NoAction
  OBVIOUS
<1>4. Watch!Active = {}
  BY DEF Watch!Active
<1>5. CasesFollow
  BY <1>3 DEF CasesFollow, IsLatest
<1> QED
  BY <1>1, <1>2, <1>4, <1>5 DEF WatchInv, Watch!StandingRemovalHides

\* A request that begins where one was idle.
LEMMA WatchBegin ==
  ASSUME WatchTypes, NEW r \in Request, NEW first \in Duty, NEW update \in {0, 1},
         moderation[r] = Watch!Idle, Watch!Begin(r, first, update)
  PROVE  /\ moderation' \in [Request -> Duty] /\ moderation'[r] = first
         /\ \A q \in Request : q # r => moderation'[q] = moderation[q]
         /\ removals' \in [updates: Nat, faults: Nat]
         /\ oddities \subseteq oddities'
         /\ oddities' \subseteq oddities \cup {"overlap"}
         /\ "overlap" \notin oddities' => \A q \in Request : q # r => moderation[q] = Watch!Idle
<1>1. moderation' = [moderation EXCEPT ![r] = first]
  BY DEF Watch!Begin
<1>2. PICK beside \in BOOLEAN :
        /\ beside = \E q \in Request \ {r} : moderation[q] # Watch!Idle
        /\ removals' = [updates |-> removals.updates + update,
                        faults |-> removals.faults + IF beside THEN 1 ELSE 0]
        /\ oddities' = oddities \cup IF beside THEN {"overlap"} ELSE {}
  <2> DEFINE beside == \E q \in Request \ {r} : moderation[q] # Watch!Idle
  <2> WITNESS beside \in BOOLEAN
  <2> QED
    BY DEF Watch!Begin
<1>3. removals' \in [updates: Nat, faults: Nat]
  BY <1>2 DEF WatchTypes
<1>4. QED
  BY <1>1, <1>2, <1>3 DEF WatchTypes

\* Where nobody was at work the case of the latest action tells of it.
LEMMA WatchTold ==
  ASSUME WatchInv, NEW r \in Request, moderation[r] = Watch!Idle, Unexcepted,
         \A q \in Request : q # r => moderation[q] = Watch!Idle,
         NEW a \in 1..MaxActions, IsLatest(a)
  PROVE  CaseTold(actions[a])
<1>1. Watch!Idle.step = "idle"
  BY DEF Watch!Idle
<1>2. \A q \in Request : moderation[q].step \in {"idle", "fold"}
  BY <1>1
<1> QED
  BY <1>2 DEF WatchInv, CasesFollow

\* A removal is a new latest action, and hides the comment.
LEMMA WatchRemove ==
  ASSUME WatchInv, NEW r \in Request, NEW x \in Reason, Watch!Remove(r, x)
  PROVE  WatchInv'
<1> DEFINE first == [Watch!Idle EXCEPT !.step = "find"]
<1>1. PICK a \in 1..MaxActions :
        /\ actions[a] = Watch!NoAction /\ \A b \in 1..(a - 1) : actions[b] # Watch!NoAction
        /\ actions' = [actions EXCEPT ![a] =
             [state |-> "active", original |-> comment, reason |-> x,
              appeal |-> "none", review |-> "pending"]]
  BY DEF Watch!Remove, WatchInv, WatchTypes
<1>2. /\ moderation[r] = Watch!Idle /\ Watch!Active = {} /\ comment \in {"active", "collapsed"}
      /\ comment' = "banned" /\ Watch!Begin(r, first, 0) /\ cases' = cases
  BY DEF Watch!Remove, Watch!Free, Watch!Removable
<1>3. first \in Duty /\ first.step = "find"
  BY DEF Duty, Watch!Idle
<1>4. /\ moderation' \in [Request -> Duty] /\ moderation'[r] = first
      /\ \A q \in Request : q # r => moderation'[q] = moderation[q]
      /\ removals' \in [updates: Nat, faults: Nat]
      /\ oddities \subseteq oddities'
      /\ "overlap" \notin oddities' => \A q \in Request : q # r => moderation[q] = Watch!Idle
  BY <1>2, <1>3, WatchBegin DEF WatchInv
<1> HIDE DEF first
<1>5. actions'[a] \in Taken /\ actions'[a].state = "active" /\ actions'[a] # Watch!NoAction
  BY <1>1, <1>2 DEF WatchInv, WatchTypes, Taken, Watch!NoAction
<1>6. WatchTypes'
  BY <1>1, <1>2, <1>3, <1>4, <1>5 DEF WatchInv, WatchTypes
<1>7. \A b \in 1..MaxActions : b # a => actions'[b] = actions[b] /\ actions[b].state # "active"
  BY <1>1, <1>2 DEF WatchInv, WatchTypes, Watch!Active
<1>8. \A b \in 1..MaxActions : b > a => actions[b] = Watch!NoAction
  BY <1>1 DEF WatchInv, LatestStands
<1>9. \A b \in 1..MaxActions : b < a => actions[b] # Watch!NoAction
  BY <1>1
<1>10. LatestStands'
  BY <1>1, <1>5, <1>7, <1>8, <1>9 DEF LatestStands
<1>11. a \in Watch!Active'
  BY <1>1, <1>5 DEF Watch!Active, WatchInv, WatchTypes
<1>12. \A b \in 1..MaxActions : IsLatest(b)' => b = a
  BY <1>5, <1>7, <1>8 DEF IsLatest
<1>13. CasesFollow'
  <2> SUFFICES ASSUME Unexcepted' PROVE CasesFollow'
    BY DEF CasesFollow
  <2>1. \A q \in Request : q # r => moderation'[q] = Watch!Idle
    BY <1>4 DEF Unexcepted
  <2> QED
    BY <2>1, <1>3, <1>4, <1>5, <1>11, <1>12 DEF CasesFollow, Watch!Idle
<1> QED
  BY <1>2, <1>6, <1>10, <1>13 DEF WatchInv, Watch!StandingRemovalHides

\* The removal that stands already is found, and nothing is written.
LEMMA WatchFind ==
  ASSUME WatchInv, NEW r \in Request, Watch!FindAction(r)
  PROVE  WatchInv'
<1>1. /\ moderation[r].step = "find"
      /\ UNCHANGED <<comment, actions, cases, removals, oddities>>
  BY DEF Watch!FindAction
<1>2. CASE Watch!Active = {}
  <2>1. moderation' = [moderation EXCEPT ![r] = Watch!Idle]
    BY <1>2 DEF Watch!FindAction
  <2>2. WatchTypes'
    BY <1>1, <2>1 DEF WatchInv, WatchTypes, Duty, Watch!Idle
  <2>3. ~Unexcepted
    BY <1>1, <1>2 DEF WatchInv, CasesFollow
  <2> QED
    BY <1>1, <1>2, <2>2, <2>3
       DEF WatchInv, CasesFollow, Unexcepted, LatestStands, Watch!StandingRemovalHides,
           Watch!Active
<1>3. CASE Watch!Active # {}
  <2>1. PICK a \in Watch!Active : moderation' = [moderation EXCEPT ![r] =
          [Watch!Idle EXCEPT !.step = "created", !.prev = actions[a], !.action = actions[a]]]
    BY <1>3 DEF Watch!FindAction
  <2>2. a \in 1..MaxActions /\ actions[a].state = "active" /\ actions[a] \in Taken
    BY DEF WatchInv, WatchTypes, Watch!Active, Watch!NoAction
  <2>3. /\ moderation' \in [Request -> Duty]
        /\ moderation'[r].step = "created" /\ moderation'[r].action = actions[a]
        /\ moderation'[r].prev = actions[a]
        /\ \A q \in Request : q # r => moderation'[q] = moderation[q]
    BY <2>1, <2>2 DEF WatchInv, WatchTypes, Duty, Watch!Idle
  <2>4. WatchTypes'
    BY <1>1, <2>2, <2>3 DEF WatchInv, WatchTypes
  <2>5. IsLatest(a) /\ \A b \in 1..MaxActions : IsLatest(b) => b = a
    BY <2>2 DEF WatchInv, LatestStands, IsLatest, Watch!NoAction
  <2>6. CasesFollow'
    <3> SUFFICES ASSUME Unexcepted PROVE CasesFollow'
      BY <1>1 DEF CasesFollow, Unexcepted
    <3>1. \A q \in Request : q # r => moderation'[q].step = "idle"
      BY <1>1, <2>3 DEF WatchInv, CasesFollow
    <3> QED
      BY <1>1, <2>2, <2>3, <2>5, <3>1 DEF CasesFollow, IsLatest
  <2> QED
    BY <1>1, <2>4, <2>6 DEF WatchInv, LatestStands, Watch!StandingRemovalHides, Watch!Active
<1> QED
  BY <1>2, <1>3

\* Who works without exceptions works alone, on the latest action.
LEMMA WatchAlone ==
  ASSUME WatchInv, Unexcepted, NEW r \in Request, moderation[r].step # "idle"
  PROVE  \A q \in Request : q # r => moderation[q] = Watch!Idle
<1>1. \A q \in Request : q # r => moderation[q].step = "idle"
  BY DEF WatchInv, CasesFollow
<1> QED
  BY <1>1 DEF WatchInv, WatchTypes

\* The case of a request that ends, or goes on to the notice: the actions stay.
LEMMA WatchWrite ==
  ASSUME WatchInv, NEW r \in Request, moderation[r].step # "idle",
         UNCHANGED <<comment, actions, removals>>,
         cases' \in [Reason -> CaseRecord], oddities \subseteq oddities',
         NEW next \in Duty, moderation' = [moderation EXCEPT ![r] = next],
         next = Watch!Idle \/ (next.step = "notice" /\ next.prev \in Taken /\ next.action \in Taken),
         Unexcepted' => \A a \in 1..MaxActions : IsLatest(a) =>
           /\ next.step = "idle" => CaseTold(actions[a])'
           /\ next.step = "notice" => next.action = actions[a] /\ OutcomeTold(actions[a])'
  PROVE  WatchInv'
<1>1. moderation' \in [Request -> Duty] /\ moderation'[r] = next
      /\ \A q \in Request : q # r => moderation'[q] = moderation[q]
  BY DEF WatchInv, WatchTypes
<1>2. Watch!Idle.step = "idle"
  BY DEF Watch!Idle
<1>3. WatchTypes'
  BY <1>1, <1>2 DEF WatchInv, WatchTypes
<1>4. CasesFollow'
  <2> SUFFICES ASSUME Unexcepted' PROVE CasesFollow'
    BY DEF CasesFollow
  <2>1. \A q \in Request : q # r => moderation'[q].step = "idle"
    BY <1>1, <1>2, WatchAlone DEF Unexcepted
  <2>2. \A a \in 1..MaxActions : IsLatest(a)' => IsLatest(a)
    BY DEF IsLatest
  <2>3. next.step \in {"idle", "notice"}
    BY <1>2
  <2>4. \A a \in 1..MaxActions : IsLatest(a)' =>
          /\ (\A q \in Request : moderation'[q].step \in {"idle", "fold"}) => CaseTold(actions[a])'
          /\ next.step = "notice" => next.action = actions'[a] /\ OutcomeTold(actions[a])'
    BY <1>1, <2>2, <2>3
  <2> QED
    BY <1>1, <2>1, <2>3, <2>4 DEF CasesFollow
<1> QED
  BY <1>3, <1>4 DEF WatchInv, LatestStands, Watch!StandingRemovalHides, Watch!Active

\* The case of a removal is written after the commit.
LEMMA WatchCreated ==
  ASSUME WatchInv, NEW r \in Request, Watch!SyncCreated(r)
  PROVE  WatchInv'
<1> DEFINE x == moderation[r].action.reason
           next == [moderation[r] EXCEPT !.step = "notice"]
<1>1. /\ moderation[r].step = "created" /\ cases' = [cases EXCEPT ![x] = Watch!AfterRemoval(@)]
      /\ moderation' = [moderation EXCEPT ![r] = next]
      /\ UNCHANGED <<comment, actions, removals, oddities>>
  BY DEF Watch!SyncCreated
<1>2. moderation[r] \in Duty /\ moderation[r].prev \in Taken /\ moderation[r].action \in Taken
      /\ x \in Reason
  BY <1>1 DEF WatchInv, WatchTypes, Taken
<1>3. next \in Duty /\ next.step = "notice" /\ next.prev \in Taken /\ next.action \in Taken
      /\ next.action = moderation[r].action
  BY <1>2 DEF Duty
<1>4. /\ Watch!AfterRemoval(cases[x]) \in CaseRecord
      /\ Watch!AfterRemoval(cases[x]).outcome = "content_hidden"
  BY <1>2 DEF WatchInv, WatchTypes, CaseRecord, Watch!AfterRemoval
<1>5. cases' \in [Reason -> CaseRecord] /\ cases'[x].outcome = "content_hidden"
  BY <1>1, <1>2, <1>4 DEF WatchInv, WatchTypes
<1>6. Unexcepted => \A a \in 1..MaxActions : IsLatest(a) =>
        actions[a].state = "active" /\ moderation[r].action = actions[a]
  BY <1>1 DEF WatchInv, CasesFollow
<1> HIDE DEF next
<1>7. Unexcepted' => \A a \in 1..MaxActions : IsLatest(a) =>
        next.action = actions[a] /\ OutcomeTold(actions[a])'
  BY <1>1, <1>3, <1>5, <1>6 DEF OutcomeTold, Unexcepted
<1>8. next.step # "idle"
  BY <1>3
<1> QED
  BY <1>1, <1>3, <1>5, <1>7, <1>8, WatchWrite

\* The cases once the case of an action is under its reason.
LEMMA WatchResolved ==
  ASSUME cases \in [Reason -> CaseRecord], NEW prev, NEW act,
         prev.reason \in Reason, act.reason \in Reason
  PROVE  /\ Watch!Resolved(prev, act) \in [Reason -> CaseRecord]
         /\ cases[act.reason] # Watch!NoCase /\ prev.reason = act.reason =>
              Watch!Resolved(prev, act) = cases
         /\ prev.reason # act.reason /\ cases[prev.reason] # Watch!NoCase
              /\ cases[act.reason] = Watch!NoCase =>
              Watch!Resolved(prev, act)[act.reason] = cases[prev.reason]
<1>1. Watch!NewCase \in CaseRecord /\ Watch!NoCase \in CaseRecord
  BY DEF Watch!NewCase, Watch!NoCase, CaseRecord
<1> QED
  BY <1>1 DEF Watch!Resolved

\* The case of a restored action is resolved.
LEMMA WatchRestored ==
  ASSUME WatchInv, NEW r \in Request, Watch!SyncRestored(r)
  PROVE  WatchInv'
<1> DEFINE q == moderation[r]
           x == q.action.reason
           next == [moderation[r] EXCEPT !.step = "notice"]
           resolved == Watch!Resolved(q.prev, q.action)
<1>1. /\ moderation[r].step = "restored"
      /\ cases' = [resolved EXCEPT ![x].status = "resolved", ![x].outcome = "restored"]
      /\ moderation' = [moderation EXCEPT ![r] = next]
      /\ UNCHANGED <<comment, actions, removals, oddities>>
  BY DEF Watch!SyncRestored
<1>2. moderation[r] \in Duty /\ moderation[r].prev \in Taken /\ moderation[r].action \in Taken
      /\ x \in Reason /\ q.prev.reason \in Reason
  BY <1>1 DEF WatchInv, WatchTypes, Taken
<1>3. next \in Duty /\ next.step = "notice" /\ next.prev \in Taken /\ next.action \in Taken
      /\ next.action = moderation[r].action
  BY <1>2 DEF Duty
<1>4. resolved \in [Reason -> CaseRecord]
  BY <1>2, WatchResolved DEF WatchInv, WatchTypes
<1> HIDE DEF next, resolved
<1>5. cases' \in [Reason -> CaseRecord] /\ cases'[x].outcome = "restored"
  BY <1>1, <1>2, <1>4 DEF CaseRecord
<1>6. Unexcepted => \A a \in 1..MaxActions : IsLatest(a) =>
        actions[a].state = "restored" /\ moderation[r].action = actions[a]
  BY <1>1 DEF WatchInv, CasesFollow
<1>7. Unexcepted' => \A a \in 1..MaxActions : IsLatest(a) =>
        next.action = actions[a] /\ OutcomeTold(actions[a])'
  BY <1>1, <1>3, <1>5, <1>6 DEF OutcomeTold, Unexcepted
<1>8. next.step # "idle"
  BY <1>3
<1> QED
  BY <1>1, <1>3, <1>5, <1>7, <1>8, WatchWrite

\* The author was told of the removal.
LEMMA WatchNotice ==
  ASSUME WatchInv, NEW r \in Request, Watch!SyncNoticeSent(r)
  PROVE  WatchInv'
<1> DEFINE act == moderation[r].action
           x == act.reason
           resolved == Watch!Resolved(act, act)
<1>1. /\ moderation[r].step = "notice"
      /\ cases' = [resolved EXCEPT ![x].notice = "sent"]
      /\ moderation' = [moderation EXCEPT ![r] = Watch!Idle]
      /\ UNCHANGED <<comment, actions, removals, oddities>>
  BY DEF Watch!SyncNoticeSent
<1>2. act \in Taken /\ x \in Reason
  BY <1>1 DEF WatchInv, WatchTypes, Taken
<1>3. Watch!Idle \in Duty /\ Watch!Idle.step = "idle"
  BY DEF Watch!Idle, Duty
<1>4. /\ resolved \in [Reason -> CaseRecord]
      /\ cases[x] # Watch!NoCase => resolved = cases
  BY <1>2, WatchResolved DEF WatchInv, WatchTypes
<1> HIDE DEF resolved
<1>5. /\ cases' \in [Reason -> CaseRecord] /\ cases'[x].notice = "sent"
      /\ cases'[x].outcome = resolved[x].outcome
  BY <1>1, <1>2, <1>4 DEF CaseRecord
<1>6. Unexcepted => \A a \in 1..MaxActions : IsLatest(a) =>
        act = actions[a] /\ OutcomeTold(actions[a])
  BY <1>1 DEF WatchInv, CasesFollow
<1>7. \A a \in 1..MaxActions : act = actions[a] /\ OutcomeTold(actions[a]) =>
        CaseTold(actions[a])'
  <2> SUFFICES ASSUME NEW a \in 1..MaxActions, act = actions[a], OutcomeTold(actions[a])
               PROVE  CaseTold(actions[a])'
    OBVIOUS
  <2>1. act.state \in {"active", "restored"} /\ actions'[a] = act
    BY <1>1, <1>2 DEF Taken
  <2>2. cases[x].outcome # "none"
    BY <2>1 DEF OutcomeTold
  <2>3. cases[x] # Watch!NoCase
    BY <2>2 DEF Watch!NoCase
  <2>4. cases'[x].outcome = cases[x].outcome
    BY <1>4, <1>5, <2>3
  <2> QED
    BY <1>5, <2>1, <2>4 DEF CaseTold, OutcomeTold
<1>8. Unexcepted' => \A a \in 1..MaxActions : IsLatest(a) =>
        /\ Watch!Idle.step = "idle" => CaseTold(actions[a])'
        /\ Watch!Idle.step = "notice" => Watch!Idle.action = actions[a] /\ OutcomeTold(actions[a])'
  BY <1>1, <1>3, <1>6, <1>7 DEF Unexcepted
<1> QED
  BY <1>1, <1>3, <1>5, <1>8, WatchWrite

\* Only the action that stands can be restored, and it is the latest.
LEMMA WatchStandingLatest ==
  ASSUME WatchInv, NEW a \in 1..MaxActions, actions[a].state = "active"
  PROVE  IsLatest(a) /\ \A b \in 1..MaxActions : IsLatest(b) => b = a
  BY DEF WatchInv, LatestStands, IsLatest, Watch!NoAction

\* Appeals and reviews are written on an action and lead to a transition.
LEMMA WatchUpdate ==
  ASSUME WatchInv, NEW r \in Request, NEW a \in 1..MaxActions,
         NEW appeal \in {actions[a].appeal, "received", "resolved"},
         NEW review \in {actions[a].review, "upheld"}, NEW x \in Reason,
         Watch!UpdateAction(r, a, appeal, review, x)
  PROVE  WatchInv'
<1> DEFINE act == actions[a]
           new == Watch!Patched(act, appeal, review, x)
           events == (IF appeal # act.appeal /\ appeal = "received" THEN {"appeal_received"} ELSE {})
            \cup (IF appeal # act.appeal /\ appeal = "resolved" THEN {"appeal_resolved"} ELSE {})
            \cup (IF review # act.review /\ review = "upheld" THEN {"review_upheld"} ELSE {})
           first == [Watch!Idle EXCEPT !.step = "transition", !.prev = act, !.action = new,
                                       !.events = events]
<1>1. /\ moderation[r] = Watch!Idle /\ act # Watch!NoAction
      /\ actions' = [actions EXCEPT ![a] = new] /\ UNCHANGED <<comment, cases>>
      /\ Watch!Begin(r, first, 1)
  BY DEF Watch!UpdateAction, Watch!Free
<1>2. act \in Taken
  BY <1>1 DEF WatchInv, WatchTypes
<1>3. new \in Taken /\ new.state = act.state /\ new.reason = x
  BY <1>2 DEF Watch!Patched, Taken
<1>4. events \in SUBSET {"appeal_received", "appeal_resolved", "review_upheld"}
  OBVIOUS
<1> HIDE DEF events, new
<1>5. first \in Duty /\ first.step = "transition" /\ first.prev = act /\ first.action = new
  BY <1>2, <1>3, <1>4 DEF Watch!Idle, Duty
<1> HIDE DEF first
<1>6. /\ moderation' \in [Request -> Duty] /\ moderation'[r] = first
      /\ \A q \in Request : q # r => moderation'[q] = moderation[q]
      /\ removals' \in [updates: Nat, faults: Nat]
      /\ oddities \subseteq oddities' /\ oddities' \subseteq oddities \cup {"overlap"}
      /\ "overlap" \notin oddities' => \A q \in Request : q # r => moderation[q] = Watch!Idle
  BY <1>1, <1>5, WatchBegin DEF WatchInv
<1>7. /\ actions' \in [1..MaxActions -> {Watch!NoAction} \cup Taken] /\ actions'[a] = new
      /\ \A b \in 1..MaxActions : b # a => actions'[b] = actions[b]
  BY <1>1, <1>3 DEF WatchInv, WatchTypes
<1>8. new # Watch!NoAction
  BY <1>3 DEF Taken, Watch!NoAction
<1>9. WatchTypes'
  BY <1>1, <1>2, <1>3, <1>5, <1>6, <1>7 DEF WatchInv, WatchTypes
<1>10. \A b \in 1..MaxActions : actions'[b].state = actions[b].state
        /\ (actions'[b] = Watch!NoAction <=> actions[b] = Watch!NoAction)
  BY <1>1, <1>3, <1>7, <1>8
<1>11. LatestStands'
  BY <1>10 DEF WatchInv, LatestStands
<1>12. Watch!Active' = Watch!Active
  BY <1>7, <1>10 DEF WatchInv, WatchTypes, Watch!Active
<1>13. Watch!StandingRemovalHides'
  BY <1>1, <1>6, <1>12 DEF WatchInv, Watch!StandingRemovalHides
<1>14. CasesFollow'
  <2> SUFFICES ASSUME Unexcepted' PROVE CasesFollow'
    BY DEF CasesFollow
  <2>1. Unexcepted /\ \A q \in Request : q # r => moderation[q] = Watch!Idle
    BY <1>6 DEF Unexcepted
  <2>2. Watch!Idle.step = "idle"
    BY DEF Watch!Idle
  <2>3. \A q \in Request : q # r => moderation'[q].step = "idle"
    BY <1>6, <2>1, <2>2
  <2>4. ASSUME new.state = "active"
        PROVE  (\A b \in 1..MaxActions : IsLatest(b)' => b = a) /\ CaseTold(act)
    <3>1. IsLatest(a) /\ \A b \in 1..MaxActions : IsLatest(b) => b = a
      BY <1>3, <2>4, WatchStandingLatest
    <3>2. CaseTold(act)
      BY <1>1, <2>1, <3>1, WatchTold
    <3> QED
      BY <1>10, <3>1, <3>2 DEF IsLatest
  <2>6. new.state = "active" => CaseTold(moderation[r].prev)'
    <3> SUFFICES ASSUME new.state = "active" PROVE CaseTold(moderation[r].prev)'
      OBVIOUS
    <3>1. CaseTold(act)
      BY <2>4
    <3>2. moderation'[r].prev = act
      BY <1>5, <1>6
    <3> QED
      BY <1>1, <3>1, <3>2 DEF CaseTold, OutcomeTold
  <2>7. moderation'[r].step = "transition" /\ moderation'[r].action = new
        /\ moderation'[r].prev.state = act.state
    BY <1>5, <1>6
  <2> QED
    BY <1>3, <1>7, <2>3, <2>4, <2>6, <2>7 DEF CasesFollow
<1> QED
  BY <1>9, <1>11, <1>13, <1>14 DEF WatchInv

\* The case follows an appeal, a review or a new reason.
LEMMA WatchTransition ==
  ASSUME WatchInv, NEW r \in Request, Watch!SyncTransition(r)
  PROVE  WatchInv'
<1> DEFINE q == moderation[r]
           x == q.action.reason
           resolved == Watch!Resolved(q.prev, q.action)
           updated == [resolved EXCEPT ![x] = Watch!AfterUpdate(@, q.events)]
<1>1. /\ q.step = "transition"
      /\ cases' = IF q.events = {} /\ q.prev.reason = x THEN cases ELSE updated
      /\ oddities' = oddities
           \cup (IF q.prev.reason # x /\ Watch!NoCase \notin {cases[x], cases[q.prev.reason]}
                   THEN {"merged"} ELSE {})
           \cup (IF q.action.state = "restored" THEN {"late"} ELSE {})
      /\ moderation' = [moderation EXCEPT ![r] = Watch!Idle]
      /\ UNCHANGED <<comment, actions, removals>>
  BY DEF Watch!SyncTransition
<1>2. q \in Duty /\ q.prev \in Taken /\ q.action \in Taken
  BY <1>1 DEF WatchInv, WatchTypes
<1>3. x \in Reason /\ q.prev.reason \in Reason /\ q.action.state \in {"active", "restored"}
  BY <1>2 DEF Taken
<1>4. resolved \in [Reason -> CaseRecord]
  BY <1>3, WatchResolved DEF WatchInv, WatchTypes
<1>5. Watch!Idle \in Duty /\ Watch!Idle.step = "idle"
  BY DEF Watch!Idle, Duty
<1>6. ASSUME NEW case \in CaseRecord, NEW e
      PROVE  /\ Watch!AfterUpdate(case, e) \in CaseRecord
             /\ Watch!AfterUpdate(case, e).notice = case.notice
             /\ Watch!AfterUpdate(case, e).outcome \in {case.outcome, "upheld"}
  BY DEF Watch!AfterUpdate, CaseRecord
<1> HIDE DEF resolved
<1>7. updated \in [Reason -> CaseRecord] /\ updated[x].notice = resolved[x].notice
      /\ updated[x].outcome \in {resolved[x].outcome, "upheld"}
  BY <1>3, <1>4, <1>6
<1> HIDE DEF updated
<1>8. cases' \in [Reason -> CaseRecord]
  BY <1>1, <1>7 DEF WatchInv, WatchTypes
<1>9. ASSUME Unexcepted', NEW a \in 1..MaxActions, IsLatest(a)
      PROVE  CaseTold(actions[a])'
  <2>1. Unexcepted /\ q.action.state = "active" /\ actions' = actions
    BY <1>1, <1>3, <1>9 DEF Unexcepted
  <2>2. q.action = actions[a] /\ CaseTold(q.prev) /\ q.prev.state = "active"
    BY <1>1, <1>9, <2>1 DEF WatchInv, CasesFollow
  <2>3. cases[q.prev.reason].outcome \in {"content_hidden", "upheld"}
        /\ cases[q.prev.reason].notice = "sent"
    BY <2>2 DEF CaseTold, OutcomeTold
  <2>4. cases[q.prev.reason] # Watch!NoCase
    BY <2>3 DEF Watch!NoCase
  <2>5. resolved[x] = cases[q.prev.reason]
    <3>1. CASE q.prev.reason = x
      BY <1>3, <2>4, <3>1, WatchResolved DEF WatchInv, WatchTypes, resolved
    <3>2. CASE q.prev.reason # x
      <4>1. cases[x] = Watch!NoCase
        BY <1>1, <1>9, <2>4, <3>2 DEF Unexcepted
      <4> QED
        BY <1>3, <2>4, <3>2, <4>1, WatchResolved DEF WatchInv, WatchTypes, resolved
    <3> QED
      BY <3>1, <3>2
  <2>6. cases'[x].outcome \in {"content_hidden", "upheld"} /\ cases'[x].notice = "sent"
    BY <1>1, <1>7, <2>3, <2>5
  <2> QED
    BY <2>1, <2>2, <2>6 DEF CaseTold, OutcomeTold
<1>10. oddities \subseteq oddities'
  BY <1>1
<1> QED
  BY <1>1, <1>5, <1>8, <1>9, <1>10, WatchWrite

\* The latest action is taken back and the comment is shown again.
LEMMA WatchRestore ==
  ASSUME WatchInv, NEW r \in Request, NEW a \in 1..MaxActions, Watch!Restore(r, a)
  PROVE  WatchInv'
<1> DEFINE act == actions[a]
           new == [actions[a] EXCEPT !.state = "restored", !.appeal = "resolved",
                                     !.review = "reversed"]
           first == [Watch!Idle EXCEPT !.step = "restored", !.prev = act, !.action = new]
<1>0. act \in {Watch!NoAction} \cup Taken /\ act.state = "active"
  BY DEF Watch!Restore, Watch!Restorable, WatchInv, WatchTypes
<1>2. act \in Taken /\ act.state = "active"
  BY <1>0 DEF Watch!NoAction
<1>1. /\ moderation[r] = Watch!Idle
      /\ actions' = [actions EXCEPT ![a] = new] /\ comment' = act.original /\ cases' = cases
      /\ actions'[a] = new
      /\ Watch!Begin(r, first, 0)
  BY <1>2 DEF Watch!Restore, Watch!Free, WatchInv, WatchTypes
<1>3. new \in Taken /\ new.state = "restored" /\ new.reason = act.reason
      /\ act.original \in {"active", "collapsed"}
  BY <1>2 DEF Taken
<1> HIDE DEF new
<1>5. first \in Duty /\ first.step = "restored" /\ first.prev = act /\ first.action = new
  BY <1>2, <1>3 DEF Watch!Idle, Duty
<1> HIDE DEF first
<1>6. /\ moderation' \in [Request -> Duty] /\ moderation'[r] = first
      /\ \A q \in Request : q # r => moderation'[q] = moderation[q]
      /\ removals' \in [updates: Nat, faults: Nat]
      /\ oddities \subseteq oddities' /\ oddities' \subseteq oddities \cup {"overlap"}
      /\ "overlap" \notin oddities' => \A q \in Request : q # r => moderation[q] = Watch!Idle
  BY <1>1, <1>5, WatchBegin DEF WatchInv
<1>7. /\ actions' \in [1..MaxActions -> {Watch!NoAction} \cup Taken] /\ actions'[a] = new
      /\ \A b \in 1..MaxActions : b # a => actions'[b] = actions[b]
  BY <1>1, <1>3 DEF WatchInv, WatchTypes
<1>8. new # Watch!NoAction /\ act # Watch!NoAction
  BY <1>2, <1>3 DEF Taken, Watch!NoAction
<1>9. WatchTypes'
  BY <1>1, <1>2, <1>3, <1>5, <1>6, <1>7 DEF WatchInv, WatchTypes
<1>10. \A b \in 1..MaxActions : actions'[b] = Watch!NoAction <=> actions[b] = Watch!NoAction
  BY <1>7, <1>8
<1>11. IsLatest(a) /\ \A b \in 1..MaxActions : IsLatest(b) => b = a
  BY <1>2, WatchStandingLatest
<1>12. \A b \in 1..MaxActions : actions'[b].state # "active"
  <2> TAKE b \in 1..MaxActions
  <2>1. b # a => actions[b].state # "active"
    BY <1>11, WatchStandingLatest
  <2> QED
    BY <1>3, <1>7, <2>1
<1>13. LatestStands' /\ Watch!Active' = {}
  BY <1>7, <1>10, <1>12 DEF WatchInv, LatestStands, Watch!Active
<1>14. CasesFollow'
  <2> SUFFICES ASSUME Unexcepted' PROVE CasesFollow'
    BY DEF CasesFollow
  <2>1. Watch!Idle.step = "idle"
    BY DEF Watch!Idle
  <2>2. \A q \in Request : q # r => moderation'[q].step = "idle"
    BY <1>6, <2>1 DEF Unexcepted
  <2>3. \A b \in 1..MaxActions : IsLatest(b)' => b = a
    BY <1>10, <1>11 DEF IsLatest
  <2> QED
    BY <1>3, <1>5, <1>6, <1>7, <2>2, <2>3 DEF CasesFollow
<1> QED
  BY <1>9, <1>13, <1>14 DEF WatchInv, Watch!StandingRemovalHides

\* A fold reads the state it will write over.
LEMMA WatchReadToFold ==
  ASSUME WatchInv, NEW r \in Request, NEW to \in {"active", "collapsed"},
         Watch!ReadToFold(r, to)
  PROVE  WatchInv'
<1> DEFINE first == [Watch!Idle EXCEPT !.step = "fold", !.seen = comment, !.to = to]
<1>1. /\ moderation[r] = Watch!Idle /\ comment \in {"active", "collapsed"}
      /\ UNCHANGED <<comment, actions, cases>> /\ Watch!Begin(r, first, 1)
  BY DEF Watch!ReadToFold, Watch!Free, Watch!FoldableFrom
<1>2. first \in Duty /\ first.step = "fold" /\ first.seen # "none" /\ first.to # "none"
  BY <1>1 DEF Watch!Idle, Duty
<1> HIDE DEF first
<1>3. /\ moderation' \in [Request -> Duty] /\ moderation'[r] = first
      /\ \A q \in Request : q # r => moderation'[q] = moderation[q]
      /\ removals' \in [updates: Nat, faults: Nat]
      /\ oddities \subseteq oddities' /\ oddities' \subseteq oddities \cup {"overlap"}
      /\ "overlap" \notin oddities' => \A q \in Request : q # r => moderation[q] = Watch!Idle
  BY <1>1, <1>2, WatchBegin DEF WatchInv
<1>4. WatchTypes'
  BY <1>1, <1>2, <1>3 DEF WatchInv, WatchTypes
<1>5. CasesFollow'
  <2> SUFFICES ASSUME Unexcepted' PROVE CasesFollow'
    BY DEF CasesFollow
  <2>1. Unexcepted /\ \A q \in Request : q # r => moderation[q] = Watch!Idle
    BY <1>3 DEF Unexcepted
  <2>2. Watch!Idle.step = "idle"
    BY DEF Watch!Idle
  <2>3. \A q \in Request : q # r => moderation'[q].step = "idle"
    BY <1>3, <2>1, <2>2
  <2>4. \A a \in 1..MaxActions : IsLatest(a)' => IsLatest(a) /\ CaseTold(actions[a])
    <3> TAKE a \in 1..MaxActions
    <3>1. IsLatest(a)' => IsLatest(a)
      BY <1>1 DEF IsLatest
    <3> QED
      BY <1>1, <2>1, <3>1, WatchTold
  <2>5. \A a \in 1..MaxActions : CaseTold(actions[a]) => CaseTold(actions[a])'
    BY <1>1 DEF CaseTold, OutcomeTold
  <2> QED
    BY <1>2, <1>3, <2>3, <2>4, <2>5 DEF CasesFollow
<1> QED
  BY <1>1, <1>3, <1>4, <1>5 DEF WatchInv, LatestStands, Watch!StandingRemovalHides, Watch!Active

\* A fold writes what it planned, over whatever came between.
LEMMA WatchFold ==
  ASSUME WatchInv, NEW r \in Request, Watch!Fold(r)
  PROVE  WatchInv'
<1>1. /\ moderation[r].step = "fold" /\ comment' = moderation[r].to
      /\ oddities' = IF comment # moderation[r].seen THEN oddities \cup {"stale"} ELSE oddities
      /\ moderation' = [moderation EXCEPT ![r] = Watch!Idle]
      /\ UNCHANGED <<actions, cases, removals>>
  BY DEF Watch!Fold
<1>2. moderation[r] \in Duty /\ moderation[r].seen # "none" /\ moderation[r].to # "none"
  BY <1>1 DEF WatchInv, WatchTypes
<1>3. moderation[r].seen \in {"active", "collapsed"} /\ comment' \in {"active", "collapsed"}
  BY <1>1, <1>2 DEF Duty
<1>4. Watch!Idle \in Duty /\ Watch!Idle.step = "idle"
  BY DEF Watch!Idle, Duty
<1>5. /\ moderation' \in [Request -> Duty] /\ moderation'[r] = Watch!Idle
      /\ \A q \in Request : q # r => moderation'[q] = moderation[q]
  BY <1>1, <1>4 DEF WatchInv, WatchTypes
<1>6. WatchTypes'
  BY <1>1, <1>3, <1>4, <1>5 DEF WatchInv, WatchTypes
<1>7. Watch!StandingRemovalHides'
  BY <1>1, <1>3 DEF WatchInv, Watch!StandingRemovalHides, Watch!Active
<1>8. CasesFollow'
  <2> SUFFICES ASSUME Unexcepted' PROVE CasesFollow'
    BY DEF CasesFollow
  <2>1. Unexcepted
    BY <1>1 DEF Unexcepted
  <2>2. \A q \in Request : moderation[q].step \in {"idle", "fold"} /\ moderation'[q].step = "idle"
    BY <1>1, <1>4, <1>5, <2>1, WatchAlone
  <2>3. \A a \in 1..MaxActions : IsLatest(a)' => IsLatest(a)
    BY <1>1 DEF IsLatest
  <2>4. \A a \in 1..MaxActions : IsLatest(a) => CaseTold(actions[a])
    BY <2>1, <2>2 DEF WatchInv, CasesFollow
  <2>5. \A a \in 1..MaxActions : CaseTold(actions[a]) => CaseTold(actions[a])'
    BY <1>1 DEF CaseTold, OutcomeTold
  <2> QED
    BY <2>2, <2>3, <2>4, <2>5 DEF CasesFollow
<1> QED
  BY <1>1, <1>6, <1>7, <1>8 DEF WatchInv, LatestStands

\* Staff and authors set the state whatever stands.
LEMMA WatchSetState ==
  ASSUME WatchInv, NEW state \in {"active", "collapsed", "banned", "archived"},
         Watch!SetState(state)
  PROVE  WatchInv'
<1>1. /\ comment' = state /\ UNCHANGED <<actions, cases, moderation>>
      /\ oddities' = oddities \cup {IF state = "archived" THEN "deleted" ELSE "staff"}
      /\ removals' = [removals EXCEPT !.updates = @ + 1]
  BY DEF Watch!SetState
<1>2. removals' \in [updates: Nat, faults: Nat]
  BY <1>1 DEF WatchInv, WatchTypes
<1>3. WatchTypes'
  BY <1>1, <1>2 DEF WatchInv, WatchTypes
<1>4. Unexcepted' => Unexcepted
  BY <1>1 DEF Unexcepted
<1>5. CasesFollow'
  BY <1>1, <1>4
     DEF WatchInv, CasesFollow, IsLatest, CaseTold, OutcomeTold, Watch!Active
<1> QED
  BY <1>1, <1>3, <1>5 DEF WatchInv, LatestStands, Watch!StandingRemovalHides

\* A request stops, and what it had to write is lost.
LEMMA WatchCut ==
  ASSUME WatchInv, NEW r \in Request, Watch!Cut(r)
  PROVE  WatchInv'
<1>1. /\ UNCHANGED <<comment, actions, cases>> /\ oddities' = oddities \cup {"cut"}
      /\ removals' = [removals EXCEPT !.faults = @ + 1]
      /\ moderation[r] # Watch!Idle
  BY DEF Watch!Cut
<1>2. PICK next : /\ moderation' = [moderation EXCEPT ![r] = next]
                  /\ \/ next = Watch!Idle
                     \/ /\ moderation[r].step \in {"created", "restored"}
                        /\ next = [moderation[r] EXCEPT !.step = "notice"]
  BY DEF Watch!Cut
<1>3. next \in Duty
      /\ (next = Watch!Idle \/ (next.step = "notice" /\ next.prev \in Taken /\ next.action \in Taken))
  BY <1>2 DEF WatchInv, WatchTypes, Duty, Watch!Idle
<1>4. removals' \in [updates: Nat, faults: Nat]
  BY <1>1 DEF WatchInv, WatchTypes
<1>5. Watch!Idle.step = "idle"
  BY DEF Watch!Idle
<1>6. WatchTypes'
  BY <1>1, <1>2, <1>3, <1>4, <1>5 DEF WatchInv, WatchTypes
<1>7. ~Unexcepted'
  BY <1>1 DEF Unexcepted
<1> QED
  BY <1>1, <1>6, <1>7 DEF WatchInv, LatestStands, CasesFollow, Watch!StandingRemovalHides, Watch!Active

\* Every action keeps the invariant.
LEMMA WatchNext == WatchInv /\ Watch!Next => WatchInv'
<1> SUFFICES ASSUME WatchInv, Watch!Next PROVE WatchInv'
  OBVIOUS
<1>1. DOMAIN actions = 1..MaxActions
  BY DEF WatchInv, WatchTypes
<1> QED
  BY <1>1, WatchRemove, WatchFind, WatchCreated, WatchTransition, WatchRestored,
     WatchNotice, WatchFold, WatchCut, WatchRestore, WatchUpdate, WatchReadToFold,
     WatchSetState
     DEF Watch!Next

\* What the invariant says of the comment and its cases.
LEMMA WatchSafe == WatchInv => Watch!StandingRemovalHides /\ Watch!CaseTellsDecision
<1> SUFFICES ASSUME WatchInv PROVE Watch!StandingRemovalHides /\ Watch!CaseTellsDecision
  OBVIOUS
<1>1. ASSUME \A r \in Request : moderation[r] = Watch!Idle, Unexcepted
      PROVE  \A a \in 1..MaxActions : IsLatest(a) => CaseTold(actions[a])
  <2>1. Watch!Idle.step = "idle"
    BY DEF Watch!Idle
  <2>2. \A r \in Request : moderation[r].step \in {"idle", "fold"}
    BY <1>1, <2>1
  <2> QED
    BY <1>1, <2>2 DEF WatchInv, CasesFollow
<1>2. \A a \in 1..MaxActions : actions[a].state = "active" => IsLatest(a)
  BY WatchStandingLatest
<1>3. \A a \in 1..MaxActions :
        actions[a].state = "restored" /\ (\A b \in 1..MaxActions : b > a => actions[b] = Watch!NoAction)
          => IsLatest(a)
  BY DEF IsLatest, Watch!NoAction
<1>4. DOMAIN actions = 1..MaxActions
  BY DEF WatchInv, WatchTypes
<1>5. Watch!CaseTellsDecision
  BY <1>1, <1>2, <1>3, <1>4 DEF Watch!CaseTellsDecision, CaseTold, OutcomeTold, Unexcepted
<1> QED
  BY <1>5 DEF WatchInv

\* One action stands at most, everything of its type.
LEMMA WatchTyped == WatchInv => Watch!TypeOK
<1> SUFFICES ASSUME WatchInv PROVE Watch!TypeOK
  OBVIOUS
<1>1. DOMAIN actions = 1..MaxActions /\ MaxActions \in Nat
  BY CommunityAssumption DEF WatchInv, WatchTypes
<1>2. ASSUME NEW a \in Watch!Active, NEW b \in Watch!Active PROVE a = b
  <2>1. ASSUME NEW c \in 1..MaxActions, NEW d \in 1..MaxActions,
               actions[c].state = "active", actions[d].state = "active"
        PROVE  ~(c < d)
    BY <2>1 DEF WatchInv, LatestStands, Watch!NoAction
  <2> QED
    BY <1>1, <1>2, <2>1 DEF Watch!Active
<1>3. Cardinality(Watch!Active) <= 1
  <2>1. CASE Watch!Active = {}
    BY <2>1, FS_EmptySet
  <2>2. CASE Watch!Active # {}
    <3>1. PICK a : a \in Watch!Active
      BY <2>2
    <3>2. Watch!Active = {a}
      BY <1>2, <3>1
    <3> QED
      BY <3>2, FS_Singleton
  <2> QED
    BY <2>1, <2>2
<1> QED
  BY <1>3, WatchCounts DEF Watch!TypeOK, WatchInv, WatchTypes, CaseRecord

\* Nothing but staff and a stale fold brings a deleted comment back.
LEMMA WatchDeleted == WatchInv /\ Watch!Next => Watch!DeletedStaysDeleted
<1> SUFFICES ASSUME WatchInv, Watch!Next, comment = "archived", comment' # "archived"
             PROVE  oddities' \cap {"staff", "stale"} # {}
  BY DEF Watch!DeletedStaysDeleted
<1>1. ASSUME NEW r \in Request, Watch!Fold(r) PROVE oddities' \cap {"staff", "stale"} # {}
  <2>1. moderation[r].seen \in {"none", "active", "collapsed"}
    BY DEF WatchInv, WatchTypes, Duty
  <2> QED
    BY <1>1, <2>1 DEF Watch!Fold
<1>2. ASSUME NEW r \in Request, NEW a \in DOMAIN actions, Watch!Restore(r, a) PROVE FALSE
  BY <1>2 DEF Watch!Restore, Watch!Restorable
<1>3. ASSUME NEW r \in Request, NEW x \in Reason, Watch!Remove(r, x) PROVE FALSE
  BY <1>3 DEF Watch!Remove, Watch!Removable
<1>4. ASSUME NEW state, Watch!SetState(state) PROVE oddities' \cap {"staff", "stale"} # {}
  BY <1>4 DEF Watch!SetState
<1>5. ASSUME NEW r \in Request,
             Watch!FindAction(r) \/ Watch!SyncCreated(r) \/ Watch!SyncTransition(r)
               \/ Watch!SyncRestored(r) \/ Watch!SyncNoticeSent(r) \/ Watch!Cut(r)
      PROVE  FALSE
  <2>1. ~Watch!FindAction(r) /\ ~Watch!SyncNoticeSent(r) /\ ~Watch!Cut(r)
    BY DEF Watch!FindAction, Watch!SyncNoticeSent, Watch!Cut
  <2>2. ~Watch!SyncCreated(r)
    BY DEF Watch!SyncCreated
  <2>3. ~Watch!SyncTransition(r)
    BY DEF Watch!SyncTransition
  <2>4. ~Watch!SyncRestored(r)
    BY DEF Watch!SyncRestored
  <2> QED
    BY <1>5, <2>1, <2>2, <2>3, <2>4
<1>6. ASSUME NEW r \in Request, NEW a, NEW appeal, NEW review, NEW x,
             Watch!UpdateAction(r, a, appeal, review, x)
      PROVE  FALSE
  BY <1>6 DEF Watch!UpdateAction
<1>7. ASSUME NEW r \in Request, NEW to, Watch!ReadToFold(r, to) PROVE FALSE
  BY <1>7 DEF Watch!ReadToFold
<1> QED
  BY <1>1, <1>2, <1>3, <1>4, <1>5, <1>6, <1>7 DEF Watch!Next

-----------------------------------------------------------------------------
(* Subscription: what Stripe bills, the rows and items of the table, and the  *)
(* requests between them.                                                    *)

SubStates == {"trialing", "active", "past_due", "canceled"}

\* Steps of the requests that set up, leave or transfer the items of a circle,
\* and those of the handlers of Stripe's other two events.
CircleSteps ==
  {"active", "invite", "createSub", "trialSub", "createItem", "insertItem", "insertRow",
   "accept", "transferred", "failed", "items", "leave", "markCanceled", "archiveOne",
   "endTrial", "endItem", "card", "countItems"}
StatusSteps == {"row", "update", "archiveAll"}
InvoiceSteps == {"tx", "split"}

SubRow == [provider: {"none", "stripe", "matters"}, state: SubStates \cup {"none"}]
SubBill == [status: SubStates \cup {"none"}, circles: SUBSET Circle]
SubRequest ==
  [step: CircleSteps \cup StatusSteps \cup InvoiceSteps \cup {"idle", "ack"},
   event: Sub!Event \cup {Sub!NoEvent}, circle: Circle \cup {"none"},
   sub: Subscribed \cup {"none"}, seen: SUBSET (Subscribed \cup SubStates \cup {"none"}),
   alone: BOOLEAN]

SubTypes ==
  /\ stripeSub \in [Subscribed -> SubBill]
  /\ subscriptionRow \in [Subscribed -> SubRow]
  /\ item \in [Subscribed -> [Circle -> {"none", "kept", "archived"}]]
  /\ DOMAIN invite = Circle
  /\ invoiced \in [Subscribed -> Nat]
  /\ acked \subseteq sent /\ sent \subseteq Sub!Event
  /\ process \in [Request -> SubRequest]

\* A request at a step holds what the step is about.
Holds(q) ==
  /\ q.event = Sub!NoEvent \/ q.event \in sent
  /\ q.step = "ack" => q.event \in sent
  /\ q.step \in CircleSteps =>
       q.circle \in Circle /\ q.event.type \in {"none", "setup_intent"}
  /\ q.step \in StatusSteps => q.event.type = "subscription"
  /\ q.step \in InvoiceSteps => q.event.type = "invoice"
  /\ q.step \in {"update", "archiveAll", "split"} => q.sub = q.event.sub
  /\ q.step \in {"insertRow", "createItem", "insertItem", "leave", "markCanceled", "archiveOne",
                 "endTrial", "endItem", "countItems"} => q.sub \in Subscribed
  /\ q.step \in {"invite", "items", "leave", "markCanceled", "archiveOne"} =>
       q.seen \subseteq Subscribed
  /\ q.step = "idle" => q = Sub!Idle
  /\ q.step \in {"createItem", "insertItem", "update", "leave", "markCanceled", "countItems",
                 "endTrial"} => subscriptionRow[q.sub] # Sub!NoRow

StepsHold == \A p \in Request : Holds(process[p])

\* What the table and Stripe never contradict each other about.
BooksFit ==
  \A s \in Subscribed :
    /\ Sub!Status(s, "canceled") \in sent <=> stripeSub[s].status = "canceled"
    /\ subscriptionRow[s].provider = "matters" => stripeSub[s] = Sub!NoSub
    /\ subscriptionRow[s].provider = "none" => subscriptionRow[s] = Sub!NoRow
    /\ subscriptionRow[s].provider # "none" => subscriptionRow[s].state # "none"
    /\ subscriptionRow[s] = Sub!NoRow => Sub!Kept(s) = {}

\* An invoice that is being answered is in the table, once.
InvoicesFit ==
  /\ \A s \in Subscribed : invoiced[s] <= 1 /\ (Sub!Invoice(s) \in acked => invoiced[s] = 1)
  /\ \A p \in Request : process[p].step = "ack" /\ process[p].event.type = "invoice" =>
       invoiced[process[p].event.sub] = 1

Only(p) == \A x \in Request \ {p} : process[x] = Sub!Idle

\* What a request is about to end is the last item.
LastItem(q) ==
  /\ q.step = "countItems" => item[q.sub][q.circle] = "kept"
  /\ q.step \in {"markCanceled", "endTrial"} \/ (q.step = "leave" /\ q.alone) =>
       Sub!Kept(q.sub) \subseteq {q.circle}

\* Without an overlap one request is at work.
LastItemEnds ==
  "overlap" \notin troubles =>
    \A p \in Request : process[p] # Sub!Idle => Only(p) /\ LastItem(process[p])

Ended(s) == subscriptionRow[s].state = "canceled" /\ Sub!Kept(s) = {}

\* With q alone at work, the table follows Stripe about one subscription: whom
\* Stripe bills are the items kept, but for what q is about to write.
RowFollows(s, q) ==
  /\ subscriptionRow[s].provider = "stripe" /\ subscriptionRow[s].state = "canceled" =>
       stripeSub[s].status = "canceled"
  /\ Sub!Status(s, "canceled") \in acked => Ended(s)
  /\ stripeSub[s].status \in Sub!Live =>
       /\ subscriptionRow[s].provider = "stripe" \/ (q.step = "insertRow" /\ q.sub = s)
       /\ q.sub = s /\ q.step \in {"insertRow", "insertItem"} =>
            Sub!Kept(s) \cup {q.circle} = stripeSub[s].circles
       /\ q.sub = s /\ q.step = "archiveOne" =>
            Sub!Kept(s) \ {q.circle} = stripeSub[s].circles
       /\ ~(q.sub = s /\ q.step \in {"insertRow", "insertItem", "archiveOne"}) =>
            Sub!Kept(s) = stripeSub[s].circles

\* What q has read is still so.
ReadsHold(q) ==
  /\ q.step = "insertRow" => subscriptionRow[q.sub] = Sub!NoRow
  /\ q.step \in {"insertRow", "insertItem"} => Sub!Status(q.sub, "canceled") \notin acked
  /\ q.step = "update" => q.seen = {subscriptionRow[q.sub].state}
  /\ q.step = "archiveAll" => subscriptionRow[q.sub].state = "canceled"
  /\ q.step = "ack" /\ q.event.type = "subscription" /\ q.event.status = "canceled" =>
       Ended(q.event.sub)
  /\ q.step = "markCanceled" =>
       subscriptionRow[q.sub].provider = "matters" \/ stripeSub[q.sub].status = "canceled"
  /\ q.step \in {"countItems", "endTrial", "endItem"} =>
       subscriptionRow[q.sub].provider = "matters"

TableFit(q) == ReadsHold(q) /\ \A s \in Subscribed : RowFollows(s, q)

TableFollows ==
  troubles = {} =>
    /\ \A p \in Request : Only(p) => TableFit(process[p])
    /\ (\A p \in Request : process[p] = Sub!Idle) => TableFit(Sub!Idle)

SubInv == SubTypes /\ StepsHold /\ BooksFit /\ InvoicesFit /\ LastItemEnds /\ TableFollows

\* An event tells its kind, and no event is two.
LEMMA SubEvents ==
  ASSUME NEW e \in Sub!Event \cup {Sub!NoEvent}
  PROVE  /\ e.type = "setup_intent" => e.circle \in Circle /\ e = Sub!Setup(e.circle)
         /\ e.type = "subscription" =>
              e.sub \in Subscribed /\ e.status \in SubStates /\ e = Sub!Status(e.sub, e.status)
         /\ e.type = "invoice" => e.sub \in Subscribed /\ e = Sub!Invoice(e.sub)
         /\ e.type = "none" <=> e = Sub!NoEvent
         /\ e.type \in {"none", "setup_intent", "subscription", "invoice"}
BY DEF Sub!Event, Sub!NoEvent, Sub!None, Sub!Setup, Sub!Status, Sub!Invoice, Sub!Live, SubStates

\* Events have one of three types.
LEMMA SubEventTypes ==
  /\ \A c \in Circle : Sub!Setup(c).type = "setup_intent" /\ Sub!Setup(c) \in Sub!Event
  /\ \A s \in Subscribed : Sub!Invoice(s).type = "invoice" /\ Sub!Invoice(s) \in Sub!Event
                            /\ Sub!Invoice(s).sub = s
  /\ \A s \in Subscribed, st \in SubStates :
       /\ Sub!Status(s, st).type = "subscription" /\ Sub!Status(s, st) \in Sub!Event
       /\ Sub!Status(s, st).sub = s /\ Sub!Status(s, st).status = st
  /\ Sub!NoEvent.type = "none" /\ Sub!NoEvent \notin Sub!Event
<1>1. \A c \in Circle : Sub!Setup(c).type = "setup_intent" /\ Sub!Setup(c) \in Sub!Event
  BY DEF Sub!Event, Sub!Setup
<1>2. \A s \in Subscribed : Sub!Invoice(s).type = "invoice" /\ Sub!Invoice(s) \in Sub!Event
                            /\ Sub!Invoice(s).sub = s
  BY DEF Sub!Event, Sub!Invoice
<1>3. \A s \in Subscribed, st \in SubStates :
       /\ Sub!Status(s, st).type = "subscription" /\ Sub!Status(s, st) \in Sub!Event
       /\ Sub!Status(s, st).sub = s /\ Sub!Status(s, st).status = st
  BY DEF Sub!Event, Sub!Status, Sub!Live, SubStates
<1>4. Sub!NoEvent.type = "none" /\ Sub!NoEvent \notin Sub!Event
  <2>1. \A e \in Sub!Event : e.type # "none"
    BY DEF Sub!Event, Sub!Setup, Sub!Status, Sub!Invoice
  <2> QED
    BY <2>1 DEF Sub!NoEvent, Sub!None
<1> QED
  BY <1>1, <1>2, <1>3, <1>4

\* Who has left holds nothing.
LEMMA SubIdle ==
  /\ Sub!Idle \in SubRequest /\ Sub!Idle.step = "idle" /\ Sub!Idle.event = Sub!NoEvent
  /\ Sub!Idle.sub = "none" /\ Holds(Sub!Idle) /\ LastItem(Sub!Idle) /\ ReadsHold(Sub!Idle)
BY DEF Sub!Idle, Sub!None, SubRequest, Holds, LastItem, ReadsHold, CircleSteps, StatusSteps,
       InvoiceSteps

\* Nobody subscribed at first.
LEMMA SubInit == Sub!Init => SubInv
<1> SUFFICES ASSUME Sub!Init PROVE SubInv
  OBVIOUS
<1>1. \A p \in Request : process[p] = Sub!Idle
  BY DEF Sub!Init
<1>2. SubTypes
  <2>1. sent \subseteq Sub!Event
    BY SubEventTypes DEF Sub!Init
  <2>2. process \in [Request -> SubRequest]
    BY SubIdle DEF Sub!Init
  <2>3. stripeSub \in [Subscribed -> SubBill] /\ subscriptionRow \in [Subscribed -> SubRow]
    BY DEF Sub!Init, SubBill, SubRow, Sub!NoSub, Sub!NoRow
  <2> QED
    BY <2>1, <2>2, <2>3 DEF Sub!Init, SubTypes
<1>3. StepsHold
  BY <1>1, SubIdle DEF StepsHold
<1>4. \A s \in Subscribed : Sub!Status(s, "canceled") \notin sent
  BY SubEventTypes DEF Sub!Init, SubStates
<1>5. \A s \in Subscribed : stripeSub[s] = Sub!NoSub /\ subscriptionRow[s] = Sub!NoRow
                            /\ Sub!Kept(s) = {}
  BY DEF Sub!Init, Sub!Kept
<1>6. BooksFit
  BY <1>4, <1>5 DEF BooksFit, Sub!NoSub, Sub!NoRow
<1>7. InvoicesFit
  BY <1>1, SubIdle DEF InvoicesFit, Sub!Init
<1>8. LastItemEnds
  BY <1>1 DEF LastItemEnds
<1>9. TableFit(Sub!Idle)
  <2>1. \A s \in Subscribed : RowFollows(s, Sub!Idle)
    BY <1>5 DEF RowFollows, Sub!NoSub, Sub!NoRow, Sub!Live, Sub!Init
  <2> QED
    BY <2>1, SubIdle DEF TableFit
<1>10. TableFollows
  BY <1>1, <1>9 DEF TableFollows
<1> QED
  BY <1>2, <1>3, <1>6, <1>7, <1>8, <1>10 DEF SubInv

\* Request p moves on to next, the others stay: what is to be shown is about
\* next, and about the subscriptions.
LEMMA SubMoves ==
  ASSUME SubInv, NEW p \in Request, NEW next \in SubRequest,
         process' = [process EXCEPT ![p] = next],
         SubTypes', BooksFit', Holds(next)',
         sent \subseteq sent', troubles \subseteq troubles',
         \A s \in Subscribed : subscriptionRow[s] # Sub!NoRow => subscriptionRow'[s] # Sub!NoRow,
         \A s \in Subscribed : invoiced'[s] = invoiced[s] \/ (invoiced[s] = 0 /\ invoiced'[s] = 1),
         \A s \in Subscribed : Sub!Invoice(s) \in acked' => invoiced'[s] = 1,
         next.step = "ack" /\ next.event.type = "invoice" => invoiced'[next.event.sub] = 1,
         "overlap" \notin troubles' => Only(p) /\ LastItem(next)',
         troubles' = {} => TableFit(next)'
  PROVE  SubInv'
<1>1. process' \in [Request -> SubRequest] /\ process'[p] = next
      /\ \A x \in Request : x # p => process'[x] = process[x]
  BY DEF SubInv, SubTypes
<1>2. StepsHold'
  <2> SUFFICES ASSUME NEW x \in Request PROVE Holds(process[x])'
    BY DEF StepsHold
  <2>1. CASE x = p
    BY <2>1, <1>1 DEF Holds
  <2>2. CASE x # p
    <3>1. process'[x] = process[x] /\ Holds(process[x]) /\ process[x] \in SubRequest
      BY <2>2, <1>1 DEF SubInv, StepsHold, SubTypes
    <3>2. process[x].event.type = "subscription" => process[x].event.sub \in Subscribed
      BY <3>1, SubEvents DEF SubRequest
    <3>3. process[x].step \in {"createItem", "insertItem", "update", "leave", "markCanceled",
            "countItems", "endTrial"} => subscriptionRow'[process[x].sub] # Sub!NoRow
      BY <3>1, <3>2 DEF Holds, StatusSteps
    <3> QED
      BY <3>1, <3>3 DEF Holds
  <2> QED
    BY <2>1, <2>2
<1>3. InvoicesFit'
  <2>1. \A s \in Subscribed : invoiced'[s] <= 1
    <3> SUFFICES ASSUME NEW s \in Subscribed PROVE invoiced'[s] <= 1
      OBVIOUS
    <3>1. invoiced[s] <= 1
      BY DEF SubInv, InvoicesFit
    <3> QED
      BY <3>1
  <2>2. ASSUME NEW x \in Request, process'[x].step = "ack", process'[x].event.type = "invoice"
        PROVE  invoiced'[process'[x].event.sub] = 1
    <3>1. CASE x = p
      BY <2>2, <3>1, <1>1
    <3>2. CASE x # p
      <4>1. process[x].event.sub \in Subscribed /\ invoiced[process[x].event.sub] = 1
        BY <1>1, <2>2, <3>2, SubEvents DEF SubInv, InvoicesFit, SubTypes, SubRequest
      <4> QED
        BY <4>1, <1>1, <3>2
    <3> QED
      BY <3>1, <3>2
  <2> QED
    BY <2>1, <2>2 DEF InvoicesFit
<1>4. LastItemEnds'
  <2> SUFFICES ASSUME "overlap" \notin troubles', NEW x \in Request, process'[x] # Sub!Idle
               PROVE  Only(x)' /\ LastItem(process[x])'
    BY DEF LastItemEnds
  <2>1. x = p /\ Only(p)'
    BY <1>1 DEF Only
  <2>2. LastItem(process[x])'
    BY <2>1, <1>1 DEF LastItem
  <2> QED
    BY <2>1, <2>2
<1>5. TableFollows'
  <2> SUFFICES ASSUME troubles' = {}
               PROVE  /\ \A x \in Request : Only(x)' => TableFit(process[x])'
                      /\ (\A x \in Request : process'[x] = Sub!Idle) => TableFit(Sub!Idle)'
    BY DEF TableFollows
  <2>1. \A x \in Request : x # p => process'[x] = Sub!Idle
    BY <1>1 DEF Only
  <2>2. next = Sub!Idle => TableFit(Sub!Idle)'
    BY DEF TableFit, ReadsHold, RowFollows
  <2>3. ASSUME NEW x \in Request, Only(x)' PROVE TableFit(process[x])'
    <3>1. process'[x] = next
      BY <2>1, <2>3, <1>1 DEF Only
    <3> QED
      BY <3>1 DEF TableFit, ReadsHold, RowFollows
  <2> QED
    BY <2>2, <2>3, <1>1
<1> QED
  BY <1>2, <1>3, <1>4, <1>5 DEF SubInv

\* The table is locked for one request that changes circles at a time.
LEMMA SubWorker ==
  ASSUME SubInv, NEW p \in Request, process[p].step # "idle"
  PROVE  /\ process[p] \in SubRequest /\ Holds(process[p]) /\ process[p] # Sub!Idle
         /\ "overlap" \notin troubles => Only(p) /\ LastItem(process[p])
         /\ troubles = {} => TableFit(process[p])
BY SubIdle DEF SubInv, SubTypes, StepsHold, LastItemEnds, TableFollows

\* A request takes its next step.
LEMMA SubGoto ==
  ASSUME SubInv, NEW p \in Request, NEW step \in CircleSteps \cup StatusSteps \cup InvoiceSteps \cup {"ack"},
         Sub!Goto(p, step)
  PROVE  \E next \in SubRequest :
           /\ process' = [process EXCEPT ![p] = next]
           /\ next.step = step /\ next.event = process[p].event /\ next.circle = process[p].circle
           /\ next.sub = process[p].sub /\ next.seen = process[p].seen
           /\ next.alone = process[p].alone
<1> DEFINE next == [process[p] EXCEPT !.step = step]
<1>1. process[p] \in SubRequest
  BY DEF SubInv, SubTypes
<1>2. next \in SubRequest
  BY <1>1 DEF SubRequest
<1>3. process' = [process EXCEPT ![p] = next]
  BY DEF Sub!Goto
<1>4. /\ next.step = step /\ next.event = process[p].event /\ next.circle = process[p].circle
      /\ next.sub = process[p].sub /\ next.seen = process[p].seen
      /\ next.alone = process[p].alone
  BY <1>1 DEF SubRequest
<1> HIDE DEF next
<1> QED
  BY <1>2, <1>3, <1>4

Writing == {"insertRow", "insertItem", "archiveOne"}

\* Nothing but a request moves on.
LEMMA SubProceeds ==
  ASSUME SubInv, NEW p \in Request, NEW next \in SubRequest,
         process' = [process EXCEPT ![p] = next],
         UNCHANGED <<stripeSub, subscriptionRow, item, sent, acked, invoiced>>,
         DOMAIN invite' = Circle, troubles \subseteq troubles', Holds(next),
         next.step = "ack" /\ next.event.type = "invoice" => invoiced[next.event.sub] = 1,
         "overlap" \notin troubles' => Only(p) /\ LastItem(next),
         troubles' = {} =>
           /\ ReadsHold(next) /\ process[p].step \notin Writing
           /\ next.step # "insertRow"
           /\ next.step \in Writing => stripeSub[next.sub].status \notin Sub!Live
  PROVE  SubInv'
<1>1. SubTypes'
  BY DEF SubInv, SubTypes
<1>2. BooksFit' /\ Holds(next)'
  BY DEF SubInv, BooksFit, Holds, Sub!Kept
<1>3. "overlap" \notin troubles' => LastItem(next)'
  BY DEF LastItem, Sub!Kept
<1>4. ASSUME troubles' = {} PROVE TableFit(next)'
  <2>1. TableFit(process[p])
    BY <1>4 DEF SubInv, TableFollows
  <2>2. \A s \in Subscribed : RowFollows(s, next)
    BY <2>1, <1>4 DEF TableFit, RowFollows, Writing
  <2>3. ReadsHold(next)' /\ \A s \in Subscribed : RowFollows(s, next)'
    BY <2>2, <1>4 DEF ReadsHold, RowFollows, Ended, Sub!Kept
  <2> QED
    BY <2>3 DEF TableFit
<1>5. /\ \A s \in Subscribed : subscriptionRow[s] # Sub!NoRow => subscriptionRow'[s] # Sub!NoRow
      /\ \A s \in Subscribed : invoiced'[s] = invoiced[s] \/ (invoiced[s] = 0 /\ invoiced'[s] = 1)
      /\ \A s \in Subscribed : Sub!Invoice(s) \in acked' => invoiced'[s] = 1
  BY DEF SubInv, InvoicesFit
<1> QED
  BY <1>1, <1>2, <1>3, <1>4, <1>5, SubMoves

\* A request begins.
LEMMA SubBegin ==
  ASSUME SubInv, NEW p \in Request, NEW first \in SubRequest, NEW extra, Sub!Begin(p, first, extra),
         Holds(first), first.step # "ack", first.step \notin Writing,
         "overlap" \notin troubles => LastItem(first), troubles = {} /\ extra = {} => ReadsHold(first)
  PROVE  SubInv'
<1>1. process' = [process EXCEPT ![p] = first] /\ process[p] = Sub!Idle
      /\ UNCHANGED <<stripeSub, subscriptionRow, item, invite, sent, acked, invoiced>>
      /\ troubles \subseteq troubles' /\ extra \subseteq troubles'
      /\ ("overlap" \notin troubles' => Only(p))
  BY DEF Sub!Begin, Only
<1>2. troubles' = {} => ReadsHold(first)
  BY <1>1
<1> QED
  BY <1>1, <1>2, SubIdle, SubProceeds DEF Writing, SubInv, SubTypes

\* An event of Stripe arrives, once more or out of order.
LEMMA SubReceive ==
  ASSUME SubInv, NEW p \in Request, NEW e \in sent, Sub!Receive(p, e)
  PROVE  SubInv'
<1> PICK first : first = [Sub!Idle EXCEPT !.event = e, !.step = Sub!FirstStep(e),
                            !.circle = IF e.type = "setup_intent" THEN e.circle ELSE Sub!None]
  OBVIOUS
<1> DEFINE extra == IF e \in acked THEN {"again"} ELSE {}
<1>1. e \in Sub!Event
  BY DEF SubInv, SubTypes
<1>2. \/ e.type = "setup_intent" /\ e.circle \in Circle /\ Sub!FirstStep(e) = "active"
      \/ e.type = "subscription" /\ Sub!FirstStep(e) = "row"
      \/ e.type = "invoice" /\ Sub!FirstStep(e) = "tx"
  BY <1>1, SubEvents, SubEventTypes DEF Sub!FirstStep
<1>3. first \in SubRequest /\ first.event = e /\ first.step = Sub!FirstStep(e)
      /\ (e.type = "setup_intent" => first.circle = e.circle)
  BY <1>1, <1>2 DEF SubRequest, Sub!Idle, Sub!None, CircleSteps, StatusSteps, InvoiceSteps
<1>4. Sub!Begin(p, first, extra)
  BY DEF Sub!Receive
<1> HIDE DEF extra
<1>5. Holds(first) /\ LastItem(first) /\ ReadsHold(first)
  BY <1>2, <1>3 DEF Holds, LastItem, ReadsHold, CircleSteps, StatusSteps, InvoiceSteps
<1> QED
  BY <1>2, <1>3, <1>4, <1>5, SubBegin DEF Writing

\* A member leaves a circle.
LEMMA SubUnsubscribe ==
  ASSUME SubInv, NEW p \in Request, NEW c \in Circle, Sub!Unsubscribe(p, c)
  PROVE  SubInv'
<1> PICK first : first = [Sub!Idle EXCEPT !.circle = c, !.seen = Sub!ActiveRows, !.step = "items"]
  OBVIOUS
<1>1. /\ first \in SubRequest /\ first.step = "items" /\ first.event = Sub!NoEvent
      /\ first.circle = c /\ first.seen \subseteq Subscribed
  BY DEF SubRequest, Sub!Idle, Sub!None, CircleSteps, Sub!ActiveRows
<1>2. Sub!Begin(p, first, {})
  BY DEF Sub!Unsubscribe
<1>3. Holds(first) /\ LastItem(first) /\ ReadsHold(first)
  BY <1>1, SubEventTypes DEF Holds, LastItem, ReadsHold, CircleSteps, StatusSteps, InvoiceSteps
<1> QED
  BY <1>1, <1>2, <1>3, SubBegin DEF Writing

\* The trial of a subscription ends.
LEMMA SubTrialEnds ==
  ASSUME SubInv, NEW p \in Request, NEW s \in Subscribed, NEW c \in Circle, Sub!TrialEnds(p, s, c)
  PROVE  SubInv'
<1> PICK first : first = [Sub!Idle EXCEPT !.circle = c, !.sub = s, !.step = "countItems"]
  OBVIOUS
<1>1. /\ first \in SubRequest /\ first.step = "countItems" /\ first.event = Sub!NoEvent
      /\ first.circle = c /\ first.sub = s
  BY DEF SubRequest, Sub!Idle, Sub!None, CircleSteps
<1>2. Sub!Begin(p, first, {})
  BY DEF Sub!TrialEnds
<1>3. subscriptionRow[s].provider = "matters" /\ item[s][c] = "kept"
  BY DEF Sub!TrialEnds
<1>4. Holds(first) /\ LastItem(first) /\ ReadsHold(first)
  BY <1>1, <1>3, SubEventTypes DEF Holds, LastItem, ReadsHold, CircleSteps, StatusSteps,
     InvoiceSteps, Sub!NoRow
<1> QED
  BY <1>1, <1>2, <1>4, SubBegin DEF Writing

\* A request stops, and what it had to do is left undone.
LEMMA SubStop ==
  ASSUME SubInv, NEW p \in Request, Sub!Stop(p)
  PROVE  SubInv'
<1>1. /\ process' = [process EXCEPT ![p] = Sub!Idle] /\ troubles \subseteq troubles' /\ troubles' # {}
      /\ UNCHANGED <<stripeSub, subscriptionRow, item, invite, sent, acked, invoiced>>
      /\ process[p] # Sub!Idle
  BY DEF Sub!Stop, Sub!Done
<1>2. "overlap" \notin troubles' => Only(p)
  BY <1>1 DEF SubInv, LastItemEnds
<1>3. DOMAIN invite' = Circle
  BY <1>1 DEF SubInv, SubTypes
<1> QED
  BY <1>1, <1>2, <1>3, SubIdle, SubProceeds

\* A request that reads goes on to another step, holding what it held.
LEMMA SubGoesOn ==
  ASSUME SubInv, NEW p \in Request,
         NEW step \in CircleSteps \cup StatusSteps \cup InvoiceSteps \cup {"ack"},
         Sub!Goto(p, step),
         UNCHANGED <<stripeSub, subscriptionRow, item, sent, acked, invoiced, troubles>>,
         DOMAIN invite' = Circle, process[p].step \in CircleSteps \ Writing,
         step \in {"active", "failed", "transferred", "ack", "createSub", "trialSub", "items",
                   "card", "endTrial", "endItem"},
         step = "ack" => process[p].event # Sub!NoEvent,
         step = "items" => process[p].step = "leave",
         step \in {"endTrial", "endItem"} => process[p].step = "countItems",
         step = "endTrial" /\ "overlap" \notin troubles =>
           Sub!Kept(process[p].sub) \subseteq {process[p].circle}
  PROVE  SubInv'
<1>0. PICK next \in SubRequest :
           /\ process' = [process EXCEPT ![p] = next]
           /\ next.step = step /\ next.event = process[p].event /\ next.circle = process[p].circle
           /\ next.sub = process[p].sub /\ next.seen = process[p].seen
           /\ next.alone = process[p].alone
  BY SubGoto
<1>1. process[p].step # "idle"
  BY DEF CircleSteps
<1>2. /\ process[p] \in SubRequest /\ Holds(process[p]) /\ process[p] # Sub!Idle
      /\ "overlap" \notin troubles => Only(p) /\ LastItem(process[p])
      /\ troubles = {} => TableFit(process[p])
  BY <1>1, SubWorker
<1>3. next.event.type \in {"none", "setup_intent"} /\ next.circle \in Circle
  BY <1>0, <1>2 DEF Holds
<1>4. Holds(next)
  BY <1>0, <1>2, <1>3 DEF Holds, CircleSteps, StatusSteps, InvoiceSteps
<1>5. "overlap" \notin troubles => LastItem(next)
  BY <1>0, <1>2 DEF LastItem
<1>6. troubles = {} => ReadsHold(next)
  BY <1>0, <1>2, <1>3 DEF ReadsHold, TableFit
<1> QED
  BY <1>0, <1>2, <1>3, <1>4, <1>5, <1>6, SubProceeds DEF Writing

\* Stripe refuses what it was asked for.
LEMMA SubRefusedByStripe ==
  ASSUME SubInv, NEW p \in Request, Sub!RefusedByStripe(p)
  PROVE  SubInv'
<1>1. process[p].step = "createItem" /\ DOMAIN invite' = Circle
      /\ UNCHANGED <<stripeSub, subscriptionRow, item, sent, acked, invoiced, troubles>>
  BY DEF Sub!RefusedByStripe, SubInv, SubTypes
<1>2. CASE Sub!ForJob(p)
  BY <1>1, <1>2, SubGoesOn DEF Sub!RefusedByStripe, CircleSteps, Writing
<1>3. CASE ~Sub!ForJob(p)
  <2>1. process' = [process EXCEPT ![p] = Sub!Idle]
    BY <1>3 DEF Sub!RefusedByStripe, Sub!Done
  <2> QED
    BY <2>1, <1>1, SubWorker, SubIdle, SubProceeds DEF Writing
<1> QED
  BY <1>2, <1>3

\* An invitation is accepted.
LEMMA SubAcceptInvitation ==
  ASSUME SubInv, NEW p \in Request, Sub!AcceptInvitation(p)
  PROVE  SubInv'
<1>1. process[p].step = "accept" /\ DOMAIN invite' = Circle
      /\ UNCHANGED <<stripeSub, subscriptionRow, item, sent, acked, invoiced, troubles>>
  BY DEF Sub!AcceptInvitation, SubInv, SubTypes
<1>2. PICK step \in {"transferred", "ack"} :
        Sub!Goto(p, step) /\ (step = "ack" => process[p].event # Sub!NoEvent)
  BY DEF Sub!AcceptInvitation, Sub!ForJob
<1> QED
  BY <1>1, <1>2, SubGoesOn DEF CircleSteps, Writing

\* There is nothing to leave.
LEMMA SubRefusesLeave ==
  ASSUME SubInv, NEW p \in Request, Sub!RefusesLeave(p)
  PROVE  SubInv'
<1>1. process[p].step = "leave" /\ DOMAIN invite' = Circle /\ Sub!Goto(p, "items")
      /\ UNCHANGED <<stripeSub, subscriptionRow, item, sent, acked, invoiced, troubles>>
  BY DEF Sub!RefusesLeave, SubInv, SubTypes
<1> QED
  BY <1>1, SubGoesOn DEF CircleSteps, Writing

\* A card is asked for, unless the circle is free for a while.
LEMMA SubCheckCard ==
  ASSUME SubInv, NEW p \in Request, Sub!CheckCard(p)
  PROVE  SubInv'
<1>1. process[p].step = "card" /\ DOMAIN invite' = Circle
      /\ UNCHANGED <<stripeSub, subscriptionRow, item, sent, acked, invoiced, troubles>>
  BY DEF Sub!CheckCard, SubInv, SubTypes
<1>2. PICK step \in {"active", "failed"} : Sub!Goto(p, step)
  BY DEF Sub!CheckCard
<1> QED
  BY <1>1, <1>2, SubGoesOn DEF CircleSteps, Writing

\* An invitation is marked as accepted.
LEMMA SubMarkInvitation ==
  ASSUME SubInv, NEW p \in Request, Sub!MarkInvitation(p)
  PROVE  SubInv'
<1>1. process[p].step \in {"transferred", "failed"} /\ DOMAIN invite' = Circle
      /\ process' = [process EXCEPT ![p] = Sub!Idle]
      /\ UNCHANGED <<stripeSub, subscriptionRow, item, sent, acked, invoiced, troubles>>
  BY DEF Sub!MarkInvitation, SubInv, SubTypes, Sub!Done
<1> QED
  BY <1>1, SubWorker, SubIdle, SubProceeds DEF Writing

\* A set of one member at most is that member.
LEMMA SubAlone ==
  ASSUME SubInv, NEW s \in Subscribed, NEW c \in Circle, item[s][c] = "kept",
         Sub!Alone(Sub!Kept(s))
  PROVE  Sub!Kept(s) \subseteq {c}
<1>1. IsFiniteSet(Sub!Kept(s)) /\ c \in Sub!Kept(s)
  BY CommunityAssumption, FS_Subset DEF Sub!Kept
<1>2. Cardinality(Sub!Kept(s)) <= 1 /\ Cardinality(Sub!Kept(s)) \in Nat
  BY <1>1, SubCounts, FS_CardinalityType DEF Sub!Alone
<1>3. SUFFICES ASSUME NEW d \in Sub!Kept(s), d # c PROVE FALSE
  OBVIOUS
<1>4. {c, d} \subseteq Sub!Kept(s) /\ IsFiniteSet({c, d})
  BY <1>1, FS_Subset
<1>5. Cardinality({c, d}) <= Cardinality(Sub!Kept(s))
  BY <1>1, <1>4, FS_Subset
<1>6. Cardinality({c, d}) = 2
  <2>1. IsFiniteSet({c}) /\ Cardinality({c}) = 1
    BY FS_Singleton
  <2>2. {c, d} = {c} \cup {d} /\ d \notin {c}
    BY <1>3
  <2>3. Cardinality({c} \cup {d}) = Cardinality({c}) + 1
    BY <2>1, <2>2, FS_AddElement
  <2> QED
    BY <2>1, <2>2, <2>3
<1> QED
  BY <1>2, <1>5, <1>6

\* The items that are left are counted.
LEMMA SubCountItems ==
  ASSUME SubInv, NEW p \in Request, Sub!CountItems(p)
  PROVE  SubInv'
<1>1. process[p].step = "countItems" /\ DOMAIN invite' = Circle
      /\ UNCHANGED <<stripeSub, subscriptionRow, item, sent, acked, invoiced, troubles>>
  BY DEF Sub!CountItems, SubInv, SubTypes
<1>2. PICK step \in {"endTrial", "endItem"} :
        Sub!Goto(p, step) /\ (step = "endTrial" => Sub!Alone(Sub!Kept(process[p].sub)))
  BY DEF Sub!CountItems
<1>3. step = "endTrial" /\ "overlap" \notin troubles =>
        Sub!Kept(process[p].sub) \subseteq {process[p].circle}
  <2>1. Holds(process[p]) /\ ("overlap" \notin troubles => LastItem(process[p]))
    BY <1>1, SubWorker
  <2>2. process[p].sub \in Subscribed /\ process[p].circle \in Circle
    BY <2>1, <1>1 DEF Holds, CircleSteps
  <2> QED
    BY <1>1, <1>2, <2>1, <2>2, SubAlone DEF LastItem
<1> QED
  BY <1>1, <1>2, <1>3, SubGoesOn DEF CircleSteps, Writing

\* The active subscription is read.
LEMMA SubReadActive ==
  ASSUME SubInv, NEW p \in Request, Sub!ReadActive(p)
  PROVE  SubInv'
<1> DEFINE next == [process[p] EXCEPT !.seen = Sub!ActiveRows, !.step = "invite"]
<1>1. process[p].step = "active" /\ DOMAIN invite' = Circle /\ process' = [process EXCEPT ![p] = next]
      /\ UNCHANGED <<stripeSub, subscriptionRow, item, sent, acked, invoiced, troubles>>
  BY DEF Sub!ReadActive, SubInv, SubTypes
<1>2. /\ process[p] \in SubRequest /\ Holds(process[p]) /\ process[p] # Sub!Idle
      /\ "overlap" \notin troubles => Only(p)
  BY <1>1, SubWorker
<1>3. /\ next \in SubRequest /\ next.step = "invite" /\ next.event = process[p].event
      /\ next.circle = process[p].circle /\ next.seen \subseteq Subscribed
  BY <1>2 DEF SubRequest, Sub!ActiveRows, CircleSteps
<1> HIDE DEF next
<1>4. Holds(next) /\ LastItem(next) /\ ReadsHold(next)
  BY <1>1, <1>2, <1>3 DEF Holds, LastItem, ReadsHold, CircleSteps, StatusSteps, InvoiceSteps
<1> QED
  BY <1>1, <1>2, <1>3, <1>4, SubProceeds DEF Writing

\* The invitation to transfer is looked for.
LEMMA SubFindInvitation ==
  ASSUME SubInv, NEW p \in Request, Sub!FindInvitation(p)
  PROVE  SubInv'
<1>1. process[p].step = "invite" /\ DOMAIN invite' = Circle
      /\ UNCHANGED <<stripeSub, subscriptionRow, item, sent, acked, invoiced, troubles>>
  BY DEF Sub!FindInvitation, SubInv, SubTypes
<1>2. /\ process[p] \in SubRequest /\ Holds(process[p]) /\ process[p] # Sub!Idle
      /\ "overlap" \notin troubles => Only(p)
  BY <1>1, SubWorker
<1>3. CASE \E step \in {"createSub", "trialSub"} : Sub!Goto(p, step)
  BY <1>1, <1>3, SubGoesOn DEF CircleSteps, Writing
<1>4. ASSUME NEW s \in process[p].seen, NEW step \in {"createItem", "insertItem"},
             process' = [process EXCEPT ![p].sub = s, ![p].step = step],
             subscriptionRow[s].provider = IF step = "createItem" THEN "stripe" ELSE "matters"
      PROVE  SubInv'
  <2> DEFINE next == [process[p] EXCEPT !.sub = s, !.step = step]
  <2>1. s \in Subscribed
    BY <1>1, <1>2 DEF Holds
  <2>2. process' = [process EXCEPT ![p] = next]
    BY <1>4
  <2>3. /\ next \in SubRequest /\ next.step = step /\ next.event = process[p].event
        /\ next.circle = process[p].circle /\ next.sub = s
    BY <1>2, <2>1 DEF SubRequest, CircleSteps
  <2> HIDE DEF next
  <2>4. subscriptionRow[s] # Sub!NoRow
    BY <1>4 DEF Sub!NoRow
  <2>5. step = "insertItem" => stripeSub[s].status = "none"
    BY <1>4, <2>1 DEF SubInv, BooksFit, Sub!NoSub
  <2>6. step = "insertItem" => Sub!Status(s, "canceled") \notin acked
    BY <2>5, <2>1 DEF SubInv, BooksFit, SubTypes
  <2>7. Holds(next) /\ LastItem(next) /\ ReadsHold(next)
    BY <1>1, <1>2, <2>1, <2>3, <2>4, <2>6
       DEF Holds, LastItem, ReadsHold, CircleSteps, StatusSteps, InvoiceSteps
  <2> QED
    BY <1>1, <1>2, <2>2, <2>3, <2>5, <2>7, SubProceeds DEF Writing, Sub!Live
<1> QED
  BY <1>3, <1>4 DEF Sub!FindInvitation, Sub!Fitting

\* What a request may hold next.
LEMMA SubTakes ==
  ASSUME NEW q \in SubRequest, NEW seen \in SUBSET (Subscribed \cup SubStates \cup {"none"}),
         NEW s \in Subscribed \cup {"none"}, NEW alone \in BOOLEAN,
         NEW step \in CircleSteps \cup StatusSteps \cup InvoiceSteps \cup {"idle", "ack"}
  PROVE  [q EXCEPT !.seen = seen, !.sub = s, !.alone = alone, !.step = step] \in SubRequest
BY Zenon DEF SubRequest

\* ... when it has found its subscription.
LEMMA SubAims ==
  ASSUME NEW q \in SubRequest, NEW s \in Subscribed \cup {"none"},
         NEW seen \in SUBSET (Subscribed \cup SubStates \cup {"none"}),
         NEW step \in CircleSteps \cup StatusSteps \cup InvoiceSteps \cup {"idle", "ack"}
  PROVE  [q EXCEPT !.sub = s, !.seen = seen, !.step = step] \in SubRequest
BY Zenon DEF SubRequest

\* The items of the subscription are looked for.
LEMMA SubFindItems ==
  ASSUME SubInv, NEW p \in Request, Sub!FindItems(p)
  PROVE  SubInv'
<1>1. process[p].step = "items" /\ DOMAIN invite' = Circle
      /\ UNCHANGED <<stripeSub, subscriptionRow, item, sent, acked, invoiced, troubles>>
  BY DEF Sub!FindItems, SubInv, SubTypes
<1>2. /\ process[p] \in SubRequest /\ Holds(process[p]) /\ process[p] # Sub!Idle
      /\ "overlap" \notin troubles => Only(p)
  BY <1>1, SubWorker
<1>3. CASE process' = [process EXCEPT ![p] = Sub!Idle]
  BY <1>1, <1>2, <1>3, SubIdle, SubProceeds DEF Writing
<1>4. ASSUME NEW s \in process[p].seen, NEW step,
             step = IF process[p].circle \notin Sub!Kept(s) THEN "items"
                    ELSE IF subscriptionRow[s].provider = "stripe" THEN "leave"
                    ELSE IF Sub!Alone(Sub!Kept(s)) THEN "markCanceled" ELSE "archiveOne",
             NEW alone, alone = Sub!Alone(Sub!Kept(s)),
             NEW next,
             next = [process[p] EXCEPT !.seen = process[p].seen \ {s}, !.sub = s,
                                       !.alone = alone, !.step = step],
             process' = [process EXCEPT ![p] = next]
      PROVE  SubInv'
  <2>1. /\ step \in {"items", "leave", "markCanceled", "archiveOne"}
        /\ step # "items" => process[p].circle \in Sub!Kept(s)
        /\ step = "leave" => subscriptionRow[s].provider = "stripe"
        /\ step \in {"markCanceled", "archiveOne"} => subscriptionRow[s].provider # "stripe"
        /\ step = "markCanceled" => Sub!Alone(Sub!Kept(s))
    BY <1>4
  <2>2. s \in Subscribed /\ alone \in BOOLEAN /\ process[p].seen \subseteq Subscribed
    BY <1>1, <1>2, <1>4 DEF Holds, Sub!Alone
  <2>4. /\ next \in SubRequest /\ next.step = step /\ next.event = process[p].event
        /\ next.circle = process[p].circle /\ next.sub = s /\ next.alone = alone
        /\ next.seen \subseteq Subscribed
    <3>1. /\ process[p].seen \ {s} \in SUBSET (Subscribed \cup SubStates \cup {"none"})
          /\ step \in CircleSteps \cup StatusSteps \cup InvoiceSteps \cup {"idle", "ack"}
          /\ s \in Subscribed \cup {"none"} /\ alone \in BOOLEAN
      BY <2>1, <2>2 DEF CircleSteps
    <3>2. next \in SubRequest
      <4>1. process[p] \in SubRequest
        BY <1>2
      <4> QED
        BY <1>4, <3>1, <4>1, SubTakes
    <3>3. /\ next.step = step /\ next.event = process[p].event /\ next.circle = process[p].circle
          /\ next.sub = s /\ next.alone = alone /\ next.seen = process[p].seen \ {s}
      BY <1>2, <1>4 DEF SubRequest
    <3> QED
      BY <2>2, <3>2, <3>3
  <2>5. process[p].circle \in Circle /\ process[p].event.type \in {"none", "setup_intent"}
    BY <1>1, <1>2 DEF Holds, CircleSteps
  <2>6. step # "items" => /\ subscriptionRow[s] # Sub!NoRow
                          /\ subscriptionRow[s].provider \in {"stripe", "matters"}
    BY <2>1, <2>2 DEF SubInv, BooksFit, SubTypes, SubRow
  <2>7. step \in {"markCanceled", "archiveOne"} =>
          subscriptionRow[s].provider = "matters" /\ stripeSub[s].status = "none"
    BY <2>1, <2>2, <2>6 DEF SubInv, BooksFit, Sub!NoSub
  <2>8. step = "markCanceled" \/ (step = "leave" /\ alone) => Sub!Kept(s) \subseteq {process[p].circle}
    BY <1>4, <2>1, <2>2, <2>5, SubAlone DEF Sub!Kept
  <2>9. Holds(next)
    BY <1>2, <2>1, <2>2, <2>4, <2>5, <2>6 DEF Holds, CircleSteps, StatusSteps, InvoiceSteps
  <2>10. LastItem(next)
    BY <2>1, <2>4, <2>8 DEF LastItem
  <2>11. ReadsHold(next)
    BY <2>1, <2>4, <2>7 DEF ReadsHold
  <2> QED
    BY <1>1, <1>2, <1>4, <2>1, <2>4, <2>7, <2>9, <2>10, <2>11, SubProceeds DEF Writing, Sub!Live
<1> QED
  BY <1>3, <1>4 DEF Sub!FindItems, Sub!Done

\* The row of the subscription is looked for.
LEMMA SubFindRow ==
  ASSUME SubInv, NEW p \in Request, Sub!FindRow(p)
  PROVE  SubInv'
<1> PICK s : s = process[p].event.sub
  OBVIOUS
<1> PICK step : step = IF subscriptionRow[s] = Sub!NoRow THEN "ack" ELSE "update"
  OBVIOUS
<1> PICK state : state = subscriptionRow[s].state
  OBVIOUS
<1> DEFINE next == [process[p] EXCEPT !.sub = s, !.seen = {state}, !.step = step]
<1>1. process[p].step = "row" /\ DOMAIN invite' = Circle /\ process' = [process EXCEPT ![p] = next]
      /\ UNCHANGED <<stripeSub, subscriptionRow, item, sent, acked, invoiced>>
      /\ troubles \subseteq troubles' /\ (step = "ack" => troubles' # {})
  BY DEF Sub!FindRow, SubInv, SubTypes
<1>2. /\ process[p] \in SubRequest /\ Holds(process[p]) /\ process[p] # Sub!Idle
      /\ "overlap" \notin troubles => Only(p)
  BY <1>1, SubWorker
<1>3. process[p].event.type = "subscription" /\ process[p].event \in sent /\ s \in Subscribed
  BY <1>1, <1>2, SubEvents, SubEventTypes DEF Holds, StatusSteps, SubRequest
<1>4. /\ next \in SubRequest /\ next.step = step /\ next.event = process[p].event
      /\ next.sub = s /\ next.seen = {state}
  <2>1. state \in SubStates \cup {"none"}
    BY <1>3 DEF SubInv, SubTypes, SubRow
  <2>2. /\ step \in CircleSteps \cup StatusSteps \cup InvoiceSteps \cup {"idle", "ack"}
        /\ {state} \in SUBSET (Subscribed \cup SubStates \cup {"none"})
        /\ s \in Subscribed \cup {"none"}
    BY <1>3, <2>1 DEF StatusSteps
  <2>3. next \in SubRequest
    <3>1. process[p] \in SubRequest
      BY <1>2
    <3> QED
      BY <2>2, <3>1, SubAims
  <2>4. /\ next.step = step /\ next.event = process[p].event
        /\ next.sub = s /\ next.seen = {state}
    BY <1>2 DEF SubRequest
  <2> QED
    BY <2>3, <2>4
<1> HIDE DEF next
<1>5. Holds(next)
  BY <1>2, <1>3, <1>4 DEF Holds, CircleSteps, StatusSteps, InvoiceSteps
<1>6. LastItem(next) /\ (troubles' = {} => ReadsHold(next))
  BY <1>1, <1>4 DEF LastItem, ReadsHold
<1> QED
  BY <1>1, <1>2, <1>3, <1>4, <1>5, <1>6, SubProceeds DEF Writing

\* The row of the invoice is looked for.
LEMMA SubFindInvoice ==
  ASSUME SubInv, NEW p \in Request, Sub!FindInvoice(p)
  PROVE  SubInv'
<1> PICK s : s = process[p].event.sub
  OBVIOUS
<1> PICK step : step = IF invoiced[s] > 0 THEN "ack" ELSE "split"
  OBVIOUS
<1> DEFINE next == [process[p] EXCEPT !.sub = s, !.step = step]
<1>1. process[p].step = "tx" /\ DOMAIN invite' = Circle /\ process' = [process EXCEPT ![p] = next]
      /\ UNCHANGED <<stripeSub, subscriptionRow, item, sent, acked, invoiced, troubles>>
  BY DEF Sub!FindInvoice, SubInv, SubTypes
<1>2. /\ process[p] \in SubRequest /\ Holds(process[p]) /\ process[p] # Sub!Idle
      /\ "overlap" \notin troubles => Only(p)
  BY <1>1, SubWorker
<1>3. process[p].event.type = "invoice" /\ process[p].event \in sent /\ s \in Subscribed
  BY <1>1, <1>2, SubEvents, SubEventTypes DEF Holds, InvoiceSteps, SubRequest
<1>4. /\ next \in SubRequest /\ next.step = step /\ next.event = process[p].event /\ next.sub = s
  BY <1>2, <1>3 DEF SubRequest, InvoiceSteps
<1> HIDE DEF next
<1>5. Holds(next) /\ LastItem(next) /\ ReadsHold(next)
  BY <1>2, <1>3, <1>4
     DEF Holds, LastItem, ReadsHold, CircleSteps, StatusSteps, InvoiceSteps
<1>6. step = "ack" => invoiced[s] = 1
  BY <1>3 DEF SubInv, SubTypes, InvoicesFit
<1> QED
  BY <1>1, <1>2, <1>3, <1>4, <1>5, <1>6, SubProceeds DEF Writing

\* The event is acknowledged.
LEMMA SubAcknowledge ==
  ASSUME SubInv, NEW p \in Request, Sub!Acknowledge(p)
  PROVE  SubInv'
<1> PICK e : e = process[p].event
  OBVIOUS
<1>1. /\ process[p].step = "ack" /\ acked' = acked \cup {e}
      /\ process' = [process EXCEPT ![p] = Sub!Idle]
      /\ UNCHANGED <<stripeSub, subscriptionRow, item, invite, sent, invoiced, troubles>>
  BY DEF Sub!Acknowledge, Sub!Done
<1>2. /\ process[p] \in SubRequest /\ Holds(process[p])
      /\ "overlap" \notin troubles => Only(p)
      /\ troubles = {} => TableFit(process[p])
  BY <1>1, SubWorker
<1>3. e \in sent
  BY <1>1, <1>2 DEF Holds
<1>4. SubTypes'
  BY <1>1, <1>3, SubIdle DEF SubInv, SubTypes
<1>5. BooksFit' /\ Holds(Sub!Idle)' /\ LastItem(Sub!Idle)' /\ ReadsHold(Sub!Idle)'
  BY <1>1, SubIdle DEF SubInv, BooksFit, Sub!Kept, Holds, LastItem, ReadsHold
<1>6. \A s \in Subscribed : Sub!Invoice(s) \in acked' => invoiced'[s] = 1
  BY <1>1, SubEventTypes DEF SubInv, InvoicesFit
<1>7. ASSUME troubles' = {} PROVE TableFit(Sub!Idle)'
  <2>1. TableFit(process[p])
    BY <1>1, <1>2, <1>7
  <2>2. ASSUME NEW s \in Subscribed PROVE RowFollows(s, Sub!Idle)'
    <3>1. RowFollows(s, process[p])
      BY <2>1 DEF TableFit
    <3>2. Sub!Status(s, "canceled") = e => Ended(s)
      BY <2>1, <1>1, SubEventTypes DEF TableFit, ReadsHold, SubStates
    <3> QED
      BY <3>1, <3>2, <1>1, SubIdle DEF RowFollows, Ended, Sub!Kept
  <2> QED
    BY <2>2, <1>5 DEF TableFit
<1> QED
  BY <1>1, <1>2, <1>4, <1>5, <1>6, <1>7, SubIdle, SubMoves

\* A trial is a row and an item without Stripe.
LEMMA SubInsertTrial ==
  ASSUME SubInv, NEW p \in Request, Sub!InsertTrial(p)
  PROVE  SubInv'
<1>1. PICK s \in Sub!Free :
        /\ subscriptionRow' = [subscriptionRow EXCEPT ![s] = [provider |-> "matters", state |-> "trialing"]]
        /\ process' = [process EXCEPT ![p].sub = s, ![p].step = "insertItem"]
  BY DEF Sub!InsertTrial
<1>2. /\ process[p].step = "trialSub" /\ s \in Subscribed
      /\ subscriptionRow[s] = Sub!NoRow /\ stripeSub[s] = Sub!NoSub
      /\ UNCHANGED <<stripeSub, item, invite, sent, acked, invoiced, troubles>>
  BY DEF Sub!InsertTrial, Sub!Free
<1>3. /\ process[p] \in SubRequest /\ Holds(process[p])
      /\ "overlap" \notin troubles => Only(p)
      /\ troubles = {} => TableFit(process[p])
  BY <1>2, SubWorker
<1>4. PICK next \in SubRequest :
        /\ process' = [process EXCEPT ![p] = next]
        /\ next.step = "insertItem" /\ next.event = process[p].event
        /\ next.circle = process[p].circle /\ next.sub = s
  <2> DEFINE moved == [process[p] EXCEPT !.sub = s, !.step = "insertItem"]
  <2>1. process' = [process EXCEPT ![p] = moved]
    BY <1>1 DEF SubInv, SubTypes
  <2>2. /\ moved \in SubRequest /\ moved.step = "insertItem" /\ moved.event = process[p].event
        /\ moved.circle = process[p].circle /\ moved.sub = s
    BY <1>2, <1>3 DEF SubRequest, CircleSteps
  <2> HIDE DEF moved
  <2> QED
    BY <2>1, <2>2
<1>5. next \in SubRequest /\ next.step = "insertItem" /\ next.event = process[p].event
      /\ next.circle = process[p].circle /\ next.sub = s
  BY <1>4
<1>6. subscriptionRow' \in [Subscribed -> SubRow]
      /\ (\A x \in Subscribed : x # s => subscriptionRow'[x] = subscriptionRow[x])
      /\ subscriptionRow'[s].provider = "matters" /\ subscriptionRow'[s].state = "trialing"
  BY <1>1, <1>2 DEF SubInv, SubTypes, SubRow, SubStates
<1>7. SubTypes'
  BY <1>2, <1>4, <1>5, <1>6 DEF SubInv, SubTypes
<1>8. \A x \in Subscribed : Sub!Kept(x)' = Sub!Kept(x)
  BY <1>2 DEF Sub!Kept
<1>9. subscriptionRow'[s] # Sub!NoRow
  BY <1>6 DEF Sub!NoRow
<1>10. BooksFit'
  BY <1>2, <1>6, <1>8, <1>9 DEF SubInv, BooksFit
<1>11. Holds(next)'
  BY <1>2, <1>3, <1>5, <1>9 DEF Holds, CircleSteps, StatusSteps, InvoiceSteps
<1>12. LastItem(next)'
  BY <1>5 DEF LastItem
<1>13. ASSUME troubles' = {} PROVE TableFit(next)'
  <2>1. TableFit(process[p])
    BY <1>2, <1>3, <1>13
  <2>2. stripeSub[s].status = "none" /\ Sub!Status(s, "canceled") \notin acked
    BY <1>2 DEF SubInv, BooksFit, SubTypes, Sub!NoSub
  <2>3. ASSUME NEW x \in Subscribed PROVE RowFollows(x, next)'
    <3>1. RowFollows(x, process[p])
      BY <2>1 DEF TableFit
    <3> QED
      BY <3>1, <2>2, <1>2, <1>5, <1>6, <1>8 DEF RowFollows, Ended, Sub!Live
  <2>4. ReadsHold(next)'
    BY <2>2, <1>2, <1>5 DEF ReadsHold
  <2> QED
    BY <2>3, <2>4 DEF TableFit
<1>14. \A x \in Subscribed : Sub!Invoice(x) \in acked' => invoiced'[x] = 1
  BY <1>2 DEF SubInv, InvoicesFit
<1> QED
  BY <1>2, <1>3, <1>4, <1>5, <1>6, <1>7, <1>9, <1>10, <1>11, <1>12, <1>13, <1>14, SubMoves

\* Stripe makes the subscription before the table has it.
LEMMA SubCreateStripeSub ==
  ASSUME SubInv, NEW p \in Request, Sub!CreateStripeSub(p)
  PROVE  SubInv'
<1> PICK c : c = process[p].circle
  OBVIOUS
<1>1. PICK s \in Sub!Free :
        /\ stripeSub' = [stripeSub EXCEPT ![s] = [status |-> "trialing", circles |-> {c}]]
        /\ process' = [process EXCEPT ![p].sub = s, ![p].step = "insertRow"]
  BY DEF Sub!CreateStripeSub
<1>2. /\ process[p].step = "createSub" /\ s \in Subscribed
      /\ subscriptionRow[s] = Sub!NoRow /\ stripeSub[s] = Sub!NoSub
      /\ UNCHANGED <<subscriptionRow, item, invite, sent, acked, invoiced, troubles>>
  BY DEF Sub!CreateStripeSub, Sub!Free
<1>3. /\ process[p] \in SubRequest /\ Holds(process[p])
      /\ "overlap" \notin troubles => Only(p)
      /\ troubles = {} => TableFit(process[p])
  BY <1>2, SubWorker
<1>4. PICK next \in SubRequest :
        /\ process' = [process EXCEPT ![p] = next]
        /\ next.step = "insertRow" /\ next.event = process[p].event
        /\ next.circle = c /\ next.sub = s
  <2> DEFINE moved == [process[p] EXCEPT !.sub = s, !.step = "insertRow"]
  <2>1. process' = [process EXCEPT ![p] = moved]
    BY <1>1 DEF SubInv, SubTypes
  <2>2. /\ moved \in SubRequest /\ moved.step = "insertRow" /\ moved.event = process[p].event
        /\ moved.circle = c /\ moved.sub = s
    BY <1>2, <1>3 DEF SubRequest, CircleSteps
  <2> HIDE DEF moved
  <2> QED
    BY <2>1, <2>2
<1>5. next \in SubRequest /\ next.step = "insertRow" /\ next.event = process[p].event
      /\ next.circle = c /\ next.sub = s
  BY <1>4
<1>6. c \in Circle
  BY <1>2, <1>3 DEF Holds, CircleSteps
<1>7. stripeSub' \in [Subscribed -> SubBill]
      /\ (\A x \in Subscribed : x # s => stripeSub'[x] = stripeSub[x])
      /\ stripeSub'[s].status = "trialing" /\ stripeSub'[s].circles = {c}
  BY <1>1, <1>2, <1>6 DEF SubInv, SubTypes, SubBill, SubStates
<1>8. SubTypes'
  BY <1>2, <1>4, <1>5, <1>7 DEF SubInv, SubTypes
<1>9. (\A x \in Subscribed : Sub!Kept(x)' = Sub!Kept(x)) /\ Sub!Kept(s) = {}
      /\ Sub!Status(s, "canceled") \notin sent /\ subscriptionRow[s].provider = "none"
      /\ subscriptionRow[s].state = "none"
  BY <1>2 DEF Sub!Kept, SubInv, BooksFit, Sub!NoSub, Sub!NoRow
<1>10. BooksFit'
  BY <1>2, <1>7, <1>9 DEF SubInv, BooksFit
<1>11. Holds(next)'
  BY <1>2, <1>3, <1>5, <1>6 DEF Holds, CircleSteps, StatusSteps, InvoiceSteps
<1>12. LastItem(next)'
  BY <1>5 DEF LastItem
<1>13. ASSUME troubles' = {} PROVE TableFit(next)'
  <2>1. TableFit(process[p])
    BY <1>2, <1>3, <1>13
  <2>2. Sub!Status(s, "canceled") \notin acked
    BY <1>9 DEF SubInv, SubTypes
  <2>3. ASSUME NEW x \in Subscribed PROVE RowFollows(x, next)'
    <3>1. RowFollows(x, process[p])
      BY <2>1 DEF TableFit
    <3>2. CASE x = s
      BY <3>2, <2>2, <1>2, <1>5, <1>7, <1>9 DEF RowFollows, Sub!Live
    <3>3. CASE x # s
      BY <3>1, <3>3, <1>2, <1>5, <1>7, <1>9 DEF RowFollows, Ended
    <3> QED
      BY <3>2, <3>3
  <2>4. ReadsHold(next)'
    BY <2>2, <1>2, <1>5 DEF ReadsHold
  <2> QED
    BY <2>3, <2>4 DEF TableFit
<1>14. \A x \in Subscribed : Sub!Invoice(x) \in acked' => invoiced'[x] = 1
  BY <1>2 DEF SubInv, InvoicesFit
<1> QED
  BY <1>2, <1>3, <1>4, <1>5, <1>8, <1>10, <1>11, <1>12, <1>13, <1>14, SubMoves

\* The row of a subscription Stripe has made.
LEMMA SubInsertRow ==
  ASSUME SubInv, NEW p \in Request, Sub!InsertRow(p)
  PROVE  SubInv'
<1> PICK s : s = process[p].sub
  OBVIOUS
<1>1. /\ process[p].step = "insertRow" /\ Sub!Goto(p, "insertItem")
      /\ subscriptionRow' = [subscriptionRow EXCEPT ![s] = [provider |-> "stripe", state |-> "trialing"]]
      /\ UNCHANGED <<stripeSub, item, invite, sent, acked, invoiced, troubles>>
  BY DEF Sub!InsertRow
<1>2. PICK next \in SubRequest :
           /\ process' = [process EXCEPT ![p] = next]
           /\ next.step = "insertItem" /\ next.event = process[p].event
           /\ next.circle = process[p].circle /\ next.sub = s
  BY <1>1, SubGoto DEF CircleSteps
<1>3. /\ process[p] \in SubRequest /\ Holds(process[p])
      /\ "overlap" \notin troubles => Only(p)
      /\ troubles = {} => TableFit(process[p])
  BY <1>1, SubWorker
<1>4. s \in Subscribed /\ process[p].circle \in Circle
  BY <1>1, <1>3 DEF Holds, CircleSteps
<1>5. subscriptionRow' \in [Subscribed -> SubRow]
      /\ (\A x \in Subscribed : x # s => subscriptionRow'[x] = subscriptionRow[x])
      /\ subscriptionRow'[s].provider = "stripe" /\ subscriptionRow'[s].state = "trialing"
  BY <1>1, <1>4 DEF SubInv, SubTypes, SubRow, SubStates
<1>6. SubTypes'
  BY <1>1, <1>2, <1>5 DEF SubInv, SubTypes
<1>7. (\A x \in Subscribed : Sub!Kept(x)' = Sub!Kept(x)) /\ subscriptionRow'[s] # Sub!NoRow
  BY <1>1, <1>5 DEF Sub!Kept, Sub!NoRow
<1>8. BooksFit'
  BY <1>1, <1>5, <1>7 DEF SubInv, BooksFit
<1>9. Holds(next)'
  BY <1>1, <1>2, <1>3, <1>4, <1>7 DEF Holds, CircleSteps, StatusSteps, InvoiceSteps
<1>10. LastItem(next)'
  BY <1>2 DEF LastItem
<1>11. ASSUME troubles' = {} PROVE TableFit(next)'
  <2>1. TableFit(process[p])
    BY <1>1, <1>3, <1>11
  <2>2. Sub!Status(s, "canceled") \notin acked
    BY <2>1, <1>1 DEF TableFit, ReadsHold
  <2>3. ASSUME NEW x \in Subscribed PROVE RowFollows(x, next)'
    <3>1. RowFollows(x, process[p])
      BY <2>1 DEF TableFit
    <3>2. CASE x = s
      BY <3>1, <3>2, <2>2, <1>1, <1>2, <1>5, <1>7 DEF RowFollows
    <3>3. CASE x # s
      BY <3>1, <3>3, <1>1, <1>2, <1>5, <1>7 DEF RowFollows, Ended
    <3> QED
      BY <3>2, <3>3
  <2>4. ReadsHold(next)'
    BY <2>2, <1>1, <1>2 DEF ReadsHold
  <2> QED
    BY <2>3, <2>4 DEF TableFit
<1>12. \A x \in Subscribed : Sub!Invoice(x) \in acked' => invoiced'[x] = 1
  BY <1>1 DEF SubInv, InvoicesFit
<1> QED
  BY <1>1, <1>2, <1>3, <1>5, <1>6, <1>7, <1>8, <1>9, <1>10, <1>11, <1>12, SubMoves

\* Stripe makes the item before the table has it.
LEMMA SubCreateStripeItem ==
  ASSUME SubInv, NEW p \in Request, Sub!CreateStripeItem(p)
  PROVE  SubInv'
<1> PICK s : s = process[p].sub
  OBVIOUS
<1> PICK c : c = process[p].circle
  OBVIOUS
<1>1. /\ process[p].step = "createItem" /\ Sub!Goto(p, "insertItem")
      /\ Sub!AcceptsItem(s, c)
      /\ stripeSub' = [stripeSub EXCEPT ![s].circles = @ \cup {c}]
      /\ UNCHANGED <<subscriptionRow, item, invite, sent, acked, invoiced, troubles>>
  BY DEF Sub!CreateStripeItem
<1>2. PICK next \in SubRequest :
           /\ process' = [process EXCEPT ![p] = next]
           /\ next.step = "insertItem" /\ next.event = process[p].event
           /\ next.circle = c /\ next.sub = s
  BY <1>1, SubGoto DEF CircleSteps
<1>3. /\ process[p] \in SubRequest /\ Holds(process[p])
      /\ "overlap" \notin troubles => Only(p)
      /\ troubles = {} => TableFit(process[p])
  BY <1>1, SubWorker
<1>4. s \in Subscribed /\ c \in Circle /\ stripeSub[s].status \in Sub!Live
      /\ subscriptionRow[s] # Sub!NoRow
  BY <1>1, <1>3 DEF Holds, CircleSteps, Sub!AcceptsItem
<1>5. stripeSub' \in [Subscribed -> SubBill]
      /\ (\A x \in Subscribed : x # s => stripeSub'[x] = stripeSub[x])
      /\ stripeSub'[s].status = stripeSub[s].status
      /\ stripeSub'[s].circles = stripeSub[s].circles \cup {c}
  BY <1>1, <1>4 DEF SubInv, SubTypes, SubBill
<1>6. SubTypes'
  BY <1>1, <1>2, <1>5 DEF SubInv, SubTypes
<1>7. \A x \in Subscribed : Sub!Kept(x)' = Sub!Kept(x)
  BY <1>1 DEF Sub!Kept
<1>8. subscriptionRow[s].provider # "matters" /\ Sub!Status(s, "canceled") \notin sent
  BY <1>4 DEF SubInv, BooksFit, Sub!NoSub, Sub!Live
<1>9. BooksFit'
  BY <1>1, <1>5, <1>7, <1>8 DEF SubInv, BooksFit
<1>10. Holds(next)'
  BY <1>1, <1>2, <1>3, <1>4 DEF Holds, CircleSteps, StatusSteps, InvoiceSteps
<1>11. LastItem(next)'
  BY <1>2 DEF LastItem
<1>12. ASSUME troubles' = {} PROVE TableFit(next)'
  <2>1. TableFit(process[p])
    BY <1>1, <1>3, <1>12
  <2>2. Sub!Status(s, "canceled") \notin acked
    BY <1>8 DEF SubInv, SubTypes
  <2>3. ASSUME NEW x \in Subscribed PROVE RowFollows(x, next)'
    <3>1. RowFollows(x, process[p])
      BY <2>1 DEF TableFit
    <3>2. CASE x = s
      BY <3>1, <3>2, <2>2, <1>1, <1>2, <1>4, <1>5, <1>7 DEF RowFollows
    <3>3. CASE x # s
      BY <3>1, <3>3, <1>1, <1>2, <1>5, <1>7 DEF RowFollows, Ended
    <3> QED
      BY <3>2, <3>3
  <2>4. ReadsHold(next)'
    BY <2>2, <1>1, <1>2 DEF ReadsHold
  <2> QED
    BY <2>3, <2>4 DEF TableFit
<1>13. \A x \in Subscribed : Sub!Invoice(x) \in acked' => invoiced'[x] = 1
  BY <1>1 DEF SubInv, InvoicesFit
<1> QED
  BY <1>1, <1>2, <1>3, <1>6, <1>9, <1>10, <1>11, <1>12, <1>13, SubMoves

\* The item of a subscription Stripe bills.
LEMMA SubInsertItem ==
  ASSUME SubInv, NEW p \in Request, Sub!InsertItem(p)
  PROVE  SubInv'
<1> PICK s : s = process[p].sub
  OBVIOUS
<1> PICK c : c = process[p].circle
  OBVIOUS
<1>1. /\ process[p].step = "insertItem"
      /\ item' = [item EXCEPT ![s][c] = "kept"]
      /\ UNCHANGED <<stripeSub, subscriptionRow, invite, sent, acked, invoiced, troubles>>
  BY DEF Sub!InsertItem
<1>2. PICK step \in {"accept", "transferred", "ack"} :
        Sub!Goto(p, step) /\ (step = "ack" => process[p].event # Sub!NoEvent)
  BY DEF Sub!InsertItem, Sub!ForJob
<1>3. PICK next \in SubRequest :
           /\ process' = [process EXCEPT ![p] = next]
           /\ next.step = step /\ next.event = process[p].event
           /\ next.circle = c /\ next.sub = s
  BY <1>2, SubGoto DEF CircleSteps
<1>4. /\ process[p] \in SubRequest /\ Holds(process[p])
      /\ "overlap" \notin troubles => Only(p)
      /\ troubles = {} => TableFit(process[p])
  BY <1>1, SubWorker
<1>5. s \in Subscribed /\ c \in Circle /\ subscriptionRow[s] # Sub!NoRow
      /\ process[p].event.type \in {"none", "setup_intent"}
  BY <1>1, <1>4 DEF Holds, CircleSteps
<1>6. item' \in [Subscribed -> [Circle -> {"none", "kept", "archived"}]]
      /\ Sub!Kept(s)' = Sub!Kept(s) \cup {c}
      /\ \A x \in Subscribed : x # s => Sub!Kept(x)' = Sub!Kept(x)
  BY <1>1, <1>5 DEF SubInv, SubTypes, Sub!Kept
<1>7. SubTypes'
  BY <1>1, <1>3, <1>6 DEF SubInv, SubTypes
<1>8. BooksFit'
  BY <1>1, <1>5, <1>6 DEF SubInv, BooksFit
<1>9. Holds(next)'
  BY <1>1, <1>2, <1>3, <1>4, <1>5 DEF Holds, CircleSteps, StatusSteps, InvoiceSteps
<1>10. LastItem(next)'
  BY <1>2, <1>3 DEF LastItem
<1>11. ASSUME troubles' = {} PROVE TableFit(next)'
  <2>1. TableFit(process[p])
    BY <1>1, <1>4, <1>11
  <2>2. Sub!Status(s, "canceled") \notin acked
    BY <2>1, <1>1 DEF TableFit, ReadsHold
  <2>3. ASSUME NEW x \in Subscribed PROVE RowFollows(x, next)'
    <3>1. RowFollows(x, process[p])
      BY <2>1 DEF TableFit
    <3>2. CASE x = s
      BY <3>1, <3>2, <2>2, <1>1, <1>2, <1>3, <1>6 DEF RowFollows
    <3>3. CASE x # s
      BY <3>1, <3>3, <1>1, <1>2, <1>3, <1>6 DEF RowFollows, Ended
    <3> QED
      BY <3>2, <3>3
  <2>4. ReadsHold(next)'
    BY <1>2, <1>3, <1>5 DEF ReadsHold
  <2> QED
    BY <2>3, <2>4 DEF TableFit
<1>12. \A x \in Subscribed : Sub!Invoice(x) \in acked' => invoiced'[x] = 1
  BY <1>1 DEF SubInv, InvoicesFit
<1> QED
  BY <1>1, <1>2, <1>3, <1>4, <1>5, <1>7, <1>8, <1>9, <1>10, <1>11, <1>12, SubMoves

\* The row takes the status of Stripe.
LEMMA SubUpdateRow ==
  ASSUME SubInv, NEW p \in Request, Sub!UpdateRow(p)
  PROVE  SubInv'
<1> PICK e : e = process[p].event
  OBVIOUS
<1> PICK s : s = e.sub
  OBVIOUS
<1>1. /\ process[p].step = "update"
      /\ subscriptionRow' = IF Sub!MayUpdate(process[p].seen, e.status)
                              THEN [subscriptionRow EXCEPT ![s].state = e.status]
                              ELSE subscriptionRow
      /\ UNCHANGED <<stripeSub, item, invite, sent, acked, invoiced, troubles>>
  BY DEF Sub!UpdateRow
<1>2. PICK step \in {"archiveAll", "ack"} :
        Sub!Goto(p, step) /\ (step = "archiveAll" <=> e.status = "canceled")
  BY DEF Sub!UpdateRow
<1>3. PICK next \in SubRequest :
           /\ process' = [process EXCEPT ![p] = next]
           /\ next.step = step /\ next.event = e /\ next.sub = process[p].sub
  BY <1>2, SubGoto DEF StatusSteps
<1>4. /\ process[p] \in SubRequest /\ Holds(process[p])
      /\ "overlap" \notin troubles => Only(p)
      /\ troubles = {} => TableFit(process[p])
  BY <1>1, SubWorker
<1>5. e \in sent /\ e.type = "subscription" /\ process[p].sub = s
      /\ subscriptionRow[s] # Sub!NoRow
  BY <1>1, <1>4, SubEventTypes DEF Holds, StatusSteps
<1>6. s \in Subscribed /\ e.status \in SubStates /\ e = Sub!Status(s, e.status)
  BY <1>5, SubEvents DEF SubInv, SubTypes
<1>7. /\ subscriptionRow' \in [Subscribed -> SubRow]
      /\ (\A x \in Subscribed : x # s => subscriptionRow'[x] = subscriptionRow[x])
      /\ subscriptionRow'[s].provider = subscriptionRow[s].provider
      /\ subscriptionRow'[s].state = IF Sub!MayUpdate(process[p].seen, e.status)
                                      THEN e.status ELSE subscriptionRow[s].state
  BY <1>1, <1>6 DEF SubInv, SubTypes, SubRow
<1>8. SubTypes'
  BY <1>1, <1>3, <1>7 DEF SubInv, SubTypes
<1>9. (\A x \in Subscribed : Sub!Kept(x)' = Sub!Kept(x))
      /\ subscriptionRow[s].provider # "none" /\ subscriptionRow'[s] # Sub!NoRow
  BY <1>1, <1>5, <1>6, <1>7 DEF Sub!Kept, Sub!NoRow, SubInv, BooksFit
<1>10. BooksFit'
  <2>1. subscriptionRow'[s].state # "none"
    BY <1>6, <1>7, <1>9 DEF SubInv, BooksFit, SubStates
  <2> QED
    BY <1>1, <1>6, <1>7, <1>9, <2>1 DEF SubInv, BooksFit
<1>11. Holds(next)'
  BY <1>1, <1>2, <1>3, <1>4, <1>5 DEF Holds, CircleSteps, StatusSteps, InvoiceSteps
<1>12. LastItem(next)'
  BY <1>2, <1>3 DEF LastItem
<1>13. ASSUME troubles' = {} PROVE TableFit(next)'
  <2>1. TableFit(process[p]) /\ process[p].seen = {subscriptionRow[s].state}
    BY <1>1, <1>4, <1>5, <1>13 DEF TableFit, ReadsHold
  <2>2. /\ subscriptionRow[s].state = "canceled" => subscriptionRow'[s].state = "canceled"
        /\ e.status = "canceled" => subscriptionRow'[s].state = "canceled"
        /\ subscriptionRow'[s].state = "canceled" =>
             subscriptionRow[s].state = "canceled" \/ e.status = "canceled"
    BY <2>1, <1>7 DEF Sub!MayUpdate
  <2>3. e.status = "canceled" => stripeSub[s].status = "canceled"
    BY <1>5, <1>6 DEF SubInv, BooksFit
  <2>4. ASSUME NEW x \in Subscribed PROVE RowFollows(x, next)'
    <3>1. RowFollows(x, process[p])
      BY <2>1 DEF TableFit
    <3>2. CASE x = s
      BY <3>1, <3>2, <2>2, <2>3, <1>1, <1>2, <1>3, <1>7, <1>9 DEF RowFollows, Ended
    <3>3. CASE x # s
      BY <3>1, <3>3, <1>1, <1>2, <1>3, <1>7, <1>9 DEF RowFollows, Ended
    <3> QED
      BY <3>2, <3>3
  <2>5. ReadsHold(next)'
    BY <2>2, <1>2, <1>3, <1>5 DEF ReadsHold
  <2> QED
    BY <2>4, <2>5 DEF TableFit
<1>14. \A x \in Subscribed : Sub!Invoice(x) \in acked' => invoiced'[x] = 1
  BY <1>1 DEF SubInv, InvoicesFit
<1> QED
  BY <1>1, <1>3, <1>4, <1>5, <1>7, <1>8, <1>9, <1>10, <1>11, <1>12, <1>13, <1>14, SubMoves

\* The items of a subscription that is over are archived.
LEMMA SubArchiveItems ==
  ASSUME SubInv, NEW p \in Request, Sub!ArchiveItems(p)
  PROVE  SubInv'
<1> PICK s : s = process[p].sub
  OBVIOUS
<1>1. /\ process[p].step = "archiveAll" /\ Sub!Goto(p, "ack")
      /\ item' = [item EXCEPT ![s] =
           [c \in Circle |-> IF @[c] = "kept" THEN "archived" ELSE @[c]]]
      /\ UNCHANGED <<stripeSub, subscriptionRow, invite, sent, acked, invoiced, troubles>>
  BY DEF Sub!ArchiveItems
<1>2. PICK next \in SubRequest :
           /\ process' = [process EXCEPT ![p] = next]
           /\ next.step = "ack" /\ next.event = process[p].event /\ next.sub = s
  BY <1>1, SubGoto
<1>3. /\ process[p] \in SubRequest /\ Holds(process[p])
      /\ "overlap" \notin troubles => Only(p)
      /\ troubles = {} => TableFit(process[p])
  BY <1>1, SubWorker
<1>4. process[p].event.type = "subscription" /\ s = process[p].event.sub /\ s \in Subscribed
      /\ process[p].event \in sent
  BY <1>1, <1>3, SubEvents, SubEventTypes DEF Holds, StatusSteps, SubRequest
<1>5. item' \in [Subscribed -> [Circle -> {"none", "kept", "archived"}]]
      /\ Sub!Kept(s)' = {}
      /\ \A x \in Subscribed : x # s => Sub!Kept(x)' = Sub!Kept(x)
  BY <1>1, <1>4 DEF SubInv, SubTypes, Sub!Kept
<1>6. SubTypes'
  BY <1>1, <1>2, <1>5 DEF SubInv, SubTypes
<1>7. BooksFit'
  BY <1>1, <1>5 DEF SubInv, BooksFit
<1>8. Holds(next)'
  BY <1>1, <1>2, <1>4 DEF Holds, CircleSteps, StatusSteps, InvoiceSteps
<1>9. LastItem(next)'
  BY <1>2 DEF LastItem
<1>10. ASSUME troubles' = {} PROVE TableFit(next)'
  <2>1. TableFit(process[p]) /\ subscriptionRow[s].state = "canceled"
    BY <1>1, <1>3, <1>10 DEF TableFit, ReadsHold
  <2>2. ASSUME NEW x \in Subscribed PROVE RowFollows(x, next)'
    <3>1. RowFollows(x, process[p])
      BY <2>1 DEF TableFit
    <3>2. CASE x = s
      BY <3>1, <3>2, <2>1, <1>1, <1>2, <1>5 DEF RowFollows, Ended, Sub!Live
    <3>3. CASE x # s
      BY <3>1, <3>3, <1>1, <1>2, <1>5 DEF RowFollows, Ended
    <3> QED
      BY <3>2, <3>3
  <2>3. ReadsHold(next)'
    BY <2>1, <1>1, <1>2, <1>4, <1>5 DEF ReadsHold, Ended
  <2> QED
    BY <2>2, <2>3 DEF TableFit
<1>11. \A x \in Subscribed : Sub!Invoice(x) \in acked' => invoiced'[x] = 1
  BY <1>1 DEF SubInv, InvoicesFit
<1> QED
  BY <1>1, <1>2, <1>3, <1>4, <1>6, <1>7, <1>8, <1>9, <1>10, <1>11, SubMoves

\* An invoice is split over the items of its subscription.
LEMMA SubSplitInvoice ==
  ASSUME SubInv, NEW p \in Request, Sub!SplitInvoice(p)
  PROVE  SubInv'
<1> PICK s : s = process[p].sub
  OBVIOUS
<1>1. /\ process[p].step = "split"
      /\ UNCHANGED <<stripeSub, subscriptionRow, item, invite, sent, acked, troubles>>
  BY DEF Sub!SplitInvoice
<1>2. /\ process[p] \in SubRequest /\ Holds(process[p]) /\ process[p] # Sub!Idle
      /\ "overlap" \notin troubles => Only(p)
      /\ troubles = {} => TableFit(process[p])
  BY <1>1, SubWorker
<1>3. process[p].event.type = "invoice" /\ s = process[p].event.sub /\ s \in Subscribed
      /\ process[p].event \in sent
  BY <1>1, <1>2, SubEvents, SubEventTypes DEF Holds, InvoiceSteps, SubRequest
<1>4. CASE process' = [process EXCEPT ![p] = Sub!Idle] /\ UNCHANGED invoiced
  <2>1. DOMAIN invite' = Circle
    BY <1>1 DEF SubInv, SubTypes
  <2> QED
    BY <1>1, <1>2, <1>4, <2>1, SubIdle, SubProceeds DEF Writing
<1>5. CASE Sub!MayInsert(s) /\ invoiced' = [invoiced EXCEPT ![s] = @ + 1] /\ Sub!Goto(p, "ack")
  <2>1. PICK next \in SubRequest :
           /\ process' = [process EXCEPT ![p] = next]
           /\ next.step = "ack" /\ next.event = process[p].event /\ next.sub = s
    BY <1>5, SubGoto
  <2>2. invoiced[s] = 0 /\ invoiced'[s] = 1 /\ invoiced' \in [Subscribed -> Nat]
        /\ \A x \in Subscribed : x # s => invoiced'[x] = invoiced[x]
    BY <1>3, <1>5 DEF Sub!MayInsert, SubInv, SubTypes
  <2>3. SubTypes'
    BY <1>1, <2>1, <2>2 DEF SubInv, SubTypes
  <2>4. BooksFit'
    BY <1>1 DEF SubInv, BooksFit, Sub!Kept
  <2>5. Holds(next)' /\ LastItem(next)'
    BY <1>1, <1>3, <2>1 DEF Holds, LastItem, CircleSteps, StatusSteps, InvoiceSteps
  <2>6. ASSUME troubles' = {} PROVE TableFit(next)'
    <3>1. TableFit(process[p])
      BY <1>1, <1>2, <2>6
    <3>2. \A x \in Subscribed : RowFollows(x, next)'
      BY <3>1, <1>1, <2>1 DEF TableFit, RowFollows, Ended, Sub!Kept
    <3>3. ReadsHold(next)'
      BY <1>3, <2>1 DEF ReadsHold
    <3> QED
      BY <3>2, <3>3 DEF TableFit
  <2>7. \A x \in Subscribed : Sub!Invoice(x) \in acked' => invoiced'[x] = 1
    BY <1>1, <2>2 DEF SubInv, InvoicesFit
  <2> QED
    BY <1>1, <1>2, <1>3, <2>1, <2>2, <2>3, <2>4, <2>5, <2>6, <2>7, SubMoves
<1> QED
  BY <1>4, <1>5 DEF Sub!SplitInvoice, Sub!Done

\* The last circle is left: Stripe ends the subscription.
LEMMA SubCancelAtStripe ==
  ASSUME SubInv, NEW p \in Request, Sub!CancelAtStripe(p)
  PROVE  SubInv'
<1> PICK s : s = process[p].sub
  OBVIOUS
<1>1. /\ process[p].step = "leave" /\ process[p].alone /\ Sub!Goto(p, "markCanceled")
      /\ stripeSub[s].status \in Sub!Live
      /\ stripeSub' = [stripeSub EXCEPT ![s].status = "canceled"]
      /\ sent' = sent \cup {Sub!Status(s, "canceled")}
      /\ UNCHANGED <<subscriptionRow, item, invite, acked, invoiced, troubles>>
  BY DEF Sub!CancelAtStripe
<1>2. PICK next \in SubRequest :
           /\ process' = [process EXCEPT ![p] = next]
           /\ next.step = "markCanceled" /\ next.event = process[p].event
           /\ next.circle = process[p].circle /\ next.sub = s /\ next.seen = process[p].seen
  BY <1>1, SubGoto DEF CircleSteps
<1>3. /\ process[p] \in SubRequest /\ Holds(process[p])
      /\ "overlap" \notin troubles => Only(p) /\ LastItem(process[p])
      /\ troubles = {} => TableFit(process[p])
  BY <1>1, SubWorker
<1>4. s \in Subscribed /\ subscriptionRow[s] # Sub!NoRow
  BY <1>1, <1>3 DEF Holds, CircleSteps
<1>5. stripeSub' \in [Subscribed -> SubBill]
      /\ (\A x \in Subscribed : x # s => stripeSub'[x] = stripeSub[x])
      /\ stripeSub'[s].status = "canceled"
  <2> DEFINE bill == [stripeSub[s] EXCEPT !.status = "canceled"]
  <2>1. stripeSub \in [Subscribed -> SubBill]
    BY DEF SubInv, SubTypes
  <2>2. bill \in SubBill /\ bill.status = "canceled"
    BY <2>1, <1>4 DEF SubBill, SubStates
  <2>3. stripeSub' = [stripeSub EXCEPT ![s] = bill]
    BY <1>1
  <2> HIDE DEF bill
  <2> QED
    BY <2>1, <2>2, <2>3, <1>4
<1>6. SubTypes'
  BY <1>1, <1>2, <1>4, <1>5, SubEventTypes DEF SubInv, SubTypes, SubStates
<1>7. \A x \in Subscribed : Sub!Kept(x)' = Sub!Kept(x)
  BY <1>1 DEF Sub!Kept
<1>8. BooksFit'
  <2>1. subscriptionRow[s].provider # "matters"
    BY <1>1, <1>4 DEF SubInv, BooksFit, Sub!NoSub, Sub!Live
  <2>2. \A x \in Subscribed : x # s =>
          (Sub!Status(x, "canceled") \in sent' <=> Sub!Status(x, "canceled") \in sent)
    BY <1>1, <1>4, SubEventTypes DEF SubStates
  <2> QED
    BY <1>1, <1>5, <1>7, <2>1, <2>2 DEF SubInv, BooksFit
<1>9. Holds(next)'
  BY <1>1, <1>2, <1>3, <1>4 DEF Holds, CircleSteps, StatusSteps, InvoiceSteps
<1>10. "overlap" \notin troubles' => LastItem(next)'
  BY <1>1, <1>2, <1>3, <1>4, <1>7 DEF LastItem
<1>11. ASSUME troubles' = {} PROVE TableFit(next)'
  <2>1. TableFit(process[p])
    BY <1>1, <1>3, <1>11
  <2>2. ASSUME NEW x \in Subscribed PROVE RowFollows(x, next)'
    <3>1. RowFollows(x, process[p])
      BY <2>1 DEF TableFit
    <3>2. CASE x = s
      BY <3>1, <3>2, <1>1, <1>2, <1>5, <1>7 DEF RowFollows, Ended, Sub!Live
    <3>3. CASE x # s
      BY <3>1, <3>3, <1>1, <1>2, <1>5, <1>7 DEF RowFollows, Ended
    <3> QED
      BY <3>2, <3>3
  <2>3. ReadsHold(next)'
    BY <1>1, <1>2, <1>5 DEF ReadsHold
  <2> QED
    BY <2>2, <2>3 DEF TableFit
<1>12. \A x \in Subscribed : Sub!Invoice(x) \in acked' => invoiced'[x] = 1
  BY <1>1 DEF SubInv, InvoicesFit
<1> QED
  BY <1>1, <1>2, <1>3, <1>6, <1>8, <1>9, <1>10, <1>11, <1>12, SubMoves

\* A circle is left: Stripe ends its item.
LEMMA SubDeleteAtStripe ==
  ASSUME SubInv, NEW p \in Request, Sub!DeleteAtStripe(p)
  PROVE  SubInv'
<1> PICK s : s = process[p].sub
  OBVIOUS
<1> PICK c : c = process[p].circle
  OBVIOUS
<1>1. /\ process[p].step = "leave" /\ Sub!Goto(p, "archiveOne")
      /\ stripeSub[s].status \in Sub!Live
      /\ stripeSub' = [stripeSub EXCEPT ![s].circles = @ \ {c}]
      /\ UNCHANGED <<subscriptionRow, item, invite, sent, acked, invoiced, troubles>>
  BY DEF Sub!DeleteAtStripe, Sub!MayDelete
<1>2. PICK next \in SubRequest :
           /\ process' = [process EXCEPT ![p] = next]
           /\ next.step = "archiveOne" /\ next.event = process[p].event
           /\ next.circle = c /\ next.sub = s /\ next.seen = process[p].seen
  BY <1>1, SubGoto DEF CircleSteps
<1>3. /\ process[p] \in SubRequest /\ Holds(process[p])
      /\ "overlap" \notin troubles => Only(p)
      /\ troubles = {} => TableFit(process[p])
  BY <1>1, SubWorker
<1>4. s \in Subscribed
  BY <1>1, <1>3 DEF Holds, CircleSteps
<1>5. stripeSub' \in [Subscribed -> SubBill]
      /\ (\A x \in Subscribed : x # s => stripeSub'[x] = stripeSub[x])
      /\ stripeSub'[s].status = stripeSub[s].status
      /\ stripeSub'[s].circles = stripeSub[s].circles \ {c}
  BY <1>1, <1>4 DEF SubInv, SubTypes, SubBill
<1>6. SubTypes'
  BY <1>1, <1>2, <1>5 DEF SubInv, SubTypes
<1>7. \A x \in Subscribed : Sub!Kept(x)' = Sub!Kept(x)
  BY <1>1 DEF Sub!Kept
<1>8. BooksFit'
  <2>1. subscriptionRow[s].provider # "matters"
    BY <1>1, <1>4 DEF SubInv, BooksFit, Sub!NoSub, Sub!Live
  <2> QED
    BY <1>1, <1>5, <1>7, <2>1 DEF SubInv, BooksFit
<1>9. Holds(next)'
  BY <1>1, <1>2, <1>3, <1>4 DEF Holds, CircleSteps, StatusSteps, InvoiceSteps
<1>10. LastItem(next)'
  BY <1>2 DEF LastItem
<1>11. ASSUME troubles' = {} PROVE TableFit(next)'
  <2>1. TableFit(process[p])
    BY <1>1, <1>3, <1>11
  <2>2. ASSUME NEW x \in Subscribed PROVE RowFollows(x, next)'
    <3>1. RowFollows(x, process[p])
      BY <2>1 DEF TableFit
    <3>2. CASE x = s
      BY <3>1, <3>2, <1>1, <1>2, <1>5, <1>7 DEF RowFollows, Ended
    <3>3. CASE x # s
      BY <3>1, <3>3, <1>1, <1>2, <1>5, <1>7 DEF RowFollows, Ended
    <3> QED
      BY <3>2, <3>3
  <2>3. ReadsHold(next)'
    BY <1>1, <1>2 DEF ReadsHold
  <2> QED
    BY <2>2, <2>3 DEF TableFit
<1>12. \A x \in Subscribed : Sub!Invoice(x) \in acked' => invoiced'[x] = 1
  BY <1>1 DEF SubInv, InvoicesFit
<1> QED
  BY <1>1, <1>2, <1>3, <1>6, <1>8, <1>9, <1>10, <1>11, <1>12, SubMoves

\* The row of a subscription Stripe has ended.
LEMMA SubMarkCanceled ==
  ASSUME SubInv, NEW p \in Request, Sub!MarkCanceled(p)
  PROVE  SubInv'
<1> PICK s : s = process[p].sub
  OBVIOUS
<1> PICK step : step = IF process[p].step = "endTrial" THEN "endItem" ELSE "archiveOne"
  OBVIOUS
<1>1. /\ process[p].step \in {"markCanceled", "endTrial"} /\ Sub!Goto(p, step)
      /\ subscriptionRow' = [subscriptionRow EXCEPT ![s].state = "canceled"]
      /\ UNCHANGED <<stripeSub, item, invite, sent, acked, invoiced, troubles>>
  BY DEF Sub!MarkCanceled
<1>2. PICK next \in SubRequest :
           /\ process' = [process EXCEPT ![p] = next]
           /\ next.step = step /\ next.event = process[p].event
           /\ next.circle = process[p].circle /\ next.sub = s /\ next.seen = process[p].seen
  BY <1>1, SubGoto DEF CircleSteps
<1>3. /\ process[p] \in SubRequest /\ Holds(process[p])
      /\ "overlap" \notin troubles => Only(p)
      /\ troubles = {} => TableFit(process[p])
  BY <1>1, SubWorker
<1>4. s \in Subscribed /\ subscriptionRow[s] # Sub!NoRow
  BY <1>1, <1>3 DEF Holds
<1>5. subscriptionRow' \in [Subscribed -> SubRow]
      /\ (\A x \in Subscribed : x # s => subscriptionRow'[x] = subscriptionRow[x])
      /\ subscriptionRow'[s].state = "canceled"
      /\ subscriptionRow'[s].provider = subscriptionRow[s].provider
  <2> DEFINE row == [subscriptionRow[s] EXCEPT !.state = "canceled"]
  <2>1. subscriptionRow \in [Subscribed -> SubRow]
    BY DEF SubInv, SubTypes
  <2>2. row \in SubRow /\ row.state = "canceled" /\ row.provider = subscriptionRow[s].provider
    BY <2>1, <1>4 DEF SubRow, SubStates
  <2>3. subscriptionRow' = [subscriptionRow EXCEPT ![s] = row]
    BY <1>1
  <2> HIDE DEF row
  <2> QED
    BY <2>1, <2>2, <2>3, <1>4
<1>6. SubTypes'
  BY <1>1, <1>2, <1>5 DEF SubInv, SubTypes
<1>7. (\A x \in Subscribed : Sub!Kept(x)' = Sub!Kept(x))
      /\ subscriptionRow[s].provider # "none" /\ subscriptionRow'[s] # Sub!NoRow
  BY <1>1, <1>4, <1>5 DEF Sub!Kept, SubInv, BooksFit, Sub!NoRow
<1>8. BooksFit'
  BY <1>1, <1>5, <1>7 DEF SubInv, BooksFit
<1>9. Holds(next)'
  BY <1>1, <1>2, <1>3, <1>4 DEF Holds, CircleSteps, StatusSteps, InvoiceSteps
<1>10. LastItem(next)'
  BY <1>2 DEF LastItem
<1>11. ASSUME troubles' = {} PROVE TableFit(next)'
  <2>1. TableFit(process[p])
    BY <1>1, <1>3, <1>11
  <2>2. subscriptionRow[s].provider = "matters" \/ stripeSub[s].status = "canceled"
    BY <2>1, <1>1 DEF TableFit, ReadsHold
  <2>3. stripeSub[s].status \notin Sub!Live
        /\ (subscriptionRow[s].provider = "stripe" => stripeSub[s].status = "canceled")
    BY <2>2, <1>4 DEF SubInv, BooksFit, Sub!NoSub, Sub!Live
  <2>4. ASSUME NEW x \in Subscribed PROVE RowFollows(x, next)'
    <3>1. RowFollows(x, process[p])
      BY <2>1 DEF TableFit
    <3>2. CASE x = s
      BY <3>1, <3>2, <2>3, <1>1, <1>2, <1>5, <1>7 DEF RowFollows, Ended
    <3>3. CASE x # s
      BY <3>1, <3>3, <1>1, <1>2, <1>5, <1>7 DEF RowFollows, Ended
    <3> QED
      BY <3>2, <3>3
  <2>5. ReadsHold(next)'
    BY <2>1, <1>1, <1>2, <1>5 DEF ReadsHold, TableFit
  <2> QED
    BY <2>4, <2>5 DEF TableFit
<1>12. \A x \in Subscribed : Sub!Invoice(x) \in acked' => invoiced'[x] = 1
  BY <1>1 DEF SubInv, InvoicesFit
<1> QED
  BY <1>1, <1>2, <1>3, <1>5, <1>6, <1>7, <1>8, <1>9, <1>10, <1>11, <1>12, SubMoves

\* The item of a circle that was left is archived.
LEMMA SubArchiveOne ==
  ASSUME SubInv, NEW p \in Request, Sub!ArchiveOne(p)
  PROVE  SubInv'
<1> PICK s : s = process[p].sub
  OBVIOUS
<1> PICK c : c = process[p].circle
  OBVIOUS
<1> PICK step : step = IF process[p].step = "endItem" THEN "card" ELSE "items"
  OBVIOUS
<1>1. /\ process[p].step \in {"archiveOne", "endItem"} /\ Sub!Goto(p, step)
      /\ item' = [item EXCEPT ![s][c] = "archived"]
      /\ UNCHANGED <<stripeSub, subscriptionRow, invite, sent, acked, invoiced, troubles>>
  BY DEF Sub!ArchiveOne
<1>2. PICK next \in SubRequest :
           /\ process' = [process EXCEPT ![p] = next]
           /\ next.step = step /\ next.event = process[p].event
           /\ next.circle = process[p].circle /\ next.sub = s /\ next.seen = process[p].seen
  BY <1>1, SubGoto DEF CircleSteps
<1>3. /\ process[p] \in SubRequest /\ Holds(process[p])
      /\ "overlap" \notin troubles => Only(p)
      /\ troubles = {} => TableFit(process[p])
  BY <1>1, SubWorker
<1>4. s \in Subscribed /\ c \in Circle
  BY <1>1, <1>3 DEF Holds, CircleSteps
<1>5. item' \in [Subscribed -> [Circle -> {"none", "kept", "archived"}]]
      /\ Sub!Kept(s)' = Sub!Kept(s) \ {c}
      /\ \A x \in Subscribed : x # s => Sub!Kept(x)' = Sub!Kept(x)
  BY <1>1, <1>4 DEF SubInv, SubTypes, Sub!Kept
<1>6. SubTypes'
  BY <1>1, <1>2, <1>5 DEF SubInv, SubTypes
<1>7. BooksFit'
  BY <1>1, <1>5 DEF SubInv, BooksFit
<1>8. Holds(next)'
  BY <1>1, <1>2, <1>3, <1>4 DEF Holds, CircleSteps, StatusSteps, InvoiceSteps
<1>9. LastItem(next)'
  BY <1>2 DEF LastItem
<1>10. ASSUME troubles' = {} PROVE TableFit(next)'
  <2>1. TableFit(process[p])
    BY <1>1, <1>3, <1>10
  <2>2. process[p].step = "endItem" => stripeSub[s].status \notin Sub!Live
    BY <2>1, <1>4 DEF TableFit, ReadsHold, SubInv, BooksFit, Sub!NoSub, Sub!Live
  <2>3. ASSUME NEW x \in Subscribed PROVE RowFollows(x, next)'
    <3>1. RowFollows(x, process[p])
      BY <2>1 DEF TableFit
    <3>2. CASE x = s
      BY <3>1, <3>2, <2>2, <1>1, <1>2, <1>5 DEF RowFollows, Ended
    <3>3. CASE x # s
      BY <3>1, <3>3, <1>1, <1>2, <1>5 DEF RowFollows, Ended
    <3> QED
      BY <3>2, <3>3
  <2>4. ReadsHold(next)'
    BY <1>2 DEF ReadsHold
  <2> QED
    BY <2>3, <2>4 DEF TableFit
<1>11. \A x \in Subscribed : Sub!Invoice(x) \in acked' => invoiced'[x] = 1
  BY <1>1 DEF SubInv, InvoicesFit
<1> QED
  BY <1>1, <1>2, <1>3, <1>6, <1>7, <1>8, <1>9, <1>10, <1>11, SubMoves

\* Stripe moves a subscription on by itself.
LEMMA SubStripeMoves ==
  ASSUME SubInv, NEW s \in Subscribed, NEW st \in Sub!Live \cup {"canceled"}, Sub!StripeMoves(s, st)
  PROVE  SubInv'
<1>1. /\ stripeSub[s].status \in Sub!Live /\ st \in {"active", "past_due", "canceled"}
      /\ stripeSub' = [stripeSub EXCEPT ![s].status = st]
      /\ sent' = sent \cup {Sub!Status(s, st)} \cup IF st = "active" THEN {Sub!Invoice(s)} ELSE {}
      /\ UNCHANGED <<subscriptionRow, item, invite, acked, invoiced, process, troubles>>
  BY DEF Sub!StripeMoves
<1>2. stripeSub' \in [Subscribed -> SubBill]
      /\ (\A x \in Subscribed : x # s => stripeSub'[x] = stripeSub[x])
      /\ stripeSub'[s].status = st /\ stripeSub'[s].circles = stripeSub[s].circles
  BY <1>1 DEF SubInv, SubTypes, SubBill, SubStates
<1>3. SubTypes'
  BY <1>1, <1>2, SubEventTypes DEF SubInv, SubTypes, SubStates
<1>4. StepsHold'
  <2> SUFFICES ASSUME NEW p \in Request PROVE Holds(process[p])'
    BY DEF StepsHold
  <2>1. Holds(process[p]) /\ sent \subseteq sent'
    BY <1>1 DEF SubInv, StepsHold
  <2> QED
    BY <2>1, <1>1 DEF Holds
<1>5. \A x \in Subscribed : Sub!Kept(x)' = Sub!Kept(x)
  BY <1>1 DEF Sub!Kept
<1>6. BooksFit'
  <2>1. subscriptionRow[s].provider # "matters"
    BY <1>1 DEF SubInv, BooksFit, Sub!NoSub, Sub!Live
  <2>2. \A x \in Subscribed :
          Sub!Status(x, "canceled") \in sent' <=>
            Sub!Status(x, "canceled") \in sent \/ (x = s /\ st = "canceled")
    BY <1>1, SubEventTypes DEF SubStates
  <2>3. stripeSub[s].status # "canceled"
    BY <1>1 DEF Sub!Live
  <2> QED
    BY <1>1, <1>2, <1>5, <2>1, <2>2, <2>3 DEF SubInv, BooksFit
<1>7. InvoicesFit'
  BY <1>1 DEF SubInv, InvoicesFit
<1>8. LastItemEnds'
  BY <1>1, <1>5 DEF SubInv, LastItemEnds, LastItem, Only, Sub!Kept
<1>9. ASSUME NEW q, troubles = {}, TableFit(q) PROVE TableFit(q)'
  <2>1. ASSUME NEW x \in Subscribed PROVE RowFollows(x, q)'
    <3>1. RowFollows(x, q)
      BY <1>9 DEF TableFit
    <3>2. CASE x = s
      BY <3>1, <3>2, <1>1, <1>2, <1>5 DEF RowFollows, Ended, Sub!Live
    <3>3. CASE x # s
      BY <3>1, <3>3, <1>1, <1>2, <1>5 DEF RowFollows, Ended
    <3> QED
      BY <3>2, <3>3
  <2>2. ReadsHold(q)'
    <3>1. q.step = "markCanceled" =>
            subscriptionRow[q.sub].provider = "matters" \/ stripeSub'[q.sub].status = "canceled"
      BY <1>1, <1>9 DEF TableFit, ReadsHold, Sub!Live
    <3> QED
      BY <3>1, <1>1, <1>9 DEF TableFit, ReadsHold, Ended, Sub!Kept
  <2> QED
    BY <2>1, <2>2 DEF TableFit
<1>10. TableFollows'
  <2> SUFFICES ASSUME troubles' = {}
               PROVE  /\ \A x \in Request : Only(x)' => TableFit(process[x])'
                      /\ (\A x \in Request : process'[x] = Sub!Idle) => TableFit(Sub!Idle)'
    BY DEF TableFollows
  <2>1. ASSUME NEW x \in Request, Only(x)' PROVE TableFit(process[x])'
    <3> PICK q : q = process[x]
      OBVIOUS
    <3>1. TableFit(q)
      BY <1>1, <2>1 DEF SubInv, TableFollows, Only
    <3>2. TableFit(q)' /\ process'[x] = q
      BY <1>1, <1>9, <3>1
    <3> QED
      BY <3>2 DEF TableFit, ReadsHold, RowFollows
  <2>2. ASSUME \A x \in Request : process'[x] = Sub!Idle PROVE TableFit(Sub!Idle)'
    <3>1. TableFit(Sub!Idle)
      BY <1>1, <2>2 DEF SubInv, TableFollows
    <3> QED
      BY <3>1, <1>1, <1>9
  <2> QED
    BY <2>1, <2>2
<1> QED
  BY <1>3, <1>4, <1>6, <1>7, <1>8, <1>10 DEF SubInv

\* Whatever happens next, the invariant stays.
LEMMA SubNext == SubInv /\ Sub!Next => SubInv'
BY SubStripeMoves, SubReceive, SubUnsubscribe, SubTrialEnds, SubStop, SubAcknowledge,
   SubReadActive, SubFindInvitation, SubInsertTrial, SubCreateStripeSub, SubInsertRow,
   SubCreateStripeItem, SubRefusedByStripe, SubInsertItem, SubAcceptInvitation, SubFindRow,
   SubUpdateRow, SubArchiveItems, SubFindInvoice, SubSplitInvoice, SubFindItems,
   SubCancelAtStripe, SubDeleteAtStripe, SubRefusesLeave, SubMarkCanceled, SubArchiveOne,
   SubCountItems, SubCheckCard, SubMarkInvitation
   DEF Sub!Next, Sub!Progress

\* A step that leaves subscriptions alone.
LEMMA SubStutter == SubInv /\ UNCHANGED subVars => SubInv'
BY DEF subVars, SubInv, SubTypes, StepsHold, Holds, BooksFit, InvoicesFit, LastItemEnds, LastItem,
   Only, Ended, RowFollows, ReadsHold, TableFit, TableFollows, Sub!Kept

\* What the invariant says of the subscriptions.
LEMMA SubSafe ==
  SubInv => Sub!TypeOK /\ Sub!BilledIsMember /\ Sub!InvoiceSplitOnce
<1> SUFFICES ASSUME SubInv PROVE Sub!TypeOK /\ Sub!BilledIsMember /\ Sub!InvoiceSplitOnce
  OBVIOUS
<1>1. Sub!TypeOK
  BY DEF SubInv, SubTypes, SubBill, SubRow, SubStates, BooksFit, Sub!TypeOK, Sub!Live
<1>2. Sub!InvoiceSplitOnce
  BY DEF SubInv, InvoicesFit, Sub!InvoiceSplitOnce
<1>3. Sub!BilledIsMember
  <2> SUFFICES ASSUME Sub!Quiet, troubles = {}, NEW s \in Subscribed
               PROVE  /\ stripeSub[s].status \in Sub!Live =>
                           subscriptionRow[s].state \in Sub!Live
                             /\ Sub!Kept(s) = stripeSub[s].circles
                      /\ stripeSub[s].status = "canceled" =>
                           subscriptionRow[s].state = "canceled" /\ Sub!Kept(s) = {}
    BY DEF Sub!BilledIsMember
  <2>1. RowFollows(s, Sub!Idle)
    BY DEF Sub!Quiet, SubInv, TableFollows, TableFit
  <2>2. Sub!Status(s, "canceled") \in acked <=> stripeSub[s].status = "canceled"
    BY DEF Sub!Quiet, SubInv, BooksFit
  <2>3. subscriptionRow[s].provider = "stripe" =>
          subscriptionRow[s].state \in Sub!Live \cup {"canceled"}
    BY DEF SubInv, SubTypes, SubRow, SubStates, BooksFit, Sub!Live
  <2>4. "canceled" \notin Sub!Live
    BY DEF Sub!Live
  <2> QED
    BY <2>1, <2>2, <2>3, <2>4, SubIdle DEF RowFollows, Ended
<1> QED
  BY <1>1, <1>2, <1>3

\* A member stays one unless the circle, or what Stripe announced, is handled.
LEMMA SubMembersStay == SubInv /\ Sub!Next => Sub!MembersStay
<1> SUFFICES ASSUME SubInv, Sub!Next, "overlap" \notin troubles,
                    NEW c \in Circle, Sub!Member(c), ~Sub!Member(c)'
             PROVE  \E p \in Request : process[p].event.type = "subscription"
                                         \/ process[p].circle = c
  BY DEF Sub!MembersStay
<1>1. PICK s \in Subscribed :
        /\ subscriptionRow[s].state \in {"active", "trialing"} /\ item[s][c] = "kept"
        /\ ~(subscriptionRow'[s].state \in {"active", "trialing"} /\ item'[s][c] = "kept")
  BY DEF Sub!Member
<1>2. subscriptionRow' # subscriptionRow \/ item' # item
  BY <1>1
<1>3. PICK p \in Request :
        \/ Sub!InsertTrial(p) \/ Sub!InsertRow(p) \/ Sub!InsertItem(p) \/ Sub!UpdateRow(p)
        \/ Sub!ArchiveItems(p) \/ Sub!MarkCanceled(p) \/ Sub!ArchiveOne(p)
  <2>1. \A x \in Subscribed, st \in Sub!Live \cup {"canceled"} :
          Sub!StripeMoves(x, st) => subscriptionRow' = subscriptionRow /\ item' = item
    BY DEF Sub!StripeMoves
  <2>2. ASSUME NEW p \in Request,
               \/ \E e \in sent : Sub!Receive(p, e)
               \/ \E d \in Circle : Sub!Unsubscribe(p, d) \/ \E x \in Subscribed : Sub!TrialEnds(p, x, d)
               \/ Sub!Stop(p)
        PROVE  subscriptionRow' = subscriptionRow /\ item' = item
    BY <2>2, Zenon DEF Sub!Receive, Sub!Unsubscribe, Sub!TrialEnds, Sub!Begin, Sub!Stop
  <2>3. ASSUME NEW p \in Request,
               \/ Sub!Acknowledge(p) \/ Sub!ReadActive(p) \/ Sub!FindInvitation(p)
               \/ Sub!CreateStripeSub(p) \/ Sub!CreateStripeItem(p) \/ Sub!RefusedByStripe(p)
               \/ Sub!AcceptInvitation(p) \/ Sub!FindRow(p) \/ Sub!FindInvoice(p)
               \/ Sub!SplitInvoice(p) \/ Sub!FindItems(p) \/ Sub!CancelAtStripe(p)
               \/ Sub!DeleteAtStripe(p) \/ Sub!RefusesLeave(p) \/ Sub!CountItems(p)
               \/ Sub!CheckCard(p) \/ Sub!MarkInvitation(p)
        PROVE  subscriptionRow' = subscriptionRow /\ item' = item
    BY <2>3, Zenon DEF Sub!Acknowledge, Sub!ReadActive, Sub!FindInvitation, Sub!CreateStripeSub,
       Sub!CreateStripeItem, Sub!RefusedByStripe, Sub!AcceptInvitation, Sub!FindRow,
       Sub!FindInvoice, Sub!SplitInvoice, Sub!FindItems, Sub!CancelAtStripe,
       Sub!DeleteAtStripe, Sub!RefusesLeave, Sub!CountItems, Sub!CheckCard, Sub!MarkInvitation
  <2> QED
    BY <1>2, <2>1, <2>2, <2>3, Zenon DEF Sub!Next, Sub!Progress
<1>4. subscriptionRow \in [Subscribed -> SubRow]
      /\ item \in [Subscribed -> [Circle -> {"none", "kept", "archived"}]]
  BY DEF SubInv, SubTypes
<1>5. CASE Sub!InsertTrial(p)
  <2>1. PICK f \in Sub!Free :
          subscriptionRow' = [subscriptionRow EXCEPT ![f] = [provider |-> "matters", state |-> "trialing"]]
    BY <1>5 DEF Sub!InsertTrial
  <2>2. item' = item /\ subscriptionRow'[s].state \in {"active", "trialing"}
    BY <1>1, <1>4, <1>5, <2>1 DEF Sub!InsertTrial
  <2> QED
    BY <1>1, <2>2
<1>6. CASE Sub!InsertRow(p)
  <2>1. item' = item /\ subscriptionRow'[s].state \in {"active", "trialing"}
    BY <1>1, <1>4, <1>6 DEF Sub!InsertRow
  <2> QED
    BY <1>1, <2>1
<1>7. CASE Sub!InsertItem(p)
  <2>1. subscriptionRow' = subscriptionRow /\ item'[s][c] = "kept"
    BY <1>1, <1>4, <1>7 DEF Sub!InsertItem
  <2> QED
    BY <1>1, <2>1
<1>8. CASE Sub!UpdateRow(p) \/ Sub!ArchiveItems(p)
  <2>1. process[p].step \in StatusSteps
    BY <1>8 DEF Sub!UpdateRow, Sub!ArchiveItems, StatusSteps
  <2>2. process[p].event.type = "subscription"
    BY <2>1 DEF SubInv, StepsHold, Holds
  <2> QED
    BY <2>2
<1>9. CASE Sub!MarkCanceled(p)
  <2>1. process[p].step \in {"markCanceled", "endTrial"} /\ item' = item
        /\ subscriptionRow' = [subscriptionRow EXCEPT ![process[p].sub].state = "canceled"]
    BY <1>9 DEF Sub!MarkCanceled
  <2>2. s = process[p].sub
    BY <1>1, <1>4, <2>1
  <2>3. LastItem(process[p])
    BY <2>1, SubWorker
  <2>4. Sub!Kept(s) \subseteq {process[p].circle}
    BY <2>1, <2>2, <2>3 DEF LastItem
  <2> QED
    BY <1>1, <2>4 DEF Sub!Kept
<1>10. CASE Sub!ArchiveOne(p)
  <2>1. subscriptionRow' = subscriptionRow
        /\ item' = [item EXCEPT ![process[p].sub][process[p].circle] = "archived"]
    BY <1>10 DEF Sub!ArchiveOne
  <2>2. process[p].circle = c
    BY <1>1, <1>4, <2>1
  <2> QED
    BY <2>2
<1> QED
  BY <1>3, <1>5, <1>6, <1>7, <1>8, <1>9, <1>10

-----------------------------------------------------------------------------
(* VaultWithdrawal: what rows claim and what the vault has paid.             *)

VaultRow ==
  [state: {"none", "pending", "succeeded", "failed", "canceled"}, amount: Nat]
VaultRequest ==
  [step: {"idle", "amount", "insert", "submit", "await", "settle", "fail"},
   amount: Nat, row: 0..MaxRows]

VaultTypes ==
  /\ vault \in Nat /\ paid \in Nat /\ vault + paid = donations
  /\ operation \in [Vault!Row -> {"none", "sent", "paid", "void"}]
  /\ withdrawal \in [Vault!Row -> VaultRow]
  /\ payee \in [Request -> VaultRequest]

\* A request that has a row has it for itself, pending and of the amount read;
\* a row that is not there was never paid.
RowsOwned ==
  /\ \A p \in Request :
       /\ payee[p].step = "idle" => payee[p] = Vault!Idle
       /\ payee[p].step \in {"amount", "insert"} => payee[p].row = 0
       /\ payee[p].step \in {"submit", "await", "settle", "fail"} =>
            /\ payee[p].row \in Vault!Row
            /\ withdrawal[payee[p].row].state = "pending"
            /\ withdrawal[payee[p].row].amount = payee[p].amount
  /\ \A p, q \in Request : payee[p].row = payee[q].row => p = q \/ payee[p].row = 0
  /\ \A w \in Vault!Row : withdrawal[w] = Vault!NoRow => operation[w] = "none"

\* Without an overlap one request is at work, and what succeeded, together with
\* what it has read, was there to be paid.
ClaimsCovered ==
  "overlap" \notin mishap =>
    /\ \A p, q \in Request : payee[p] # Vault!Idle /\ payee[q] # Vault!Idle => p = q
    /\ IsFiniteSet(Vault!UnitsOf(Vault!Succeeded))
    /\ Cardinality(Vault!UnitsOf(Vault!Succeeded)) <= paid
    /\ \A p \in Request :
         /\ payee[p].step \in {"insert", "submit", "await"} =>
              Cardinality(Vault!UnitsOf(Vault!Succeeded)) + payee[p].amount <= paid + vault
         /\ payee[p].step = "settle"
              \/ (payee[p].step = "await" /\ operation[payee[p].row] # "sent") =>
              Cardinality(Vault!UnitsOf(Vault!Succeeded)) + payee[p].amount <= paid

\* Without a fault a row that nobody is at tells the truth, and the operation
\* that is on its way is the one somebody waits for, with something to pay.
RowsTell ==
  mishap = {} =>
    /\ \A w \in Vault!Row : (\A p \in Request : payee[p].row # w) =>
         /\ operation[w] # "sent" /\ withdrawal[w].state # "pending"
         /\ withdrawal[w].state = "succeeded" <=> operation[w] = "paid"
    /\ \A w \in Vault!Row : operation[w] = "sent" => vault > 0
    /\ \A p \in Request :
         /\ payee[p].step = "submit" => operation[payee[p].row] = "none"
         /\ payee[p].step = "await" => operation[payee[p].row] \in {"sent", "paid"}
         /\ payee[p].step = "settle" => operation[payee[p].row] = "paid"
         /\ payee[p].step = "fail" => operation[payee[p].row] = "void"

VaultInv == VaultTypes /\ RowsOwned /\ ClaimsCovered /\ RowsTell

\* Who has left holds nothing.
LEMMA VaultIdle ==
  /\ Vault!Idle \in VaultRequest /\ Vault!Idle.step = "idle" /\ Vault!Idle.row = 0
  /\ \A w \in Vault!Row : w # 0 /\ w \in 0..MaxRows
BY CommunityAssumption DEF Vault!Idle, Vault!Row, VaultRequest

\* The rows that succeeded, and what they claim, are left alone.
LEMMA UnitsSame ==
  ASSUME \A w \in Vault!Row : withdrawal[w].state = "succeeded" \/ withdrawal'[w].state = "succeeded"
           => withdrawal'[w] = withdrawal[w]
  PROVE  Vault!UnitsOf(Vault!Succeeded)' = Vault!UnitsOf(Vault!Succeeded)
<1>1. Vault!Succeeded' = Vault!Succeeded
  BY DEF Vault!Succeeded
<1>2. \A w \in Vault!Succeeded : withdrawal'[w] = withdrawal[w]
  BY DEF Vault!Succeeded
<1> QED
  BY <1>1, <1>2 DEF Vault!UnitsOf

\* The vault begins empty.
LEMMA VaultInit == Vault!Init => VaultInv
<1> SUFFICES ASSUME Vault!Init PROVE VaultInv
  OBVIOUS
<1>1. \A w \in Vault!Row : withdrawal[w] = Vault!NoRow /\ operation[w] = "none"
  BY DEF Vault!Init
<1>2. \A p \in Request : payee[p] = Vault!Idle
  BY DEF Vault!Init
<1>3. VaultTypes
  BY VaultIdle DEF Vault!Init, VaultTypes, VaultRow, Vault!NoRow
<1>4. RowsOwned
  BY <1>1, <1>2, VaultIdle DEF RowsOwned
<1>5. Vault!UnitsOf(Vault!Succeeded) = {}
  BY <1>1 DEF Vault!UnitsOf, Vault!Succeeded, Vault!NoRow
<1>6. ClaimsCovered
  BY <1>2, <1>3, <1>5, VaultIdle, FS_EmptySet DEF ClaimsCovered, VaultTypes
<1>7. RowsTell
  BY <1>1, <1>2, VaultIdle DEF RowsTell, Vault!NoRow
<1> QED
  BY <1>3, <1>4, <1>6, <1>7 DEF VaultInv

\* Nothing but a request moves on.
LEMMA VaultProceeds ==
  ASSUME VaultInv, NEW p \in Request, NEW next \in VaultRequest,
         payee' = [payee EXCEPT ![p] = next],
         UNCHANGED <<vault, paid, donations, operation, withdrawal>>,
         mishap \subseteq mishap',
         next.step = "idle" => next = Vault!Idle,
         next.row = payee[p].row \/ next.row = 0,
         next.step \in {"amount", "insert"} => next.row = 0,
         next.step \in {"submit", "await", "settle", "fail"} =>
           /\ payee[p].step \in {"submit", "await", "settle"}
           /\ next.row = payee[p].row /\ next.amount = payee[p].amount,
         "overlap" \notin mishap' =>
           \A x \in Request : x # p => payee[x] = Vault!Idle,
         next.step = "insert" => next.amount = vault,
         next.step \notin {"submit", "await"},
         next.step = "settle" => payee[p].step = "await" /\ operation[payee[p].row] # "sent",
         next.step = "fail" => mishap' # {},
         payee[p].row # 0 => next.row # 0 \/ mishap' # {}
  PROVE  VaultInv'
<1>1. payee' \in [Request -> VaultRequest] /\ payee'[p] = next
      /\ \A x \in Request : x # p => payee'[x] = payee[x]
  BY DEF VaultInv, VaultTypes
<1>2. VaultTypes'
  BY <1>1 DEF VaultInv, VaultTypes
<1>3. RowsOwned'
  <2>1. \A x \in Request :
          /\ payee'[x].step = "idle" => payee'[x] = Vault!Idle
          /\ payee'[x].step \in {"amount", "insert"} => payee'[x].row = 0
          /\ payee'[x].step \in {"submit", "await", "settle", "fail"} =>
               /\ payee'[x].row \in Vault!Row
               /\ withdrawal'[payee'[x].row].state = "pending"
               /\ withdrawal'[payee'[x].row].amount = payee'[x].amount
    BY <1>1 DEF VaultInv, RowsOwned
  <2>2. \A x, y \in Request : payee'[x].row = payee'[y].row => x = y \/ payee'[x].row = 0
    BY <1>1 DEF VaultInv, RowsOwned
  <2>3. \A w \in Vault!Row : withdrawal'[w] = Vault!NoRow => operation'[w] = "none"
    BY DEF VaultInv, RowsOwned
  <2> QED
    BY <2>1, <2>2, <2>3 DEF RowsOwned
<1>4. ClaimsCovered'
  <2> SUFFICES ASSUME "overlap" \notin mishap' PROVE ClaimsCovered'
    BY DEF ClaimsCovered
  <2>1. Vault!UnitsOf(Vault!Succeeded)' = Vault!UnitsOf(Vault!Succeeded)
    BY UnitsSame
  <2>2. ClaimsCovered /\ "overlap" \notin mishap
    BY DEF VaultInv
  <2> DEFINE claimed == Cardinality(Vault!UnitsOf(Vault!Succeeded))
  <2>3. claimed \in Nat /\ claimed <= paid
    BY <2>2, FS_CardinalityType DEF ClaimsCovered
  <2>4. next.step = "settle" => claimed + next.amount <= paid
    BY <2>2 DEF ClaimsCovered
  <2>5. next.step = "insert" => claimed + next.amount <= paid + vault
    BY <2>3 DEF VaultInv, VaultTypes
  <2>6. \A x \in Request : x # p => payee'[x].step = "idle"
    BY <1>1, VaultIdle
  <2>7. \A x \in Request : x # p => payee'[x] = Vault!Idle
    BY <1>1
  <2> HIDE DEF claimed
  <2>8. \A x, y \in Request : payee'[x] # Vault!Idle /\ payee'[y] # Vault!Idle => x = y
    BY <2>7
  <2>9. \A x \in Request :
         /\ payee'[x].step \in {"insert", "submit", "await"} =>
              claimed + payee'[x].amount <= paid + vault
         /\ payee'[x].step = "settle"
              \/ (payee'[x].step = "await" /\ operation[payee'[x].row] # "sent") =>
              claimed + payee'[x].amount <= paid
    BY <2>4, <2>5, <2>6, <1>1
  <2> QED
    BY <2>1, <2>2, <2>3, <2>8, <2>9 DEF ClaimsCovered, claimed
<1>5. RowsTell'
  <2> SUFFICES ASSUME mishap' = {} PROVE RowsTell'
    BY DEF RowsTell
  <2>1. RowsTell /\ mishap = {}
    BY DEF VaultInv
  <2>2. next.row = payee[p].row
    BY DEF VaultRequest
  <2>3. \A w \in Vault!Row : (\A x \in Request : payee'[x].row # w) =>
          (\A x \in Request : payee[x].row # w)
    BY <1>1, <2>2
  <2>4. next.step = "settle" => operation[next.row] = "paid"
    BY <2>1 DEF RowsTell
  <2> QED
    BY <1>1, <2>1, <2>3, <2>4 DEF RowsTell
<1> QED
  BY <1>2, <1>3, <1>4, <1>5 DEF VaultInv

\* A withdrawal is asked for.
LEMMA VaultAsk ==
  ASSUME VaultInv, NEW p \in Request, Vault!AskWithdrawal(p)
  PROVE  VaultInv'
<1>1. payee[p] = Vault!Idle /\ Vault!Pending = {}
      /\ UNCHANGED <<vault, paid, donations, operation, withdrawal>>
      /\ mishap \subseteq mishap' /\ (Vault!Looking = {} \/ "overlap" \in mishap')
  BY DEF Vault!AskWithdrawal, Vault!MayAsk
<1>2. PICK next \in VaultRequest :
        payee' = [payee EXCEPT ![p] = next] /\ next.step = "amount" /\ next.row = 0
  <2> DEFINE moved == [payee[p] EXCEPT !.step = "amount"]
  <2>1. payee' = [payee EXCEPT ![p] = moved]
    BY DEF Vault!AskWithdrawal
  <2>2. moved \in VaultRequest /\ moved.step = "amount" /\ moved.row = 0
    BY <1>1, VaultIdle DEF Vault!Idle, VaultRequest
  <2> HIDE DEF moved
  <2> QED
    BY <2>1, <2>2
<1>3. ASSUME "overlap" \notin mishap', NEW x \in Request, x # p PROVE payee[x] = Vault!Idle
  <2>1. payee[x].step \notin {"amount", "insert"}
    BY <1>1, <1>3 DEF Vault!Looking
  <2>2. payee[x].step \notin {"submit", "await", "settle", "fail"}
    BY <1>1 DEF VaultInv, RowsOwned, Vault!Pending
  <2> QED
    BY <2>1, <2>2 DEF VaultInv, VaultTypes, VaultRequest, RowsOwned
<1> QED
  BY <1>1, <1>2, <1>3, VaultIdle, VaultProceeds

\* A request at work is the only one, unless two overlapped.
LEMMA VaultAlone ==
  ASSUME VaultInv, NEW p \in Request, payee[p].step # "idle"
  PROVE  /\ payee[p] \in VaultRequest /\ payee[p] # Vault!Idle
         /\ "overlap" \notin mishap => \A x \in Request : x # p => payee[x] = Vault!Idle
BY VaultIdle DEF VaultInv, VaultTypes, ClaimsCovered

\* The amount to withdraw is read.
LEMMA VaultRead ==
  ASSUME VaultInv, NEW p \in Request, Vault!ReadAmount(p)
  PROVE  VaultInv'
<1>1. payee[p].step = "amount" /\ payee[p].row = 0
      /\ UNCHANGED <<vault, paid, donations, operation, withdrawal, mishap>>
  BY DEF Vault!ReadAmount, VaultInv, RowsOwned
<1>2. PICK next \in VaultRequest :
        /\ payee' = [payee EXCEPT ![p] = next] /\ next.row = 0
        /\ next = Vault!Idle \/ (next.step = "insert" /\ next.amount = vault)
  <2> DEFINE moved == [step |-> "insert", amount |-> vault, row |-> 0]
  <2>1. payee' = [payee EXCEPT ![p] = Vault!Idle] \/ payee' = [payee EXCEPT ![p] = moved]
    BY DEF Vault!ReadAmount
  <2>2. moved \in VaultRequest /\ moved.step = "insert" /\ moved.amount = vault /\ moved.row = 0
    BY CommunityAssumption DEF VaultRequest, VaultInv, VaultTypes
  <2> HIDE DEF moved
  <2> QED
    BY <2>1, <2>2, VaultIdle
<1> QED
  BY <1>1, <1>2, VaultIdle, VaultAlone, VaultProceeds

\* The operation is waited for.
LEMMA VaultAwait ==
  ASSUME VaultInv, NEW p \in Request, Vault!AwaitTransaction(p)
  PROVE  VaultInv'
<1>1. payee[p].step = "await" /\ operation[payee[p].row] # "sent"
      /\ UNCHANGED <<vault, paid, donations, operation, withdrawal, mishap>>
  BY DEF Vault!AwaitTransaction
<1>2. PICK next \in VaultRequest :
        /\ payee' = [payee EXCEPT ![p] = next] /\ next.step = "settle"
        /\ next.row = payee[p].row /\ next.amount = payee[p].amount
  <2> DEFINE moved == [payee[p] EXCEPT !.step = "settle"]
  <2>1. payee' = [payee EXCEPT ![p] = moved]
    BY DEF Vault!AwaitTransaction
  <2>2. /\ moved \in VaultRequest /\ moved.step = "settle"
        /\ moved.row = payee[p].row /\ moved.amount = payee[p].amount
    BY DEF VaultRequest, VaultInv, VaultTypes
  <2> HIDE DEF moved
  <2> QED
    BY <2>1, <2>2
<1> QED
  BY <1>1, <1>2, VaultAlone, VaultProceeds

\* The call fails.
LEMMA VaultThrow ==
  ASSUME VaultInv, NEW p \in Request, Vault!Throw(p)
  PROVE  VaultInv'
<1>1. payee[p].step \in {"submit", "await", "settle"}
      /\ UNCHANGED <<vault, paid, donations, operation, withdrawal>>
      /\ mishap \subseteq mishap' /\ mishap' # {}
  BY DEF Vault!Throw, Vault!Fault
<1>2. PICK next \in VaultRequest :
        /\ payee' = [payee EXCEPT ![p] = next] /\ next.step = "fail"
        /\ next.row = payee[p].row /\ next.amount = payee[p].amount
  <2> DEFINE moved == [payee[p] EXCEPT !.step = "fail"]
  <2>1. payee' = [payee EXCEPT ![p] = moved]
    BY DEF Vault!Throw
  <2>2. /\ moved \in VaultRequest /\ moved.step = "fail"
        /\ moved.row = payee[p].row /\ moved.amount = payee[p].amount
    BY DEF VaultRequest, VaultInv, VaultTypes
  <2> HIDE DEF moved
  <2> QED
    BY <2>1, <2>2
<1> QED
  BY <1>1, <1>2, VaultAlone, VaultProceeds

\* A request stops, and its row stays as it is.
LEMMA VaultStop ==
  ASSUME VaultInv, NEW p \in Request, Vault!Stop(p)
  PROVE  VaultInv'
<1>1. payee[p] # Vault!Idle /\ payee' = [payee EXCEPT ![p] = Vault!Idle]
      /\ UNCHANGED <<vault, paid, donations, operation, withdrawal>>
      /\ mishap \subseteq mishap' /\ mishap' # {}
  BY DEF Vault!Stop, Vault!Fault
<1>2. payee[p].step # "idle"
  BY <1>1 DEF VaultInv, RowsOwned
<1> QED
  BY <1>1, <1>2, VaultIdle, VaultAlone, VaultProceeds

\* What the rows that succeeded claim is a number, without an overlap.
LEMMA VaultClaimed ==
  ASSUME VaultInv, "overlap" \notin mishap
  PROVE  Cardinality(Vault!UnitsOf(Vault!Succeeded)) \in Nat
BY FS_CardinalityType DEF VaultInv, ClaimsCovered

\* Somebody donates to the vault.
LEMMA VaultDonate ==
  ASSUME VaultInv, Vault!Donate
  PROVE  VaultInv'
<1>1. vault' = vault + 1 /\ donations' = donations + 1
      /\ UNCHANGED <<paid, operation, withdrawal, payee, mishap>>
  BY DEF Vault!Donate
<1>2. VaultTypes'
  BY <1>1 DEF VaultInv, VaultTypes
<1>3. RowsOwned'
  BY <1>1 DEF VaultInv, RowsOwned
<1>4. ClaimsCovered'
  <2> SUFFICES ASSUME "overlap" \notin mishap' PROVE ClaimsCovered'
    BY DEF ClaimsCovered
  <2>1. Vault!UnitsOf(Vault!Succeeded)' = Vault!UnitsOf(Vault!Succeeded)
    BY <1>1, UnitsSame
  <2> DEFINE claimed == Cardinality(Vault!UnitsOf(Vault!Succeeded))
  <2>2. claimed \in Nat /\ ClaimsCovered
    BY <1>1, VaultClaimed DEF VaultInv
  <2> HIDE DEF claimed
  <2>3. \A p \in Request : payee[p].step \in {"insert", "submit", "await"} =>
          claimed + payee[p].amount <= paid + vault'
    <3> SUFFICES ASSUME NEW p \in Request, payee[p].step \in {"insert", "submit", "await"}
                 PROVE  claimed + payee[p].amount <= paid + vault'
      OBVIOUS
    <3>1. claimed + payee[p].amount <= paid + vault /\ payee[p].amount \in Nat
      BY <1>1, <2>2 DEF ClaimsCovered, VaultInv, VaultTypes, VaultRequest, claimed
    <3> QED
      BY <1>1, <2>2, <3>1 DEF VaultInv, VaultTypes
  <2> QED
    BY <1>1, <2>1, <2>2, <2>3 DEF ClaimsCovered, claimed
<1>5. RowsTell'
  BY <1>1 DEF VaultInv, VaultTypes, RowsTell
<1> QED
  BY <1>2, <1>3, <1>4, <1>5 DEF VaultInv

\* The row is inserted before anything is sent.
LEMMA VaultInsert ==
  ASSUME VaultInv, NEW p \in Request, Vault!InsertRow(p)
  PROVE  VaultInv'
<1> PICK amount : amount = payee[p].amount
  OBVIOUS
<1>1. PICK w \in Vault!Row :
        /\ withdrawal[w] = Vault!NoRow
        /\ withdrawal' = [withdrawal EXCEPT ![w] = [state |-> "pending", amount |-> amount]]
        /\ payee' = [payee EXCEPT ![p].step = "submit", ![p].row = w]
  BY DEF Vault!InsertRow
<1>2. payee[p].step = "insert" /\ UNCHANGED <<vault, paid, donations, operation, mishap>>
  BY DEF Vault!InsertRow
<1>3. PICK next \in VaultRequest :
        /\ payee' = [payee EXCEPT ![p] = next] /\ next.step = "submit"
        /\ next.row = w /\ next.amount = amount
  <2> DEFINE moved == [payee[p] EXCEPT !.step = "submit", !.row = w]
  <2>1. payee' = [payee EXCEPT ![p] = moved]
    BY <1>1 DEF VaultInv, VaultTypes
  <2>2. moved \in VaultRequest /\ moved.step = "submit" /\ moved.row = w /\ moved.amount = amount
    BY VaultIdle DEF VaultRequest, VaultInv, VaultTypes
  <2> HIDE DEF moved
  <2> QED
    BY <2>1, <2>2
<1>4. payee' \in [Request -> VaultRequest] /\ payee'[p] = next /\ w # 0
      /\ \A x \in Request : x # p => payee'[x] = payee[x]
  BY <1>3, VaultIdle DEF VaultInv, VaultTypes
<1>5. /\ withdrawal' \in [Vault!Row -> VaultRow]
      /\ withdrawal'[w].state = "pending" /\ withdrawal'[w].amount = amount
      /\ \A v \in Vault!Row : v # w => withdrawal'[v] = withdrawal[v]
  BY <1>1 DEF VaultInv, VaultTypes, VaultRow, VaultRequest
<1>6. \A x \in Request : payee[x].row # w /\ payee[p].row = 0
  BY <1>1, <1>2, <1>4
     DEF VaultInv, RowsOwned, VaultTypes, VaultRequest, Vault!NoRow, Vault!Idle
<1>7. VaultTypes'
  BY <1>2, <1>4, <1>5 DEF VaultInv, VaultTypes
<1>8. RowsOwned'
  <2>1. ASSUME NEW x \in Request
        PROVE  /\ payee'[x].step = "idle" => payee'[x] = Vault!Idle
               /\ payee'[x].step \in {"amount", "insert"} => payee'[x].row = 0
               /\ payee'[x].step \in {"submit", "await", "settle", "fail"} =>
                    /\ payee'[x].row \in Vault!Row
                    /\ withdrawal'[payee'[x].row].state = "pending"
                    /\ withdrawal'[payee'[x].row].amount = payee'[x].amount
    <3>1. CASE x = p
      BY <3>1, <1>3, <1>4, <1>5
    <3>2. CASE x # p
      BY <3>2, <1>4, <1>5, <1>6 DEF VaultInv, RowsOwned
    <3> QED
      BY <3>1, <3>2
  <2>2. \A x, y \in Request : payee'[x].row = payee'[y].row => x = y \/ payee'[x].row = 0
    BY <1>3, <1>4, <1>6 DEF VaultInv, RowsOwned
  <2>3. \A v \in Vault!Row : withdrawal'[v] = Vault!NoRow => operation'[v] = "none"
    BY <1>2, <1>5 DEF VaultInv, RowsOwned, Vault!NoRow
  <2> QED
    BY <2>1, <2>2, <2>3 DEF RowsOwned
<1>9. ClaimsCovered'
  <2> SUFFICES ASSUME "overlap" \notin mishap' PROVE ClaimsCovered'
    BY DEF ClaimsCovered
  <2>1. Vault!UnitsOf(Vault!Succeeded)' = Vault!UnitsOf(Vault!Succeeded)
    <3>1. \A v \in Vault!Row :
            withdrawal[v].state = "succeeded" \/ withdrawal'[v].state = "succeeded"
              => withdrawal'[v] = withdrawal[v]
      BY <1>1, <1>5 DEF Vault!NoRow
    <3> QED
      BY <3>1, UnitsSame
  <2> DEFINE claimed == Cardinality(Vault!UnitsOf(Vault!Succeeded))
  <2>2. claimed \in Nat /\ ClaimsCovered
    BY <1>2, VaultClaimed DEF VaultInv
  <2>3. claimed + next.amount <= paid + vault
    BY <1>2, <1>3, <2>2 DEF ClaimsCovered
  <2>4. \A x \in Request : x # p => payee'[x] = Vault!Idle
    BY <1>2, <1>4, VaultAlone
  <2>5. claimed <= paid /\ IsFiniteSet(Vault!UnitsOf(Vault!Succeeded))
    BY <1>2, <2>2 DEF ClaimsCovered
  <2> HIDE DEF claimed
  <2>6. \A x, y \in Request : payee'[x] # Vault!Idle /\ payee'[y] # Vault!Idle => x = y
    BY <2>4
  <2>7. \A x \in Request :
         /\ payee'[x].step \in {"insert", "submit", "await"} =>
              claimed + payee'[x].amount <= paid + vault
         /\ payee'[x].step \notin {"settle", "await"}
    BY <2>3, <2>4, <1>3, <1>4, VaultIdle
  <2> QED
    BY <1>2, <2>1, <2>5, <2>6, <2>7 DEF ClaimsCovered, claimed
<1>10. RowsTell'
  <2> SUFFICES ASSUME mishap' = {} PROVE RowsTell'
    BY DEF RowsTell
  <2>1. RowsTell /\ mishap = {} /\ operation[w] = "none"
    BY <1>1, <1>2 DEF VaultInv, RowsOwned
  <2>2. \A x \in Request : payee'[x].row = w <=> x = p
    BY <1>3, <1>4, <1>6
  <2>3. \A v \in Vault!Row : (\A x \in Request : payee'[x].row # v) =>
          v # w /\ (\A x \in Request : payee[x].row # v)
    BY <1>3, <1>4, <1>6, VaultIdle
  <2>4. \A v \in Vault!Row : (\A x \in Request : payee'[x].row # v) =>
         /\ operation'[v] # "sent" /\ withdrawal'[v].state # "pending"
         /\ withdrawal'[v].state = "succeeded" <=> operation'[v] = "paid"
    BY <1>2, <1>5, <2>1, <2>3 DEF RowsTell
  <2>5. \A x \in Request :
         /\ payee'[x].step = "submit" => operation'[payee'[x].row] = "none"
         /\ payee'[x].step = "await" => operation'[payee'[x].row] \in {"sent", "paid"}
         /\ payee'[x].step = "settle" => operation'[payee'[x].row] = "paid"
         /\ payee'[x].step = "fail" => operation'[payee'[x].row] = "void"
    BY <1>2, <1>3, <1>4, <2>1 DEF RowsTell
  <2> QED
    BY <1>2, <2>1, <2>4, <2>5 DEF RowsTell
<1> QED
  BY <1>7, <1>8, <1>9, <1>10 DEF VaultInv

\* The operation is sent.
LEMMA VaultSubmit ==
  ASSUME VaultInv, NEW p \in Request, Vault!Submit(p)
  PROVE  VaultInv'
<1> PICK w : w = payee[p].row
  OBVIOUS
<1> PICK op \in {"void", "sent"} : op = IF vault = 0 THEN "void" ELSE "sent"
  OBVIOUS
<1> PICK step \in {"fail", "await"} : step = IF vault = 0 THEN "fail" ELSE "await"
  OBVIOUS
<1>1. /\ payee[p].step = "submit"
      /\ operation' = [operation EXCEPT ![w] = op]
      /\ payee' = [payee EXCEPT ![p].step = step]
      /\ UNCHANGED <<vault, paid, donations, withdrawal, mishap>>
  BY DEF Vault!Submit
<1>2. PICK next \in VaultRequest :
        /\ payee' = [payee EXCEPT ![p] = next] /\ next.step = step
        /\ next.row = w /\ next.amount = payee[p].amount
  <2> DEFINE moved == [payee[p] EXCEPT !.step = step]
  <2>1. payee' = [payee EXCEPT ![p] = moved]
    BY <1>1 DEF VaultInv, VaultTypes
  <2>2. /\ moved \in VaultRequest /\ moved.step = step /\ moved.row = w
        /\ moved.amount = payee[p].amount
    BY DEF VaultRequest, VaultInv, VaultTypes
  <2> HIDE DEF moved
  <2> QED
    BY <2>1, <2>2
<1>3. payee' \in [Request -> VaultRequest] /\ payee'[p] = next
      /\ \A x \in Request : x # p => payee'[x] = payee[x]
  BY <1>2 DEF VaultInv, VaultTypes
<1>4. w \in Vault!Row /\ withdrawal[w].state = "pending"
      /\ \A x \in Request : payee'[x].row = payee[x].row
  BY <1>1, <1>2, <1>3 DEF VaultInv, RowsOwned
<1>5. operation' \in [Vault!Row -> {"none", "sent", "paid", "void"}] /\ operation'[w] = op
      /\ \A v \in Vault!Row : v # w => operation'[v] = operation[v]
  BY <1>1, <1>4 DEF VaultInv, VaultTypes
<1>6. VaultTypes'
  BY <1>1, <1>3, <1>5 DEF VaultInv, VaultTypes
<1>7. RowsOwned'
  <2>1. ASSUME NEW x \in Request
        PROVE  /\ payee'[x].step = "idle" => payee'[x] = Vault!Idle
               /\ payee'[x].step \in {"amount", "insert"} => payee'[x].row = 0
               /\ payee'[x].step \in {"submit", "await", "settle", "fail"} =>
                    /\ payee'[x].row \in Vault!Row
                    /\ withdrawal'[payee'[x].row].state = "pending"
                    /\ withdrawal'[payee'[x].row].amount = payee'[x].amount
    BY <1>1, <1>2, <1>3 DEF VaultInv, RowsOwned
  <2>2. \A x, y \in Request : payee'[x].row = payee'[y].row => x = y \/ payee'[x].row = 0
    BY <1>4 DEF VaultInv, RowsOwned
  <2>3. \A v \in Vault!Row : withdrawal'[v] = Vault!NoRow => operation'[v] = "none"
    BY <1>1, <1>4, <1>5 DEF VaultInv, RowsOwned, Vault!NoRow
  <2> QED
    BY <2>1, <2>2, <2>3 DEF RowsOwned
<1>8. ClaimsCovered'
  <2> SUFFICES ASSUME "overlap" \notin mishap' PROVE ClaimsCovered'
    BY DEF ClaimsCovered
  <2>1. Vault!UnitsOf(Vault!Succeeded)' = Vault!UnitsOf(Vault!Succeeded)
    BY <1>1, UnitsSame
  <2> DEFINE claimed == Cardinality(Vault!UnitsOf(Vault!Succeeded))
  <2>2. ClaimsCovered /\ \A x \in Request : x # p => payee'[x] = Vault!Idle
    BY <1>1, <1>3, VaultAlone DEF VaultInv
  <2>3. claimed + next.amount <= paid + vault
    BY <1>1, <1>2, <2>2 DEF ClaimsCovered
  <2>4. claimed <= paid /\ IsFiniteSet(Vault!UnitsOf(Vault!Succeeded))
    BY <1>1, <2>2 DEF ClaimsCovered
  <2> HIDE DEF claimed
  <2>5. \A x, y \in Request : payee'[x] # Vault!Idle /\ payee'[y] # Vault!Idle => x = y
    BY <2>2
  <2>6. \A x \in Request :
         /\ payee'[x].step \in {"insert", "submit", "await"} =>
              claimed + payee'[x].amount <= paid + vault
         /\ payee'[x].step # "settle"
         /\ payee'[x].step = "await" => operation'[payee'[x].row] = "sent"
    BY <2>2, <2>3, <1>2, <1>3, <1>5, VaultIdle
  <2> QED
    BY <1>1, <2>1, <2>4, <2>5, <2>6 DEF ClaimsCovered, claimed
<1>9. RowsTell'
  <2> SUFFICES ASSUME mishap' = {} PROVE RowsTell'
    BY DEF RowsTell
  <2>1. RowsTell /\ mishap = {}
    BY <1>1 DEF VaultInv
  <2>2. \A v \in Vault!Row : (\A x \in Request : payee'[x].row # v) =>
         /\ operation'[v] # "sent" /\ withdrawal'[v].state # "pending"
         /\ withdrawal'[v].state = "succeeded" <=> operation'[v] = "paid"
    BY <1>1, <1>2, <1>3, <1>4, <1>5, <2>1 DEF RowsTell
  <2>3. \A v \in Vault!Row : operation'[v] = "sent" => vault' > 0
    BY <1>1, <1>5, <2>1 DEF RowsTell, VaultInv, VaultTypes
  <2>4. ASSUME NEW x \in Request
        PROVE  /\ payee'[x].step = "submit" => operation'[payee'[x].row] = "none"
               /\ payee'[x].step = "await" => operation'[payee'[x].row] \in {"sent", "paid"}
               /\ payee'[x].step = "settle" => operation'[payee'[x].row] = "paid"
               /\ payee'[x].step = "fail" => operation'[payee'[x].row] = "void"
    <3>1. CASE x = p
      BY <3>1, <1>2, <1>3, <1>5
    <3>2. CASE x # p
      BY <3>2, <1>1, <1>3, <2>1, VaultAlone, VaultIdle
    <3> QED
      BY <3>1, <3>2
  <2> QED
    BY <2>2, <2>3, <2>4 DEF RowsTell
<1> QED
  BY <1>6, <1>7, <1>8, <1>9 DEF VaultInv

\* An operation is included, or expires; nobody that waits for it is misled.
LEMMA VaultInclude ==
  ASSUME VaultInv, NEW w \in Vault!Row, Vault!Include(w)
  PROVE  VaultInv'
<1> PICK op \in {"void", "paid"} : op = IF vault = 0 THEN "void" ELSE "paid"
  OBVIOUS
<1>1. /\ operation[w] = "sent" /\ operation' = [operation EXCEPT ![w] = op]
      /\ paid' = paid + vault /\ vault' = 0
      /\ UNCHANGED <<donations, withdrawal, payee, mishap>>
  BY DEF Vault!Include
<1>2. operation' \in [Vault!Row -> {"none", "sent", "paid", "void"}] /\ operation'[w] = op
      /\ \A v \in Vault!Row : v # w => operation'[v] = operation[v]
  BY <1>1 DEF VaultInv, VaultTypes
<1>3. VaultTypes'
  BY <1>1, <1>2 DEF VaultInv, VaultTypes
<1>4. RowsOwned'
  BY <1>1, <1>2 DEF VaultInv, RowsOwned
<1>5. ClaimsCovered'
  <2> SUFFICES ASSUME "overlap" \notin mishap' PROVE ClaimsCovered'
    BY DEF ClaimsCovered
  <2>1. Vault!UnitsOf(Vault!Succeeded)' = Vault!UnitsOf(Vault!Succeeded)
    BY <1>1, UnitsSame
  <2> DEFINE claimed == Cardinality(Vault!UnitsOf(Vault!Succeeded))
  <2>2. claimed \in Nat /\ ClaimsCovered
    BY <1>1, VaultClaimed DEF VaultInv
  <2>3. claimed <= paid /\ IsFiniteSet(Vault!UnitsOf(Vault!Succeeded))
    BY <1>1, <2>2 DEF ClaimsCovered
  <2>4. ASSUME NEW p \in Request
        PROVE  /\ payee[p].step \in {"insert", "submit", "await"} =>
                    claimed + payee[p].amount <= paid + vault
               /\ payee[p].step = "settle" => claimed + payee[p].amount <= paid
               /\ payee[p].amount \in Nat
    BY <1>1, <2>2 DEF ClaimsCovered, VaultInv, VaultTypes, VaultRequest
  <2> HIDE DEF claimed
  <2>5. vault \in Nat /\ paid \in Nat /\ paid' + vault' = paid + vault /\ paid' = paid + vault
    BY <1>1 DEF VaultInv, VaultTypes
  <2>6. claimed <= paid'
    BY <2>2, <2>3, <2>5
  <2>7. \A p \in Request :
         /\ payee[p].step \in {"insert", "submit", "await"} =>
              claimed + payee[p].amount <= paid' + vault'
         /\ payee[p].step \in {"settle", "await"} => claimed + payee[p].amount <= paid'
    BY <2>2, <2>4, <2>5
  <2> QED
    BY <1>1, <2>1, <2>2, <2>3, <2>6, <2>7 DEF ClaimsCovered, claimed
<1>6. RowsTell'
  <2> SUFFICES ASSUME mishap' = {} PROVE RowsTell'
    BY DEF RowsTell
  <2>1. RowsTell /\ mishap = {} /\ "overlap" \notin mishap /\ op = "paid"
    BY <1>1 DEF VaultInv, RowsTell
  <2>2. PICK p \in Request : payee[p].row = w
    BY <1>1, <2>1 DEF RowsTell
  <2>3. w # 0
    BY VaultIdle
  <2>4. payee[p].step = "await"
    BY <1>1, <2>1, <2>2, <2>3
       DEF RowsTell, VaultInv, RowsOwned, VaultTypes, VaultRequest, Vault!Idle
  <2>5. \A x \in Request : x # p => payee[x] = Vault!Idle
    BY <2>1, <2>4, VaultAlone
  <2>6. \A v \in Vault!Row : v # w => \A x \in Request : payee[x].row # v
    BY <2>2, <2>5, VaultIdle
  <2>7. \A v \in Vault!Row : operation'[v] # "sent"
    BY <1>2, <2>1, <2>6 DEF RowsTell
  <2>8. \A v \in Vault!Row : (\A x \in Request : payee'[x].row # v) =>
         /\ operation'[v] # "sent" /\ withdrawal'[v].state # "pending"
         /\ withdrawal'[v].state = "succeeded" <=> operation'[v] = "paid"
    BY <1>1, <1>2, <2>1, <2>2 DEF RowsTell
  <2>9. \A x \in Request :
         /\ payee'[x].step \notin {"submit", "settle", "fail"}
         /\ payee'[x].step = "await" => operation'[payee'[x].row] = "paid"
    BY <1>1, <1>2, <2>1, <2>2, <2>4, <2>5, VaultIdle
  <2> QED
    BY <2>7, <2>8, <2>9 DEF RowsTell
<1> QED
  BY <1>3, <1>4, <1>5, <1>6 DEF VaultInv

\* An operation that is not included runs out.
LEMMA VaultExpire ==
  ASSUME VaultInv, NEW w \in Vault!Row, Vault!Expire(w)
  PROVE  VaultInv'
<1>1. /\ operation[w] = "sent" /\ operation' = [operation EXCEPT ![w] = "void"]
      /\ \A p \in Request : payee[p].row # w
      /\ UNCHANGED <<vault, paid, donations, withdrawal, payee, mishap>>
  BY DEF Vault!Expire
<1>2. operation' \in [Vault!Row -> {"none", "sent", "paid", "void"}]
      /\ \A v \in Vault!Row : v # w => operation'[v] = operation[v]
  BY <1>1 DEF VaultInv, VaultTypes
<1>3. VaultTypes'
  BY <1>1, <1>2 DEF VaultInv, VaultTypes
<1>4. RowsOwned'
  BY <1>1, <1>2 DEF VaultInv, RowsOwned
<1>5. Vault!UnitsOf(Vault!Succeeded)' = Vault!UnitsOf(Vault!Succeeded)
  BY <1>1, UnitsSame
<1>6. \A p \in Request : payee[p].step = "await" => operation'[payee[p].row] = operation[payee[p].row]
  BY <1>1, <1>2 DEF VaultInv, RowsOwned
<1>7. ClaimsCovered'
  BY <1>1, <1>5, <1>6 DEF VaultInv, ClaimsCovered
<1>8. mishap # {}
  BY <1>1 DEF VaultInv, RowsTell
<1>9. RowsTell'
  BY <1>1, <1>8 DEF RowsTell
<1> QED
  BY <1>3, <1>4, <1>7, <1>9 DEF VaultInv

\* A row that is settled claims what it says, and what was claimed before.
LEMMA VaultUnitsSettled ==
  ASSUME VaultInv, NEW w \in Vault!Row, withdrawal[w].state = "pending",
         withdrawal' = [withdrawal EXCEPT ![w].state = "succeeded"],
         IsFiniteSet(Vault!UnitsOf(Vault!Succeeded))
  PROVE  /\ IsFiniteSet(Vault!UnitsOf(Vault!Succeeded)')
         /\ Cardinality(Vault!UnitsOf(Vault!Succeeded)')
              = Cardinality(Vault!UnitsOf(Vault!Succeeded)) + withdrawal[w].amount
<1> PICK old : old = Vault!UnitsOf(Vault!Succeeded)
  OBVIOUS
<1> PICK amount \in Nat : amount = withdrawal[w].amount
  BY DEF VaultInv, VaultTypes, VaultRow
<1> DEFINE more == {w} \X (1..amount)
<1>1. /\ withdrawal'[w].state = "succeeded" /\ withdrawal'[w].amount = amount
      /\ \A v \in Vault!Row : v # w => withdrawal'[v] = withdrawal[v]
  BY DEF VaultInv, VaultTypes, VaultRow
<1>2. Vault!Succeeded' = Vault!Succeeded \cup {w} /\ w \notin Vault!Succeeded
  BY <1>1 DEF Vault!Succeeded
<1>3. Vault!UnitsOf(Vault!Succeeded)' = old \cup more
  <2>1. \A v \in Vault!Succeeded : withdrawal'[v] = withdrawal[v]
    BY <1>1, <1>2 DEF Vault!Succeeded
  <2> QED
    BY <1>1, <1>2, <2>1 DEF Vault!UnitsOf
<1>4. old \cap more = {}
  BY <1>2 DEF Vault!UnitsOf
<1>5. IsFiniteSet(more) /\ Cardinality(more) = amount
  <2>1. IsFiniteSet({w}) /\ Cardinality({w}) = 1
    BY FS_Singleton
  <2>2. IsFiniteSet(1..amount) /\ Cardinality(1..amount) = amount
    <3>1. 1 \in Int /\ amount \in Int /\ (1 > amount => amount = 0) /\ amount-1+1 = amount
      OBVIOUS
    <3>2. /\ IsFiniteSet(1..amount)
          /\ Cardinality(1..amount) = IF 1 > amount THEN 0 ELSE amount-1+1
      BY <3>1, FS_Interval
    <3> QED
      BY <3>1, <3>2
  <2>3. IsFiniteSet(more) /\ Cardinality(more) = Cardinality({w}) * Cardinality(1..amount)
    BY <2>1, <2>2, FS_Product
  <2> QED
    BY <2>1, <2>2, <2>3
<1> HIDE DEF more
<1>6. /\ IsFiniteSet(old \cup more)
      /\ Cardinality(old \cup more) = Cardinality(old) + Cardinality(more) - Cardinality(old \cap more)
  BY <1>5, FS_Union
<1>7. Cardinality(old \cap more) = 0 /\ Cardinality(old) \in Nat
  BY <1>4, FS_EmptySet, FS_CardinalityType
<1> QED
  BY <1>3, <1>5, <1>6, <1>7

\* The row of an operation that was included is settled.
LEMMA VaultSettle ==
  ASSUME VaultInv, NEW p \in Request, Vault!SettleRow(p)
  PROVE  VaultInv'
<1> PICK w : w = payee[p].row
  OBVIOUS
<1>1. /\ payee[p].step = "settle"
      /\ withdrawal' = [withdrawal EXCEPT ![w].state = "succeeded"]
      /\ payee' = [payee EXCEPT ![p] = Vault!Idle]
      /\ UNCHANGED <<vault, paid, donations, operation, mishap>>
  BY DEF Vault!SettleRow
<1>2. /\ w \in Vault!Row /\ withdrawal[w].state = "pending" /\ w # 0
      /\ withdrawal[w].amount = payee[p].amount
      /\ \A x \in Request : x # p => payee[x].row # w
  BY <1>1, VaultIdle DEF VaultInv, RowsOwned
<1>3. payee' \in [Request -> VaultRequest] /\ payee'[p] = Vault!Idle
      /\ \A x \in Request : x # p => payee'[x] = payee[x]
  BY <1>1, VaultIdle DEF VaultInv, VaultTypes
<1>4. /\ withdrawal' \in [Vault!Row -> VaultRow] /\ withdrawal'[w].state = "succeeded"
      /\ \A v \in Vault!Row : v # w => withdrawal'[v] = withdrawal[v]
  BY <1>1, <1>2 DEF VaultInv, VaultTypes, VaultRow
<1>5. VaultTypes'
  BY <1>1, <1>3, <1>4 DEF VaultInv, VaultTypes
<1>6. RowsOwned'
  <2>1. ASSUME NEW x \in Request
        PROVE  /\ payee'[x].step = "idle" => payee'[x] = Vault!Idle
               /\ payee'[x].step \in {"amount", "insert"} => payee'[x].row = 0
               /\ payee'[x].step \in {"submit", "await", "settle", "fail"} =>
                    /\ payee'[x].row \in Vault!Row
                    /\ withdrawal'[payee'[x].row].state = "pending"
                    /\ withdrawal'[payee'[x].row].amount = payee'[x].amount
    <3>1. CASE x = p
      BY <3>1, <1>3, VaultIdle
    <3>2. CASE x # p
      BY <3>2, <1>2, <1>3, <1>4 DEF VaultInv, RowsOwned
    <3> QED
      BY <3>1, <3>2
  <2>2. \A x, y \in Request : payee'[x].row = payee'[y].row => x = y \/ payee'[x].row = 0
    BY <1>3, VaultIdle DEF VaultInv, RowsOwned
  <2>3. \A v \in Vault!Row : withdrawal'[v] = Vault!NoRow => operation'[v] = "none"
    BY <1>1, <1>4 DEF VaultInv, RowsOwned, Vault!NoRow
  <2> QED
    BY <2>1, <2>2, <2>3 DEF RowsOwned
<1>7. ClaimsCovered'
  <2> SUFFICES ASSUME "overlap" \notin mishap' PROVE ClaimsCovered'
    BY DEF ClaimsCovered
  <2>1. ClaimsCovered /\ \A x \in Request : payee'[x] = Vault!Idle
    BY <1>1, <1>3, VaultAlone DEF VaultInv
  <2>2. IsFiniteSet(Vault!UnitsOf(Vault!Succeeded))
        /\ Cardinality(Vault!UnitsOf(Vault!Succeeded)) + withdrawal[w].amount <= paid
    BY <1>1, <1>2, <2>1 DEF ClaimsCovered
  <2>3. IsFiniteSet(Vault!UnitsOf(Vault!Succeeded)')
        /\ Cardinality(Vault!UnitsOf(Vault!Succeeded)') <= paid
    BY <1>1, <1>2, <2>2, VaultUnitsSettled
  <2> QED
    BY <1>1, <2>1, <2>3, VaultIdle DEF ClaimsCovered
<1>8. RowsTell'
  <2> SUFFICES ASSUME mishap' = {} PROVE RowsTell'
    BY DEF RowsTell
  <2>1. RowsTell /\ mishap = {} /\ operation[w] = "paid"
    BY <1>1 DEF VaultInv, RowsTell
  <2>2. \A x \in Request : payee'[x] = Vault!Idle
    BY <1>1, <1>3, <2>1, VaultAlone
  <2>3. \A v \in Vault!Row : v # w => \A x \in Request : payee[x].row # v
    BY <1>1, <2>1, VaultAlone, VaultIdle
  <2>4. \A v \in Vault!Row :
         /\ operation'[v] # "sent" /\ withdrawal'[v].state # "pending"
         /\ withdrawal'[v].state = "succeeded" <=> operation'[v] = "paid"
    BY <1>1, <1>4, <2>1, <2>3 DEF RowsTell
  <2> QED
    BY <2>2, <2>4, VaultIdle DEF RowsTell
<1> QED
  BY <1>5, <1>6, <1>7, <1>8 DEF VaultInv

\* The row of an operation that failed is marked so.
LEMMA VaultFail ==
  ASSUME VaultInv, NEW p \in Request, Vault!FailRow(p)
  PROVE  VaultInv'
<1> PICK w : w = payee[p].row
  OBVIOUS
<1>1. /\ payee[p].step = "fail"
      /\ withdrawal' = [withdrawal EXCEPT ![w].state = "failed"]
      /\ payee' = [payee EXCEPT ![p] = Vault!Idle]
      /\ UNCHANGED <<vault, paid, donations, operation, mishap>>
  BY DEF Vault!FailRow
<1>2. /\ w \in Vault!Row /\ withdrawal[w].state = "pending" /\ w # 0
      /\ \A x \in Request : x # p => payee[x].row # w
  BY <1>1, VaultIdle DEF VaultInv, RowsOwned
<1>3. payee' \in [Request -> VaultRequest] /\ payee'[p] = Vault!Idle
      /\ \A x \in Request : x # p => payee'[x] = payee[x]
  BY <1>1, VaultIdle DEF VaultInv, VaultTypes
<1>4. /\ withdrawal' \in [Vault!Row -> VaultRow] /\ withdrawal'[w].state = "failed"
      /\ \A v \in Vault!Row : v # w => withdrawal'[v] = withdrawal[v]
  BY <1>1, <1>2 DEF VaultInv, VaultTypes, VaultRow
<1>5. VaultTypes'
  BY <1>1, <1>3, <1>4 DEF VaultInv, VaultTypes
<1>6. RowsOwned'
  <2>1. ASSUME NEW x \in Request
        PROVE  /\ payee'[x].step = "idle" => payee'[x] = Vault!Idle
               /\ payee'[x].step \in {"amount", "insert"} => payee'[x].row = 0
               /\ payee'[x].step \in {"submit", "await", "settle", "fail"} =>
                    /\ payee'[x].row \in Vault!Row
                    /\ withdrawal'[payee'[x].row].state = "pending"
                    /\ withdrawal'[payee'[x].row].amount = payee'[x].amount
    <3>1. CASE x = p
      BY <3>1, <1>3, VaultIdle
    <3>2. CASE x # p
      BY <3>2, <1>2, <1>3, <1>4 DEF VaultInv, RowsOwned
    <3> QED
      BY <3>1, <3>2
  <2>2. \A x, y \in Request : payee'[x].row = payee'[y].row => x = y \/ payee'[x].row = 0
    BY <1>3, VaultIdle DEF VaultInv, RowsOwned
  <2>3. \A v \in Vault!Row : withdrawal'[v] = Vault!NoRow => operation'[v] = "none"
    BY <1>1, <1>4 DEF VaultInv, RowsOwned, Vault!NoRow
  <2> QED
    BY <2>1, <2>2, <2>3 DEF RowsOwned
<1>7. ClaimsCovered'
  <2> SUFFICES ASSUME "overlap" \notin mishap' PROVE ClaimsCovered'
    BY DEF ClaimsCovered
  <2>1. ClaimsCovered /\ \A x \in Request : payee'[x] = Vault!Idle
    BY <1>1, <1>3, VaultAlone DEF VaultInv
  <2>2. Vault!UnitsOf(Vault!Succeeded)' = Vault!UnitsOf(Vault!Succeeded)
    BY <1>2, <1>4, UnitsSame
  <2> QED
    BY <1>1, <2>1, <2>2, VaultIdle DEF ClaimsCovered
<1>8. RowsTell'
  <2> SUFFICES ASSUME mishap' = {} PROVE RowsTell'
    BY DEF RowsTell
  <2>1. RowsTell /\ mishap = {} /\ operation[w] = "void"
    BY <1>1 DEF VaultInv, RowsTell
  <2>2. \A x \in Request : payee'[x] = Vault!Idle
    BY <1>1, <1>3, <2>1, VaultAlone
  <2>3. \A v \in Vault!Row : v # w => \A x \in Request : payee[x].row # v
    BY <1>1, <2>1, VaultAlone, VaultIdle
  <2>4. \A v \in Vault!Row :
         /\ operation'[v] # "sent" /\ withdrawal'[v].state # "pending"
         /\ withdrawal'[v].state = "succeeded" <=> operation'[v] = "paid"
    BY <1>1, <1>4, <2>1, <2>3 DEF RowsTell
  <2> QED
    BY <2>2, <2>4, VaultIdle DEF RowsTell
<1> QED
  BY <1>5, <1>6, <1>7, <1>8 DEF VaultInv

\* A pending row that nobody is at is cancelled.
LEMMA VaultCancel ==
  ASSUME VaultInv, NEW w \in Vault!Row, Vault!CancelTimeout(w)
  PROVE  VaultInv'
<1>1. /\ withdrawal[w].state = "pending" /\ \A p \in Request : payee[p].row # w
      /\ withdrawal' = [withdrawal EXCEPT ![w].state = "canceled"]
      /\ UNCHANGED <<vault, paid, donations, operation, payee, mishap>>
  BY DEF Vault!CancelTimeout, Vault!TimesOut, Vault!Pending
<1>2. /\ withdrawal' \in [Vault!Row -> VaultRow] /\ withdrawal'[w].state = "canceled"
      /\ \A v \in Vault!Row : v # w => withdrawal'[v] = withdrawal[v]
  BY <1>1 DEF VaultInv, VaultTypes, VaultRow
<1>3. VaultTypes'
  BY <1>1, <1>2 DEF VaultInv, VaultTypes
<1>4. RowsOwned'
  BY <1>1, <1>2 DEF VaultInv, RowsOwned, Vault!NoRow
<1>5. Vault!UnitsOf(Vault!Succeeded)' = Vault!UnitsOf(Vault!Succeeded)
  BY <1>1, <1>2, UnitsSame
<1>6. ClaimsCovered'
  BY <1>1, <1>5 DEF VaultInv, ClaimsCovered
<1>7. mishap # {}
  BY <1>1 DEF VaultInv, RowsTell
<1>8. RowsTell'
  BY <1>1, <1>7 DEF RowsTell
<1> QED
  BY <1>3, <1>4, <1>6, <1>8 DEF VaultInv

\* Whatever happens next, the invariant stays.
LEMMA VaultNext == VaultInv /\ Vault!Next => VaultInv'
BY VaultDonate, VaultAsk, VaultRead, VaultInsert, VaultSubmit, VaultAwait, VaultSettle, VaultFail,
   VaultThrow, VaultStop, VaultInclude, VaultExpire, VaultCancel DEF Vault!Next

\* A step that leaves the vault alone.
LEMMA VaultStutter == VaultInv /\ UNCHANGED vaultVars => VaultInv'
BY DEF vaultVars, VaultInv, VaultTypes, RowsOwned, ClaimsCovered, RowsTell, Vault!UnitsOf,
   Vault!Succeeded

\* What the invariant says of the withdrawals.
LEMMA VaultSafe == VaultInv => Vault!TypeOK /\ Vault!ClaimedWasPaid /\ Vault!RowTellsPayment
<1> SUFFICES ASSUME VaultInv PROVE Vault!TypeOK /\ Vault!ClaimedWasPaid /\ Vault!RowTellsPayment
  OBVIOUS
<1>1. Vault!TypeOK
  BY DEF VaultInv, VaultTypes, VaultRow, Vault!TypeOK
<1>2. Vault!ClaimedWasPaid
  BY VaultCounts DEF VaultInv, ClaimsCovered, Vault!ClaimedWasPaid
<1>3. Vault!RowTellsPayment
  <2> SUFFICES ASSUME mishap = {}, \A p \in Request : payee[p] = Vault!Idle, NEW w \in Vault!Row
               PROVE  withdrawal[w].state = "succeeded" <=> operation[w] = "paid"
    BY DEF Vault!RowTellsPayment
  <2> QED
    BY VaultIdle DEF VaultInv, RowsTell
<1> QED
  BY <1>1, <1>2, <1>3

-----------------------------------------------------------------------------
(* LikePay: the donor coming back and the webhook over one donation.         *)

LikeVisit ==
  [who: {"none", "donor", "webhook"}, status: {"none", "pending", "success", "failed"},
   step: {"idle", "hash", "token", "update", "create", "notify", "answer"},
   row: {"none", "paid"}]
LikeRow ==
  [key: {"none", "token", "hash"},
   state: {"none", "pending", "succeeded", "failed", "canceled"}]


LikeTypes ==
  /\ record \in [Like!Row -> LikeRow]
  /\ visit \in [Request -> LikeVisit]
  /\ lapses \in [faults: Nat, late: BOOLEAN, timer: BOOLEAN, back: BOOLEAN]
  /\ answered \subseteq posted
  /\ \A v \in Request : visit[v].step = "update" => visit[v].row = "paid"

\* Like Pay posts at most one final status, the one the payment has.
PostedIsPaid ==
  /\ likePay = "none" => posted = {}
  /\ likePay # "none" => likePay \in {"pending", "success", "failed"} /\ likePay \in posted
                         /\ posted \subseteq {"pending", likePay}
  /\ \A v \in Request : visit[v].step # "idle" => visit[v].status \in posted

\* The row is there from the start, so that no second one is ever made.
OneRowKeyed ==
  /\ record["made"] = Like!NoRow
  /\ record["paid"].key \in {"token", "hash"}
  /\ \A v \in Request : visit[v].step = "create" => record["paid"].key = "hash"

\* Whoever is about to answer for a success has recorded it.
SuccessRecorded ==
  /\ ~lapses.late =>
       (\/ "success" \in answered
        \/ \E v \in Request : visit[v].step \in {"notify", "answer"} /\ visit[v].status = "success"
        => record["paid"].state = "succeeded")
  /\ \A v \in Request : visit[v].step = "answer" /\ visit[v].status = "success" => told
  /\ "success" \in answered => told

LikeInv == LikeTypes /\ PostedIsPaid /\ OneRowKeyed /\ SuccessRecorded

\* A donation begins with its row.
LEMMA LikeInit == Like!Init => LikeInv
  BY DEF Like!Init, Like!Row, Like!NoRow, Like!Idle, LikeInv, LikeTypes, LikeVisit, LikeRow,
         PostedIsPaid, OneRowKeyed, SuccessRecorded

\* A visit goes on, or ends: what it holds fits what is recorded.
LEMMA LikeProceeds ==
  ASSUME LikeInv, NEW v \in Request, NEW next \in LikeVisit,
         visit' = [visit EXCEPT ![v] = next],
         UNCHANGED <<likePay, posted, record>>,
         lapses' \in [faults: Nat, late: BOOLEAN, timer: BOOLEAN, back: BOOLEAN],
         lapses'.late = lapses.late,
         answered' \subseteq posted, told => told',
         next.step = "update" => next.row = "paid",
         next.step # "idle" => next.status \in posted,
         next.step = "create" => record["paid"].key = "hash",
         next.step \in {"notify", "answer"} /\ next.status = "success" =>
           visit[v].step = "notify" /\ visit[v].status = "success",
         next.step = "answer" /\ next.status = "success" => told',
         "success" \in answered' => "success" \in answered
                 \/ (visit[v].step = "answer" /\ visit[v].status = "success")
  PROVE  LikeInv'
<1>1. visit' \in [Request -> LikeVisit] /\ visit'[v] = next
      /\ \A x \in Request : x # v => visit'[x] = visit[x]
  BY DEF LikeInv, LikeTypes
<1>2. LikeTypes'
  BY <1>1 DEF LikeInv, LikeTypes
<1>3. PostedIsPaid'
  BY <1>1 DEF LikeInv, PostedIsPaid
<1>4. OneRowKeyed'
  BY <1>1 DEF LikeInv, OneRowKeyed
<1>5. SuccessRecorded'
  BY <1>1 DEF LikeInv, SuccessRecorded
<1> QED
  BY <1>2, <1>3, <1>4, <1>5 DEF LikeInv

\* Who has left holds nothing.
LEMMA LikeIdle == Like!Idle \in LikeVisit /\ Like!Idle.step = "idle"
  BY DEF Like!Idle, LikeVisit

\* The donor pays, or does not.
LEMMA LikePays ==
  ASSUME LikeInv, NEW status \in {"pending", "success", "failed"}, Like!Pay(status)
  PROVE  LikeInv'
<1>1. /\ likePay = "none" \/ likePay = "pending"
      /\ likePay' = status /\ posted' = posted \cup {status}
      /\ UNCHANGED <<wholeSum, record, answered, visit, told, lapses>>
  BY DEF Like!Pay
<1>2. LikeTypes' /\ OneRowKeyed' /\ SuccessRecorded'
  BY <1>1 DEF LikeInv, LikeTypes, OneRowKeyed, SuccessRecorded
<1>3. PostedIsPaid'
  BY <1>1 DEF LikeInv, PostedIsPaid
<1> QED
  BY <1>2, <1>3 DEF LikeInv

\* The donor comes back, or Like Pay calls the webhook.
LEMMA LikeArrives ==
  ASSUME LikeInv, NEW v \in Request, NEW who \in {"donor", "webhook"},
         NEW status \in {"pending", "success", "failed"}, Like!Arrive(v, who, status)
  PROVE  LikeInv'
<1> DEFINE next == [who |-> who, status |-> status, row |-> "none",
                    step |-> IF who = "webhook" THEN "hash" ELSE "token"]
<1>0. PICK k \in {0, 1}, b \in BOOLEAN :
        lapses' = [lapses EXCEPT !.faults = @ + k, !.back = b]
  <2> DEFINE again == status \in answered /\ who = "webhook"
             k == IF again \/ (who = "donor" /\ lapses.back) THEN 1 ELSE 0
             b == lapses.back \/ who = "donor"
  <2>1. lapses' = [lapses EXCEPT !.faults = @ + k, !.back = b]
    BY DEF Like!Arrive
  <2>2. k \in {0, 1} /\ b \in BOOLEAN
    OBVIOUS
  <2> HIDE DEF k, b
  <2> QED
    BY <2>1, <2>2
<1>1. /\ IF who = "webhook" THEN status \in posted ELSE likePay = status
      /\ visit' = [visit EXCEPT ![v] = next]
      /\ lapses' \in [faults: Nat, late: BOOLEAN, timer: BOOLEAN, back: BOOLEAN]
      /\ lapses'.late = lapses.late
      /\ UNCHANGED <<likePay, wholeSum, record, posted, answered, told>>
  <2>1. /\ IF who = "webhook" THEN status \in posted ELSE likePay = status
        /\ visit' = [visit EXCEPT ![v] = next]
        /\ UNCHANGED <<likePay, wholeSum, record, posted, answered, told>>
    BY DEF Like!Arrive
  <2>2. /\ lapses' \in [faults: Nat, late: BOOLEAN, timer: BOOLEAN, back: BOOLEAN]
        /\ lapses'.late = lapses.late
    <3>1. lapses \in [faults: Nat, late: BOOLEAN, timer: BOOLEAN, back: BOOLEAN]
          /\ lapses.faults + k \in Nat
      BY DEF LikeInv, LikeTypes
    <3>2. PICK n \in Nat : lapses' = [lapses EXCEPT !.faults = n, !.back = b]
      BY <1>0, <3>1
    <3> QED
      BY <3>1, <3>2
  <2> QED
    BY <2>1, <2>2
<1>2. next \in LikeVisit /\ next.step \in {"hash", "token"} /\ next.status = status
  BY DEF LikeVisit
<1> HIDE DEF next
<1>3. status \in posted
  BY <1>1 DEF LikeInv, PostedIsPaid
<1>4. answered' \subseteq posted
  BY <1>1 DEF LikeInv, LikeTypes
<1> QED
  BY <1>1, <1>2, <1>3, <1>4, LikeProceeds

\* The row that carries the hash is found.
LEMMA LikeFindsByHash ==
  ASSUME LikeInv, NEW v \in Request, Like!FindByHash(v)
  PROVE  LikeInv'
<1>1. /\ visit[v].step = "hash"
      /\ UNCHANGED <<likePay, wholeSum, record, posted, answered, told, lapses>>
      /\ \/ visit' = [visit EXCEPT ![v] = [@ EXCEPT !.step = "token"]]
         \/ \E r \in Like!KeyedBy("hash") :
              visit' = [visit EXCEPT ![v] = [@ EXCEPT !.step = "update", !.row = r]]
  <2>1. CASE Like!KeyedBy("hash") = {}
    BY <2>1 DEF Like!FindByHash
  <2>2. CASE Like!KeyedBy("hash") # {}
    <3> DEFINE r == CHOOSE r \in Like!KeyedBy("hash") : TRUE
    <3>1. r \in Like!KeyedBy("hash")
      BY <2>2
    <3>2. visit' = [visit EXCEPT ![v] = [@ EXCEPT !.step = "update", !.row = r]]
      BY <2>2 DEF Like!FindByHash
    <3> HIDE DEF r
    <3> QED
      BY <3>1, <3>2 DEF Like!FindByHash
  <2> QED
    BY <2>1, <2>2
<1>2. \A r \in Like!KeyedBy("hash") : r = "paid"
  BY DEF LikeInv, OneRowKeyed, Like!KeyedBy, Like!NoRow, Like!Row
<1>3. PICK next : /\ visit' = [visit EXCEPT ![v] = next]
                  /\ \/ next = [visit[v] EXCEPT !.step = "token"]
                     \/ next = [visit[v] EXCEPT !.step = "update", !.row = "paid"]
  BY <1>1, <1>2
<1>4. visit[v] \in LikeVisit /\ visit[v].status \in posted
  BY <1>1 DEF LikeInv, LikeTypes, PostedIsPaid
<1>5. next \in LikeVisit /\ next.status = visit[v].status /\ next.step \in {"token", "update"}
      /\ (next.step = "update" => next.row = "paid")
  BY <1>3, <1>4 DEF LikeVisit
<1> QED
  BY <1>1, <1>3, <1>4, <1>5, LikeProceeds DEF LikeInv, LikeTypes

\* The row that carries the token is found, or there is none.
LEMMA LikeFindsByToken ==
  ASSUME LikeInv, NEW v \in Request, Like!FindByToken(v)
  PROVE  LikeInv'
<1>1. /\ visit[v].step = "token"
      /\ UNCHANGED <<likePay, wholeSum, record, posted, answered, told, lapses>>
  BY DEF Like!FindByToken
<1>2. PICK next : /\ visit' = [visit EXCEPT ![v] = next]
                  /\ \/ next = [visit[v] EXCEPT !.step = "update", !.row = "paid"]
                     \/ next = Like!Idle
                     \/ next = [visit[v] EXCEPT !.step = "create"] /\ Like!KeyedBy("token") = {}
  BY DEF Like!FindByToken
<1>3. visit[v] \in LikeVisit /\ visit[v].status \in posted
  BY <1>1 DEF LikeInv, LikeTypes, PostedIsPaid
<1>4. next \in LikeVisit /\ next.step \in {"idle", "create", "update"}
      /\ (next.step # "idle" => next.status = visit[v].status)
      /\ (next.step = "update" => next.row = "paid")
  BY <1>2, <1>3, LikeIdle DEF LikeVisit
<1>5. next.step = "create" => Like!KeyedBy("token") = {}
  BY <1>2, <1>3, LikeIdle DEF LikeVisit
<1>6. Like!KeyedBy("token") = {} => record["paid"].key = "hash"
  BY DEF LikeInv, OneRowKeyed, Like!KeyedBy, Like!Row
<1> QED
  BY <1>1, <1>2, <1>3, <1>4, <1>5, <1>6, LikeProceeds DEF LikeInv, LikeTypes

\* The row takes the status, and the hash as its key.
LEMMA LikeUpdates ==
  ASSUME LikeInv, NEW v \in Request, Like!UpdateRow(v)
  PROVE  LikeInv'
<1> DEFINE next == Like!Rest(v)
           state == Like!NewState(visit[v].status)
           late == lapses.late \/
               (visit[v].status = "pending" /\ record[visit[v].row].state \in {"succeeded", "failed"})
<1>1. visit[v].step = "update" /\ UNCHANGED <<likePay, wholeSum, posted, answered, told>>
  BY DEF Like!UpdateRow
<1>2. visit[v] \in LikeVisit /\ visit[v].row = "paid" /\ visit[v].status \in posted
  BY <1>1 DEF LikeInv, LikeTypes, PostedIsPaid
<1>3. CASE visit' = [visit EXCEPT ![v] = Like!Idle] /\ UNCHANGED <<record, lapses>>
  BY <1>1, <1>3, LikeIdle, LikeProceeds DEF LikeInv, LikeTypes
<1>4. CASE /\ record' = [record EXCEPT !["paid"] = [key |-> "hash", state |-> state]]
           /\ visit' = [visit EXCEPT ![v] = next]
           /\ lapses' = [lapses EXCEPT !.late = late]
  <2>1. state \in {"pending", "succeeded", "failed"} /\ (visit[v].status = "success" <=> state = "succeeded")
        /\ (visit[v].status = "pending" <=> state = "pending")
    BY <1>1, <1>2 DEF Like!NewState, LikeInv, PostedIsPaid
  <2>2. next \in LikeVisit /\ next.step \in {"idle", "notify", "answer"}
        /\ (next.step = "answer" => next.status # "success")
        /\ (next.step # "idle" => next.status = visit[v].status)
    BY <1>2, LikeIdle DEF Like!Rest, LikeVisit
  <2> HIDE DEF state, next
  <2>3. "paid" \in Like!Row
    BY DEF Like!Row
  <2>4. record' \in [Like!Row -> LikeRow] /\ record'["paid"] = [key |-> "hash", state |-> state]
        /\ record'["made"] = record["made"]
    BY <1>4, <2>1, <2>3 DEF LikeInv, LikeTypes, LikeRow
  <2>5. visit' \in [Request -> LikeVisit] /\ visit'[v] = next
        /\ \A x \in Request : x # v => visit'[x] = visit[x]
    BY <1>4, <2>2 DEF LikeInv, LikeTypes
  <2>6. late \in BOOLEAN
    BY DEF LikeInv, LikeTypes
  <2>a. late = (lapses.late \/
               (visit[v].status = "pending" /\ record[visit[v].row].state \in {"succeeded", "failed"}))
    OBVIOUS
  <2> HIDE DEF late
  <2>7. lapses' \in [faults: Nat, late: BOOLEAN, timer: BOOLEAN, back: BOOLEAN]
        /\ lapses'.late = late
    BY <1>4, <2>6 DEF LikeInv, LikeTypes
  <2>8. LikeTypes'
    BY <1>1, <2>2, <2>4, <2>5, <2>7 DEF LikeInv, LikeTypes
  <2>9. PostedIsPaid'
    BY <1>1, <1>2, <2>2, <2>5 DEF LikeInv, PostedIsPaid
  <2>10. OneRowKeyed'
    BY <2>2, <2>4, <2>5 DEF LikeInv, OneRowKeyed
  <2>11. SuccessRecorded'
    <3>1. ASSUME ~lapses'.late, "success" \in answered \/ \E x \in Request :
                   visit'[x].step \in {"notify", "answer"} /\ visit'[x].status = "success"
          PROVE  record'["paid"].state = "succeeded"
      <4>1. "success" \in posted
        BY <3>1, <2>5, <2>2, <1>2 DEF LikeInv, LikeTypes, PostedIsPaid
      <4>2. visit[v].status \in {"pending", "success"}
        BY <1>2, <4>1 DEF LikeInv, PostedIsPaid
      <4>3. CASE visit[v].status = "success"
        BY <2>1, <2>4, <4>3
      <4>4. CASE visit[v].status = "pending"
        <5>1. "success" \in answered \/ \E x \in Request :
                   visit[x].step \in {"notify", "answer"} /\ visit[x].status = "success"
          BY <3>1, <2>2, <2>5, <4>4
        <5>2. record["paid"].state = "succeeded"
          BY <3>1, <5>1, <2>7, <2>a DEF LikeInv, SuccessRecorded
        <5> QED
          BY <3>1, <5>2, <4>4, <1>2, <2>7, <2>a
      <4> QED
        BY <4>2, <4>3, <4>4
    <3> QED
      BY <1>1, <2>2, <2>5, <3>1 DEF LikeInv, SuccessRecorded
  <2> QED
    BY <2>8, <2>9, <2>10, <2>11 DEF LikeInv
<1> QED
  BY <1>2, <1>3, <1>4 DEF Like!UpdateRow

\* A row is made for a payment that has none: this never happens.
LEMMA LikeCreates ==
  ASSUME LikeInv, NEW v \in Request, Like!CreateRow(v)
  PROVE  LikeInv'
<1>1. record["paid"].key = "hash"
  BY DEF Like!CreateRow, LikeInv, OneRowKeyed
<1>2. ~Like!MayCreate
  BY <1>1 DEF Like!MayCreate, Like!KeyedBy, Like!Row
<1>3. visit' = [visit EXCEPT ![v] = Like!Idle]
      /\ UNCHANGED <<likePay, wholeSum, record, posted, answered, told, lapses>>
  BY <1>2 DEF Like!CreateRow
<1> QED
  BY <1>3, LikeIdle, LikeProceeds DEF LikeInv, LikeTypes

\* The author is told of a success.
LEMMA LikeNotifies ==
  ASSUME LikeInv, NEW v \in Request, Like!NotifyDonation(v)
  PROVE  LikeInv'
<1> DEFINE next == [visit[v] EXCEPT !.step = "answer"]
<1>1. /\ visit[v].step = "notify" /\ told' = TRUE /\ visit' = [visit EXCEPT ![v] = next]
      /\ UNCHANGED <<likePay, wholeSum, record, posted, answered, lapses>>
  BY DEF Like!NotifyDonation
<1>2. visit[v] \in LikeVisit /\ visit[v].status \in posted
  BY <1>1 DEF LikeInv, LikeTypes, PostedIsPaid
<1>3. next \in LikeVisit /\ next.step = "answer" /\ next.status = visit[v].status
  BY <1>2 DEF LikeVisit
<1> HIDE DEF next
<1> QED
  BY <1>1, <1>2, <1>3, LikeProceeds DEF LikeInv, LikeTypes

\* The request is answered.
LEMMA LikeAnswers ==
  ASSUME LikeInv, NEW v \in Request, Like!Answer(v)
  PROVE  LikeInv'
<1>1. /\ visit[v].step = "answer" /\ visit' = [visit EXCEPT ![v] = Like!Idle]
      /\ answered' = answered \cup {visit[v].status}
      /\ UNCHANGED <<likePay, wholeSum, record, posted, told, lapses>>
  BY DEF Like!Answer
<1>2. answered' \subseteq posted /\ visit' \in [Request -> LikeVisit]
      /\ visit'[v].step = "idle" /\ \A x \in Request : x # v => visit'[x] = visit[x]
  BY <1>1, LikeIdle DEF LikeInv, LikeTypes, PostedIsPaid
<1>3. LikeTypes' /\ PostedIsPaid' /\ OneRowKeyed'
  BY <1>1, <1>2 DEF LikeInv, LikeTypes, PostedIsPaid, OneRowKeyed
<1>4. SuccessRecorded'
  BY <1>1, <1>2 DEF LikeInv, SuccessRecorded
<1> QED
  BY <1>3, <1>4 DEF LikeInv

\* Every action keeps the invariant.
LEMMA LikeNext == LikeInv /\ Like!Next => LikeInv'
<1> SUFFICES ASSUME LikeInv, Like!Next PROVE LikeInv'
  OBVIOUS
<1>1. ASSUME NEW v \in Request, Like!Break(v) PROVE LikeInv'
  <2>1. /\ visit' = [visit EXCEPT ![v] = Like!Idle]
        /\ lapses' = [lapses EXCEPT !.faults = @ + 1]
        /\ UNCHANGED <<likePay, wholeSum, record, posted, answered, told>>
    BY <1>1 DEF Like!Break
  <2>2. lapses' \in [faults: Nat, late: BOOLEAN, timer: BOOLEAN, back: BOOLEAN]
        /\ lapses'.late = lapses.late
    BY <2>1 DEF LikeInv, LikeTypes
  <2> QED
    BY <2>1, <2>2, LikeIdle, LikeProceeds DEF LikeInv, LikeTypes
<1>2. ASSUME NEW r \in Like!Row, Like!CancelTimeout(r) PROVE LikeInv'
  <2>1. /\ record[r].state = "pending" /\ record' = [record EXCEPT ![r].state = "canceled"]
        /\ lapses' = [lapses EXCEPT !.timer = TRUE]
        /\ UNCHANGED <<likePay, wholeSum, posted, answered, visit, told>>
    BY <1>2 DEF Like!CancelTimeout
  <2>2. r = "paid"
    BY <2>1 DEF LikeInv, OneRowKeyed, Like!NoRow, Like!Row
  <2>3. lapses' \in [faults: Nat, late: BOOLEAN, timer: BOOLEAN, back: BOOLEAN]
        /\ lapses'.late = lapses.late
    BY <2>1 DEF LikeInv, LikeTypes
  <2>4. record' \in [Like!Row -> LikeRow] /\ record'["made"] = record["made"]
        /\ record'["paid"].key = record["paid"].key
    BY <2>1, <2>2 DEF LikeInv, LikeTypes, LikeRow, Like!Row
  <2>5. LikeTypes' /\ PostedIsPaid' /\ OneRowKeyed'
    BY <2>1, <2>3, <2>4 DEF LikeInv, LikeTypes, PostedIsPaid, OneRowKeyed
  <2>6. SuccessRecorded'
    BY <2>1, <2>2, <2>3 DEF LikeInv, SuccessRecorded
  <2> QED
    BY <2>5, <2>6 DEF LikeInv
<1> QED
  BY <1>1, <1>2, LikePays, LikeArrives, LikeFindsByHash, LikeFindsByToken, LikeUpdates, LikeCreates,
     LikeNotifies, LikeAnswers
     DEF Like!Next, Like!Final

\* What the invariant says of the donation.
LEMMA LikeSafe == LikeInv => Like!TypeOK /\ Like!LikeRecordedOnce /\ Like!PaidIsSettled
<1> SUFFICES ASSUME LikeInv PROVE Like!TypeOK /\ Like!LikeRecordedOnce /\ Like!PaidIsSettled
  OBVIOUS
<1>1. Like!TypeOK
  BY DEF LikeInv, LikeTypes, LikeRow, Like!TypeOK
<1>2. Like!KeyedBy("hash") = {} \/ Like!KeyedBy("hash") = {"paid"}
  BY DEF LikeInv, OneRowKeyed, Like!KeyedBy, Like!NoRow, Like!Row
<1>3. Cardinality({}) = 0 /\ Cardinality({"paid"}) = 1
  BY FS_EmptySet, FS_Singleton
<1>4. Cardinality(Like!KeyedBy("hash")) <= 1
  BY <1>2, <1>3
<1>5. Like!LikeRecordedOnce
  BY <1>4, LikeCounts DEF Like!LikeRecordedOnce, LikeInv, OneRowKeyed
<1> QED
  BY <1>1, <1>5 DEF Like!PaidIsSettled, LikeInv, SuccessRecorded

-----------------------------------------------------------------------------
(* PinnedWorks: articles and collections pinned within one limit.            *)

WorkRow == [made: BOOLEAN, active: BOOLEAN, pinned: BOOLEAN]
WorkRequest ==
  [step: {"idle", "articles", "collections", "update"}, work: Work!Work \cup {"none"},
   pin: BOOLEAN, seen: BOOLEAN, count: Nat]

WorkTypes ==
  /\ works \in [Work!Work -> WorkRow]
  /\ writer \in [Request -> WorkRequest]
  /\ \A r \in Request :
       /\ IF writer[r].step = "idle" THEN writer[r] = Work!Idle ELSE writer[r].work \in Work!Work
       /\ writer[r].count <= Cardinality(Work!Work)
       /\ writer[r].step = "articles" => writer[r].count = 0
       /\ writer[r].step = "collections" => writer[r].count <= Cardinality(Paper)

\* Without an exception one request is at work, only works that count are pinned,
\* and a request that may write has counted every one that is.
CountsHold ==
  workSlips = {} =>
    /\ \A r, q \in Request : writer[r] # Work!Idle /\ writer[q] # Work!Idle => r = q
    /\ \A w \in Work!Work : works[w].pinned => works[w].made /\ works[w].active
    /\ Cardinality(Work!Pinned(Work!Work)) <= PinLimit
    /\ \A r \in Request :
         /\ writer[r] # Work!Idle => works[writer[r].work].active
         /\ writer[r].step = "collections" =>
              Cardinality(Work!Pinned(Paper)) <= writer[r].count
         /\ writer[r].step = "update" =>
              Cardinality(Work!Pinned(Work!Work)) <= writer[r].count

WorkInv == WorkTypes /\ CountsHold

\* Who has left holds nothing.
LEMMA WorkIdle == Work!Idle \in WorkRequest /\ Work!Idle.step = "idle" /\ Work!Idle.count = 0
BY DEF Work!Idle, WorkRequest

\* Works are finite, and so are those pinned; the two kinds count apart.
LEMMA WorkCounts ==
  /\ IsFiniteSet(Work!Work) /\ Cardinality(Work!Work) \in Nat
  /\ Cardinality(Work!Work) = Cardinality(Paper) + Cardinality(Shelf)
  /\ \A S : S \subseteq Work!Work => IsFiniteSet(S) /\ Cardinality(S) \in Nat
  /\ Cardinality(Paper) \in Nat /\ Cardinality(Shelf) \in Nat
<1>1. IsFiniteSet(Paper) /\ IsFiniteSet(Shelf) /\ Paper \cap Shelf = {}
  BY CommunityAssumption
<1>2. /\ IsFiniteSet(Work!Work)
      /\ Cardinality(Work!Work) = Cardinality(Paper) + Cardinality(Shelf) - Cardinality(Paper \cap Shelf)
  BY <1>1, FS_Union DEF Work!Work
<1>3. Cardinality(Paper \cap Shelf) = 0
  BY <1>1, FS_EmptySet
<1>4. Cardinality(Paper) \in Nat /\ Cardinality(Shelf) \in Nat
  BY <1>1, FS_CardinalityType
<1>5. \A S : S \subseteq Work!Work => IsFiniteSet(S) /\ Cardinality(S) \in Nat
  BY <1>2, FS_Subset, FS_CardinalityType
<1> QED
  BY <1>2, <1>3, <1>4, <1>5

\* The works pinned are the articles and the collections pinned.
LEMMA WorkPinned ==
  /\ Work!Pinned(Paper) \subseteq Paper /\ Work!Pinned(Shelf) \subseteq Shelf
  /\ Work!Pinned(Work!Work) \subseteq Work!Work
  /\ Cardinality(Work!Pinned(Work!Work))
       = Cardinality(Work!Pinned(Paper)) + Cardinality(Work!Pinned(Shelf))
  /\ Cardinality(Work!Pinned(Paper)) \in 0..Cardinality(Paper)
  /\ Cardinality(Work!Pinned(Shelf)) \in 0..Cardinality(Shelf)
<1>1. /\ Work!Pinned(Paper) \subseteq Paper /\ Work!Pinned(Shelf) \subseteq Shelf
      /\ Work!Pinned(Work!Work) \subseteq Work!Work
      /\ Work!Pinned(Work!Work) = Work!Pinned(Paper) \cup Work!Pinned(Shelf)
  BY DEF Work!Pinned, Work!Work
<1>2. IsFiniteSet(Paper) /\ IsFiniteSet(Shelf) /\ Paper \cap Shelf = {}
  BY CommunityAssumption
<1>3. /\ IsFiniteSet(Work!Pinned(Paper)) /\ Cardinality(Work!Pinned(Paper)) <= Cardinality(Paper)
      /\ IsFiniteSet(Work!Pinned(Shelf)) /\ Cardinality(Work!Pinned(Shelf)) <= Cardinality(Shelf)
  BY <1>1, <1>2, FS_Subset
<1>4. Work!Pinned(Paper) \cap Work!Pinned(Shelf) = {}
  BY <1>1, <1>2
<1>5. Cardinality(Work!Pinned(Paper) \cap Work!Pinned(Shelf)) = 0
  BY <1>4, FS_EmptySet
<1>6. Cardinality(Work!Pinned(Paper) \cup Work!Pinned(Shelf))
        = Cardinality(Work!Pinned(Paper)) + Cardinality(Work!Pinned(Shelf))
            - Cardinality(Work!Pinned(Paper) \cap Work!Pinned(Shelf))
  BY <1>3, FS_Union
<1>7. /\ Cardinality(Paper) \in Nat /\ Cardinality(Shelf) \in Nat
      /\ Cardinality(Work!Pinned(Paper)) \in Nat /\ Cardinality(Work!Pinned(Shelf)) \in Nat
  BY <1>2, <1>3, FS_CardinalityType
<1> QED
  BY <1>1, <1>3, <1>5, <1>6, <1>7

\* Nothing is pinned at first.
LEMMA WorkInit == Work!Init => WorkInv
<1> SUFFICES ASSUME Work!Init PROVE WorkInv
  OBVIOUS
<1>1. Cardinality(Work!Work) \in Nat
  BY WorkCounts
<1>2. WorkTypes
  BY <1>1, WorkIdle DEF Work!Init, WorkTypes, WorkRow
<1>3. Work!Pinned(Work!Work) = {}
  BY DEF Work!Init, Work!Pinned, Work!Counted
<1>4. Cardinality(Work!Pinned(Work!Work)) = 0
  BY <1>3, FS_EmptySet
<1>5. CountsHold
  BY <1>4, WorkIdle, CommunityAssumption DEF Work!Init, CountsHold
<1> QED
  BY <1>2, <1>5 DEF WorkInv

\* A request reads and counts, and no work changes.
LEMMA WorkProceeds ==
  ASSUME WorkInv, NEW r \in Request, NEW next \in WorkRequest,
         writer' = [writer EXCEPT ![r] = next], works' = works,
         workSlips \subseteq workSlips',
         IF next.step = "idle" THEN next = Work!Idle ELSE next.work \in Work!Work,
         next.count <= Cardinality(Work!Work),
         next.step = "articles" => next.count = 0,
         next.step = "collections" => next.count <= Cardinality(Paper),
         workSlips' = {} =>
           /\ next # Work!Idle =>
                /\ works[next.work].active
                /\ \A q \in Request : q # r => writer[q] = Work!Idle
           /\ next.step = "collections" => Cardinality(Work!Pinned(Paper)) <= next.count
           /\ next.step = "update" => Cardinality(Work!Pinned(Work!Work)) <= next.count
  PROVE  WorkInv'
<1>1. /\ writer'[r] = next /\ \A q \in Request : q # r => writer'[q] = writer[q]
      /\ writer' \in [Request -> WorkRequest]
  BY DEF WorkInv, WorkTypes
<1>2. WorkTypes'
  BY <1>1 DEF WorkInv, WorkTypes
<1>3. /\ Work!Pinned(Paper)' = Work!Pinned(Paper)
      /\ Work!Pinned(Work!Work)' = Work!Pinned(Work!Work)
  BY DEF Work!Pinned, Work!Counted
<1>4. ASSUME workSlips' = {} PROVE workSlips = {}
  BY <1>4
<1>5. CountsHold'
  <2> SUFFICES ASSUME workSlips' = {} PROVE CountsHold'
    BY DEF CountsHold
  <2>1. workSlips = {} /\ CountsHold
    BY <1>4 DEF WorkInv
  <2>2. \A s, q \in Request : writer'[s] # Work!Idle /\ writer'[q] # Work!Idle => s = q
    BY <1>1, <2>1 DEF CountsHold
  <2>3. \A w \in Work!Work : works'[w].pinned => works'[w].made /\ works'[w].active
    BY <2>1 DEF CountsHold
  <2>4. Cardinality(Work!Pinned(Work!Work)') <= PinLimit
    BY <1>3, <2>1 DEF CountsHold
  <2>5. \A q \in Request :
          /\ writer'[q] # Work!Idle => works'[writer'[q].work].active
          /\ writer'[q].step = "collections" => Cardinality(Work!Pinned(Paper)') <= writer'[q].count
          /\ writer'[q].step = "update" => Cardinality(Work!Pinned(Work!Work)') <= writer'[q].count
    BY <1>1, <1>3, <2>1 DEF CountsHold
  <2> QED
    BY <2>2, <2>3, <2>4, <2>5 DEF CountsHold
<1> QED
  BY <1>2, <1>5 DEF WorkInv

\* The work is loaded, and its pin read.
LEMMA WorkAsks ==
  ASSUME WorkInv, NEW r \in Request, NEW w \in Work!Work, NEW pin \in BOOLEAN, Work!AskPin(r, w, pin)
  PROVE  WorkInv'
<1> DEFINE next == [step |-> "articles", work |-> w, pin |-> pin, seen |-> works[w].pinned,
                    count |-> 0]
<1>1. next \in WorkRequest
  BY DEF WorkInv, WorkTypes, WorkRow, WorkRequest
<1>2. next.work = w /\ next.step = "articles" /\ next.count = 0
  OBVIOUS
<1>3. /\ writer' = [writer EXCEPT ![r] = next] /\ works' = works /\ works[w].active
      /\ workSlips' = IF \E q \in Request \ {r} : writer[q] # Work!Idle
                      THEN workSlips \cup {"overlap"} ELSE workSlips
  BY DEF Work!AskPin
<1> HIDE DEF next
<1>4. 0 <= Cardinality(Work!Work)
  BY WorkCounts
<1> QED
  BY <1>1, <1>2, <1>3, <1>4, WorkProceeds

\* What is counted in the first table.
LEMMA WorkCountsArticles ==
  ASSUME WorkInv, NEW r \in Request, Work!CountArticles(r)
  PROVE  WorkInv'
<1> DEFINE next == [writer[r] EXCEPT !.step = "collections",
                                     !.count = Cardinality(Work!Pinned(Paper))]
<1>1. writer[r] \in WorkRequest /\ writer[r].step = "articles" /\ writer[r].work \in Work!Work
  BY DEF WorkInv, WorkTypes, Work!CountArticles
<1>2. Cardinality(Work!Pinned(Paper)) \in Nat /\ Cardinality(Work!Pinned(Paper)) <= Cardinality(Paper)
      /\ Cardinality(Paper) <= Cardinality(Work!Work)
  BY WorkPinned, WorkCounts
<1>3. /\ next \in WorkRequest /\ next.step = "collections" /\ next.work = writer[r].work
      /\ next.count = Cardinality(Work!Pinned(Paper))
  BY <1>1, <1>2 DEF WorkRequest
<1>4. /\ writer' = [writer EXCEPT ![r] = next] /\ works' = works /\ workSlips' = workSlips
  BY PinnedWorkCounts DEF Work!CountArticles
<1> HIDE DEF next
<1>5. next.count <= Cardinality(Work!Work) /\ next.count <= next.count
  BY <1>2, <1>3, WorkCounts
<1>6. ASSUME workSlips = {}
      PROVE  works[writer[r].work].active /\ \A q \in Request : q # r => writer[q] = Work!Idle
  BY <1>1, <1>6, WorkIdle DEF WorkInv, CountsHold
<1> QED
  BY <1>1, <1>2, <1>3, <1>4, <1>5, <1>6, WorkProceeds

\* What is counted in the second table comes on top.
LEMMA WorkCountsCollections ==
  ASSUME WorkInv, NEW r \in Request, Work!CountCollections(r)
  PROVE  WorkInv'
<1> DEFINE sum == writer[r].count + Cardinality(Work!Pinned(Shelf))
<1> DEFINE next == [writer[r] EXCEPT !.step = "update", !.count = sum]
<1>1. /\ writer[r] \in WorkRequest /\ writer[r].step = "collections" /\ writer[r].work \in Work!Work
      /\ writer[r].count \in Nat /\ writer[r].count <= Cardinality(Paper)
  BY DEF WorkInv, WorkTypes, Work!CountCollections, WorkRequest
<1>2. sum \in Nat /\ sum <= Cardinality(Work!Work)
  BY <1>1, WorkPinned, WorkCounts
<1>3. /\ writer' = [writer EXCEPT ![r] = next] /\ works' = works /\ workSlips' = workSlips
  BY PinnedWorkCounts DEF Work!CountCollections
<1>4. ASSUME workSlips = {}
      PROVE  /\ works[writer[r].work].active /\ \A q \in Request : q # r => writer[q] = Work!Idle
             /\ Cardinality(Work!Pinned(Work!Work)) <= sum
  <2>1. Cardinality(Work!Pinned(Paper)) <= writer[r].count
    BY <1>1, <1>4 DEF WorkInv, CountsHold
  <2>2. Cardinality(Work!Pinned(Work!Work)) <= sum
    BY <1>1, <2>1, WorkPinned, WorkCounts
  <2> QED
    BY <1>1, <1>4, <2>2, WorkIdle DEF WorkInv, CountsHold
<1> HIDE DEF sum
<1>5. next \in WorkRequest /\ next.step = "update" /\ next.work = writer[r].work /\ next.count = sum
  BY <1>1, <1>2 DEF WorkRequest
<1> HIDE DEF next
<1> QED
  BY <1>1, <1>2, <1>3, <1>4, <1>5, WorkProceeds

\* No work counts that did not, so that what was counted is enough.
LEMMA WorkShrinks ==
  ASSUME WorkInv, writer' = writer, works' \in [Work!Work -> WorkRow],
         workSlips \subseteq workSlips',
         workSlips' = {} =>
           /\ \A w \in Work!Work : works'[w].pinned =>
                works[w].pinned /\ works'[w].made /\ works'[w].active
           /\ \A r \in Request : writer[r] # Work!Idle =>
                works'[writer[r].work].active = works[writer[r].work].active
  PROVE  WorkInv'
<1>1. WorkTypes'
  BY DEF WorkInv, WorkTypes
<1>2. CountsHold'
  <2> SUFFICES ASSUME workSlips' = {} PROVE CountsHold'
    BY DEF CountsHold
  <2>1. workSlips = {} /\ CountsHold
    BY DEF WorkInv
  <2>2. /\ Work!Pinned(Paper)' \subseteq Work!Pinned(Paper)
        /\ Work!Pinned(Work!Work)' \subseteq Work!Pinned(Work!Work)
    BY <2>1 DEF Work!Pinned, Work!Counted, CountsHold, Work!Work
  <2>3. IsFiniteSet(Work!Pinned(Paper)) /\ IsFiniteSet(Work!Pinned(Work!Work))
    <3>1. Work!Pinned(Paper) \subseteq Work!Work /\ Work!Pinned(Work!Work) \subseteq Work!Work
      BY WorkPinned DEF Work!Work
    <3> QED
      BY <3>1, WorkCounts
  <2>4. /\ Cardinality(Work!Pinned(Paper)') <= Cardinality(Work!Pinned(Paper))
        /\ Cardinality(Work!Pinned(Work!Work)') <= Cardinality(Work!Pinned(Work!Work))
        /\ IsFiniteSet(Work!Pinned(Paper)') /\ IsFiniteSet(Work!Pinned(Work!Work)')
    BY <2>2, <2>3, FS_Subset
  <2>5. /\ Cardinality(Work!Pinned(Paper)') \in Nat /\ Cardinality(Work!Pinned(Work!Work)') \in Nat
        /\ Cardinality(Work!Pinned(Paper)) \in Nat /\ Cardinality(Work!Pinned(Work!Work)) \in Nat
    BY <2>3, <2>4, FS_CardinalityType
  <2>6. Cardinality(Work!Pinned(Work!Work)') <= PinLimit
    BY <2>1, <2>4, <2>5, CommunityAssumption DEF CountsHold
  <2>7. \A r \in Request :
          /\ writer[r].count \in Nat
          /\ writer[r].step = "collections" => Cardinality(Work!Pinned(Paper)) <= writer[r].count
          /\ writer[r].step = "update" => Cardinality(Work!Pinned(Work!Work)) <= writer[r].count
    BY <2>1 DEF CountsHold, WorkInv, WorkTypes, WorkRequest
  <2>8. \A r \in Request :
          /\ writer[r].step = "collections" => Cardinality(Work!Pinned(Paper)') <= writer[r].count
          /\ writer[r].step = "update" => Cardinality(Work!Pinned(Work!Work)') <= writer[r].count
    BY <2>4, <2>5, <2>7
  <2> QED
    BY <2>1, <2>6, <2>8 DEF CountsHold
<1> QED
  BY <1>1, <1>2 DEF WorkInv

\* A pin is set within the limit, or taken away.
LEMMA WorkUpdates ==
  ASSUME WorkInv, NEW r \in Request, Work!UpdatePinned(r)
  PROVE  WorkInv'
<1> PICK w : w = writer[r].work
  OBVIOUS
<1>1. /\ writer[r] \in WorkRequest /\ writer[r].step = "update" /\ w \in Work!Work
      /\ writer[r].count \in Nat /\ writer[r].pin \in BOOLEAN
      /\ writer' = [writer EXCEPT ![r] = Work!Idle] /\ workSlips' = workSlips
  BY DEF WorkInv, WorkTypes, Work!UpdatePinned, WorkRequest
<1>2. /\ writer'[r] = Work!Idle /\ \A q \in Request : q # r => writer'[q] = writer[q]
      /\ writer' \in [Request -> WorkRequest]
  BY <1>1, WorkIdle DEF WorkInv, WorkTypes
<1>3. works' = works
      \/ /\ works' = [works EXCEPT ![w].pinned = writer[r].pin]
         /\ works[w].made /\ (writer[r].pin => writer[r].count < PinLimit)
  BY DEF Work!UpdatePinned, Work!MayPin
<1>4. /\ works' \in [Work!Work -> WorkRow]
      /\ \A v \in Work!Work : works'[v].active = works[v].active /\ works'[v].made = works[v].made
      /\ \A v \in Work!Work : v # w => works'[v] = works[v]
  BY <1>1, <1>3 DEF WorkInv, WorkTypes, WorkRow
<1>5. WorkTypes'
  BY <1>2, <1>4, WorkIdle, WorkCounts DEF WorkInv, WorkTypes
<1>6. CountsHold'
  <2> SUFFICES ASSUME workSlips' = {} PROVE CountsHold'
    BY DEF CountsHold
  <2>1. CountsHold /\ workSlips = {}
    BY <1>1 DEF WorkInv
  <2>2. \A q \in Request : writer'[q] = Work!Idle
    BY <1>1, <1>2, <2>1, WorkIdle DEF CountsHold
  <2>3. works[w].active
    BY <1>1, <2>1, WorkIdle DEF CountsHold
  <2>4. \A v \in Work!Work : works'[v].pinned => works'[v].made /\ works'[v].active
    <3>1. \A v \in Work!Work : v # w => (works'[v].pinned => works'[v].made /\ works'[v].active)
      BY <1>4, <2>1 DEF CountsHold
    <3>2. works'[w].pinned => works'[w].made /\ works'[w].active
      BY <1>1, <1>3, <1>4, <2>1, <2>3 DEF CountsHold
    <3> QED
      BY <3>1, <3>2
  <2>5. Cardinality(Work!Pinned(Work!Work)') <= PinLimit
    <3>1. PICK old : old = Work!Pinned(Work!Work)
      OBVIOUS
    <3>2. /\ IsFiniteSet(old) /\ Cardinality(old) \in Nat
          /\ Cardinality(old) <= PinLimit /\ Cardinality(old) <= writer[r].count
      BY <1>1, <2>1, <3>1, WorkPinned, WorkCounts DEF CountsHold
    <3>3. /\ Cardinality(old \cup {w}) <= Cardinality(old) + 1 /\ IsFiniteSet(old \cup {w})
      <4>1. /\ IsFiniteSet(old \cup {w})
            /\ Cardinality(old \cup {w}) = IF w \in old THEN Cardinality(old) ELSE Cardinality(old) + 1
        BY <3>2, FS_AddElement
      <4> QED
        BY <3>2, <4>1
    <3>4. Work!Pinned(Work!Work)' \subseteq old \/ (/\ writer[r].count < PinLimit
                                                 /\ Work!Pinned(Work!Work)' \subseteq old \cup {w})
      <4>1. CASE works' = works
        BY <3>1, <4>1 DEF Work!Pinned, Work!Counted
      <4>2. CASE /\ works' = [works EXCEPT ![w].pinned = writer[r].pin]
                 /\ works[w].made /\ (writer[r].pin => writer[r].count < PinLimit)
        <5>1. Work!Pinned(Work!Work)' \subseteq old \cup {w}
          BY <1>4, <3>1 DEF Work!Pinned, Work!Counted
        <5>2. ASSUME ~writer[r].pin PROVE w \notin Work!Pinned(Work!Work)'
          BY <1>1, <4>2, <5>2 DEF Work!Pinned, Work!Counted, WorkInv, WorkTypes, WorkRow
        <5> QED
          BY <1>1, <4>2, <5>1, <5>2
      <4> QED
        BY <1>3, <4>1, <4>2
    <3>5. Cardinality(Work!Pinned(Work!Work)') <= Cardinality(old)
          \/ (/\ writer[r].count < PinLimit
              /\ Cardinality(Work!Pinned(Work!Work)') <= Cardinality(old \cup {w}))
      BY <3>2, <3>3, <3>4, FS_Subset
    <3>6. Cardinality(old \cup {w}) \in Nat /\ PinLimit \in Nat
      BY <3>3, FS_CardinalityType, CommunityAssumption
    <3>7. Cardinality(Work!Pinned(Work!Work)') \in Nat
      BY <3>2, <3>3, <3>4, FS_Subset, FS_CardinalityType
    <3> QED
      BY <1>1, <3>2, <3>3, <3>5, <3>6, <3>7
  <2> QED
    BY <2>2, <2>4, <2>5, WorkIdle DEF CountsHold
<1> QED
  BY <1>5, <1>6 DEF WorkInv

\* A collection that is made pinned is an exception.
LEMMA WorkCreates ==
  ASSUME WorkInv, NEW w \in Shelf, NEW pin \in BOOLEAN, Work!CreateCollection(w, pin)
  PROVE  WorkInv'
<1>1. /\ w \in Work!Work /\ writer' = writer
      /\ works' = [works EXCEPT ![w].made = TRUE, ![w].pinned = pin]
      /\ workSlips' = IF pin THEN workSlips \cup {"made pinned"} ELSE workSlips
  BY DEF Work!CreateCollection, Work!Work
<1>2. /\ works' \in [Work!Work -> WorkRow]
      /\ works'[w].pinned = pin /\ works'[w].active = works[w].active
      /\ \A v \in Work!Work : v # w => works'[v] = works[v]
  BY <1>1 DEF WorkInv, WorkTypes, WorkRow
<1>3. ASSUME workSlips' = {}, NEW v \in Work!Work, works'[v].pinned
      PROVE  works[v].pinned /\ works'[v].made /\ works'[v].active
  <2>1. v # w /\ workSlips = {}
    BY <1>1, <1>2, <1>3
  <2> QED
    BY <1>2, <1>3, <2>1 DEF WorkInv, CountsHold
<1>4. \A r \in Request : writer[r] # Work!Idle =>
        works'[writer[r].work].active = works[writer[r].work].active
  BY <1>2 DEF WorkInv, WorkTypes
<1> QED
  BY <1>1, <1>2, <1>3, <1>4, WorkShrinks

\* A collection goes with its pin.
LEMMA WorkDeletes ==
  ASSUME WorkInv, NEW w \in Shelf, Work!DeleteCollection(w)
  PROVE  WorkInv'
<1>1. /\ w \in Work!Work /\ writer' = writer /\ workSlips' = workSlips
      /\ works' = [works EXCEPT ![w].made = FALSE, ![w].pinned = FALSE]
  BY DEF Work!DeleteCollection, Work!Work
<1>2. /\ works' \in [Work!Work -> WorkRow]
      /\ works'[w].pinned = FALSE /\ works'[w].active = works[w].active
      /\ \A v \in Work!Work : v # w => works'[v] = works[v]
  BY <1>1 DEF WorkInv, WorkTypes, WorkRow
<1>3. ASSUME workSlips' = {}, NEW v \in Work!Work, works'[v].pinned
      PROVE  works[v].pinned /\ works'[v].made /\ works'[v].active
  <2>1. v # w /\ workSlips = {}
    BY <1>1, <1>2, <1>3
  <2> QED
    BY <1>2, <1>3, <2>1 DEF WorkInv, CountsHold
<1>4. \A r \in Request : writer[r] # Work!Idle =>
        works'[writer[r].work].active = works[writer[r].work].active
  BY <1>2 DEF WorkInv, WorkTypes
<1> QED
  BY <1>1, <1>2, <1>3, <1>4, WorkShrinks

\* An article is archived without its pin, or comes back without one.
LEMMA WorkChanges ==
  ASSUME WorkInv, NEW w \in Paper, Work!ChangeState(w)
  PROVE  WorkInv'
<1>1. PICK ban \in BOOLEAN :
        /\ works' = [works EXCEPT ![w] = IF works[w].active /\ ~ban THEN Work!AfterArchive(w)
                                             ELSE [works[w] EXCEPT !.active = ~@]]
        /\ ban => works[w].active
        /\ workSlips' = workSlips \cup (IF ban THEN {"banned"} ELSE {})
             \cup (IF \E r \in Request : writer[r] # Work!Idle THEN {"overlap"} ELSE {})
  BY DEF Work!ChangeState
<1>2. w \in Work!Work /\ writer' = writer
  BY DEF Work!ChangeState, Work!Work
<1>3. /\ works' \in [Work!Work -> WorkRow] /\ \A v \in Work!Work : v # w => works'[v] = works[v]
  BY <1>1, <1>2 DEF WorkInv, WorkTypes, WorkRow, Work!AfterArchive
<1>4. ASSUME workSlips' = {}, NEW v \in Work!Work, works'[v].pinned
      PROVE  works[v].pinned /\ works'[v].made /\ works'[v].active
  <2>1. workSlips = {} /\ ~ban
    BY <1>1, <1>4
  <2>2. CASE v = w
    <3>1. ~works[w].active
      BY <1>1, <1>2, <1>4, <2>1, <2>2 DEF WorkInv, WorkTypes, WorkRow, Work!AfterArchive
    <3>4. works[w].pinned
      <4>1. works[w] \in WorkRow
        BY <1>2 DEF WorkInv, WorkTypes
      <4>2. PICK new : new = IF works[w].active /\ ~ban THEN Work!AfterArchive(w)
                             ELSE [works[w] EXCEPT !.active = ~@]
        OBVIOUS
      <4>3. works' = [works EXCEPT ![w] = new]
        BY <1>1, <4>2
      <4>4. works'[w] = new
        BY <1>2, <4>3 DEF WorkInv, WorkTypes
      <4>5. new = [works[w] EXCEPT !.active = ~@]
        BY <3>1, <4>2, Zenon
      <4> QED
        BY <1>4, <2>2, <4>1, <4>4, <4>5 DEF WorkRow
    <3> QED
      BY <1>2, <2>1, <3>1, <3>4 DEF WorkInv, CountsHold
  <2>3. CASE v # w
    BY <1>3, <1>4, <2>1, <2>3 DEF WorkInv, CountsHold
  <2> QED
    BY <2>2, <2>3
<1>5. workSlips' = {} => \A r \in Request : writer[r] = Work!Idle
  BY <1>1
<1>6. workSlips \subseteq workSlips'
  BY <1>1
<1> QED
  BY <1>2, <1>3, <1>4, <1>5, <1>6, WorkShrinks

\* Every action keeps the invariant.
LEMMA WorkNext == WorkInv /\ Work!Next => WorkInv'
BY WorkAsks, WorkCountsArticles, WorkCountsCollections, WorkUpdates, WorkCreates, WorkDeletes,
   WorkChanges DEF Work!Next

\* What the invariant says of pinned works.
LEMMA WorkSafe == WorkInv => Work!TypeOK /\ Work!PinnedWithinLimit
BY PinnedWorkCounts DEF WorkInv, WorkTypes, WorkRow, CountsHold, Work!TypeOK, Work!PinnedWithinLimit

-----------------------------------------------------------------------------
(* Pins: a channel that requests pin articles in.                            *)

PinRequest ==
  [step: {"idle", "count", "fresh", "oldest", "unpin", "write", "topic"},
   ids: SUBSET Pinnable, pin: BOOLEAN, count: Nat, oldest: SUBSET Pinnable,
   seen: Seq(Pinnable)]

\* A list without repetition, cut at the limit.
TopicList(list) ==
  /\ list \in Seq(Pinnable) /\ Len(list) <= TopicLimit
  /\ \A i, j \in 1..Len(list) : list[i] = list[j] => i = j

\* Age orders what is pinned, those set together being of one age.
Ages ==
  /\ older \subseteq pinned \X pinned
  /\ \A a, b \in pinned : <<a, b>> \in older => <<b, a>> \notin older
  /\ \A a, b, c \in pinned : <<a, b>> \in older => <<a, c>> \in older \/ <<c, b>> \in older

PinTypes ==
  /\ kind \in {"curation", "topic"} /\ (kind = "topic" => listed = {})
  /\ listed \subseteq Pinnable /\ pinned \subseteq listed
  /\ Ages
  /\ TopicList(topic)
  /\ strained \subseteq {"overlap", "repin"}
  /\ pinsAsked \in [Request -> PinRequest]
  /\ \A e \in Request :
       /\ TopicList(pinsAsked[e].seen)
       /\ kind = "topic" => pinsAsked[e].step \in {"idle", "topic"}
       /\ kind = "curation" => pinsAsked[e].step # "topic"

\* The articles a request asks for that can be pinned.
Wanted(e) == pinsAsked[e].ids \cap listed

\* How far a request has come in making room for what it pins.
RoomMade(e) ==
  LET q == pinsAsked[e] IN
  /\ q.pin /\ q.step # "topic" => Cardinality(q.ids) <= PinAmount
  /\ q.step \in {"count", "fresh", "oldest", "unpin"} => q.pin
  /\ q.step = "fresh" => Cardinality(pinned) <= q.count
  /\ q.step = "oldest" => Cardinality(pinned \cup Wanted(e)) <= PinAmount + q.count
  /\ q.step = "unpin" => Cardinality((pinned \ q.oldest) \cup Wanted(e)) <= PinAmount
  /\ q.step = "write" /\ q.pin => Cardinality(pinned \cup Wanted(e)) <= PinAmount

\* One request is at work, and what it unpins has nothing older left behind.
OneAtWork ==
  kind = "curation" /\ "overlap" \notin strained =>
    /\ \A e, o \in Request : pinsAsked[e].step # "idle" /\ pinsAsked[o].step # "idle" => e = o
    /\ \A e \in Request : pinsAsked[e].step = "unpin" =>
         \A a, b \in pinned : <<a, b>> \in older /\ b \in pinsAsked[e].oldest
                                => a \in pinsAsked[e].oldest

PinInv ==
  /\ PinTypes /\ OneAtWork
  /\ strained = {} => Cardinality(pinned) <= PinAmount /\ \A e \in Request : RoomMade(e)

\* Sets of articles are finite, the smaller the fewer.
LEMMA PinSets ==
  /\ \A S : S \subseteq Pinnable => IsFiniteSet(S) /\ Cardinality(S) \in Nat
  /\ \A S, T : S \subseteq T /\ T \subseteq Pinnable => Cardinality(S) <= Cardinality(T)
<1>1. \A S : S \subseteq Pinnable => IsFiniteSet(S) /\ Cardinality(S) \in Nat
  BY CommunityAssumption, FS_Subset, FS_CardinalityType
<1> QED
  BY <1>1, FS_Subset

\* Who has left holds nothing.
LEMMA PinIdle ==
  /\ Pin!NoRequest \in PinRequest /\ Pin!NoRequest.step = "idle" /\ ~Pin!NoRequest.pin
  /\ Pin!NoRequest.seen = <<>> /\ TopicList(<<>>)
BY CommunityAssumption DEF Pin!NoRequest, PinRequest, TopicList

\* Nothing is pinned at first.
LEMMA PinInit == Pin!Init => PinInv
<1> SUFFICES ASSUME Pin!Init PROVE PinInv
  OBVIOUS
<1>1. /\ kind \in {"curation", "topic"} /\ listed = (IF kind = "curation" THEN Pinnable ELSE {})
      /\ pinned = {} /\ older = {} /\ topic = <<>> /\ strained = {}
      /\ pinsAsked = [e \in Request |-> Pin!NoRequest]
  BY DEF Pin!Init
<1>2. PinTypes /\ OneAtWork
  BY <1>1, PinIdle DEF PinTypes, Ages, OneAtWork
<1>3. Cardinality(pinned) <= PinAmount
  BY <1>1, FS_EmptySet, CommunityAssumption
<1>4. \A e \in Request : RoomMade(e)
  BY <1>1, PinIdle DEF RoomMade
<1> QED
  BY <1>2, <1>3, <1>4 DEF PinInv

\* A request goes on while the channel stays as it is.
LEMMA PinProceeds ==
  ASSUME PinInv, NEW e \in Request, NEW next \in PinRequest,
         pinsAsked' = [pinsAsked EXCEPT ![e] = next],
         UNCHANGED <<kind, listed, pinned, older, topic>>,
         strained \subseteq strained', strained' \subseteq {"overlap", "repin"},
         TopicList(next.seen),
         kind = "topic" => next.step \in {"idle", "topic"},
         kind = "curation" => next.step # "topic",
         kind = "curation" /\ "overlap" \notin strained' /\ next.step # "idle" =>
           /\ \A o \in Request : o # e => pinsAsked[o].step = "idle"
           /\ next.step = "unpin" =>
                \A a, b \in pinned : <<a, b>> \in older /\ b \in next.oldest => a \in next.oldest,
         strained' = {} =>
           /\ next.pin /\ next.step # "topic" => Cardinality(next.ids) <= PinAmount
           /\ next.step \in {"count", "fresh", "oldest", "unpin"} => next.pin
           /\ next.step = "fresh" => Cardinality(pinned) <= next.count
           /\ next.step = "oldest" =>
                Cardinality(pinned \cup (next.ids \cap listed)) <= PinAmount + next.count
           /\ next.step = "unpin" =>
                Cardinality((pinned \ next.oldest) \cup (next.ids \cap listed)) <= PinAmount
           /\ next.step = "write" /\ next.pin =>
                Cardinality(pinned \cup (next.ids \cap listed)) <= PinAmount
  PROVE  PinInv'
<1>1. /\ pinsAsked'[e] = next /\ \A o \in Request : o # e => pinsAsked'[o] = pinsAsked[o]
      /\ pinsAsked' \in [Request -> PinRequest]
  BY DEF PinInv, PinTypes
<1>2. PinTypes'
  BY <1>1 DEF PinInv, PinTypes, Ages
<1>3. OneAtWork'
  <2> SUFFICES ASSUME kind = "curation", "overlap" \notin strained' PROVE OneAtWork'
    BY DEF OneAtWork
  <2>1. OneAtWork /\ "overlap" \notin strained
    BY DEF PinInv
  <2> QED
    BY <1>1, <2>1 DEF OneAtWork
<1>4. ASSUME strained' = {} PROVE Cardinality(pinned') <= PinAmount /\ \A o \in Request : RoomMade(o)'
  <2>1. strained = {}
    BY <1>4
  <2>2. \A o \in Request : o # e => RoomMade(o)'
    BY <1>1, <2>1 DEF PinInv, RoomMade, Wanted
  <2>3. RoomMade(e)'
    BY <1>1, <1>4 DEF RoomMade, Wanted
  <2> QED
    BY <2>1, <2>2, <2>3 DEF PinInv
<1> QED
  BY <1>2, <1>3, <1>4 DEF PinInv

\* A request begins with as many articles as may be pinned.
LEMMA PinAsk ==
  ASSUME PinInv, NEW e \in Request, NEW ids \in SUBSET Pinnable, NEW pin \in BOOLEAN,
         Pin!Ask(e, ids, pin)
  PROVE  PinInv'
<1> DEFINE next == [Pin!NoRequest EXCEPT !.step = IF pin THEN "count" ELSE "write",
                                         !.ids = ids, !.pin = pin]
<1>1. /\ next \in PinRequest /\ next.seen = <<>> /\ next.pin = pin /\ next.ids = ids
      /\ next.step = IF pin THEN "count" ELSE "write"
  BY PinIdle DEF Pin!NoRequest, PinRequest
<1>2. /\ pinsAsked' = [pinsAsked EXCEPT ![e] = next] /\ kind = "curation"
      /\ UNCHANGED <<kind, listed, pinned, older, topic>>
      /\ pin => Cardinality(ids) <= PinAmount
      /\ strained' = IF \E o \in Request \ {e} : pinsAsked[o].step # "idle"
                     THEN strained \cup {"overlap"} ELSE strained
  BY PinCounts DEF Pin!Ask, Pin!Overlap
<1> HIDE DEF next
<1>3. strained' \subseteq {"overlap", "repin"} /\ strained \subseteq strained'
  BY <1>2 DEF PinInv, PinTypes
<1> QED
  BY <1>1, <1>2, <1>3, PinIdle, PinProceeds

\* A request whose step is known is the only one, and keeps what it asks for.
LEMMA PinOnly ==
  ASSUME PinInv, NEW e \in Request, pinsAsked[e].step \notin {"idle", "topic"}
  PROVE  /\ kind = "curation" /\ pinsAsked[e] \in PinRequest /\ TopicList(pinsAsked[e].seen)
         /\ strained \subseteq {"overlap", "repin"}
         /\ "overlap" \notin strained => \A o \in Request : o # e => pinsAsked[o].step = "idle"
         /\ strained = {} => RoomMade(e)
         /\ pinned \subseteq Pinnable /\ Wanted(e) \subseteq Pinnable /\ Wanted(e) \subseteq pinsAsked[e].ids
BY DEF PinInv, PinTypes, OneAtWork, Wanted

\* The pins are counted.
LEMMA PinCount ==
  ASSUME PinInv, NEW e \in Request, Pin!CountPinned(e)
  PROVE  PinInv'
<1> DEFINE next == [pinsAsked[e] EXCEPT !.count = Cardinality(pinned), !.step = "fresh"]
<1>1. /\ pinsAsked[e].step = "count" /\ pinsAsked' = [pinsAsked EXCEPT ![e] = next]
      /\ UNCHANGED <<kind, listed, pinned, older, topic, strained>>
  BY PinCounts DEF Pin!CountPinned
<1>2. Cardinality(pinned) \in Nat /\ pinsAsked[e] \in PinRequest
  BY <1>1, PinOnly, PinSets
<1>3. /\ next \in PinRequest /\ next.seen = pinsAsked[e].seen /\ next.pin = pinsAsked[e].pin
      /\ next.ids = pinsAsked[e].ids /\ next.step = "fresh" /\ next.count = Cardinality(pinned)
  BY <1>2 DEF PinRequest
<1> HIDE DEF next
<1>4. Cardinality(pinned) <= next.count
  BY <1>2, <1>3
<1> QED
  BY <1>1, <1>3, <1>4, PinOnly, PinProceeds DEF RoomMade

\* The articles without a pin are counted, and how many pins are in their way.
LEMMA PinFresh ==
  ASSUME PinInv, NEW e \in Request, Pin!CountFresh(e)
  PROVE  PinInv'
<1> PICK fresh : fresh = Cardinality((pinsAsked[e].ids \cap listed) \ pinned)
  OBVIOUS
<1> DEFINE excess == Pin!Excess(pinsAsked[e].count, fresh)
           next == [pinsAsked[e] EXCEPT !.count = excess,
                                        !.step = IF excess > 0 THEN "oldest" ELSE "write"]
<1>1. /\ pinsAsked[e].step = "fresh" /\ pinsAsked' = [pinsAsked EXCEPT ![e] = next]
      /\ UNCHANGED <<kind, listed, pinned, older, topic, strained>>
  BY PinCounts DEF Pin!CountFresh
<1>2. /\ pinsAsked[e] \in PinRequest /\ pinsAsked[e].count \in Nat
      /\ pinned \subseteq Pinnable /\ Wanted(e) \subseteq Pinnable
      /\ PinAmount \in Nat
  BY <1>1, PinOnly, CommunityAssumption DEF PinRequest
<1>3. fresh \in Nat /\ Cardinality(pinned) \in Nat
  BY <1>2, PinSets DEF Wanted
<1>4. Cardinality(pinned \cup Wanted(e)) = Cardinality(pinned) + fresh
  <2>1. pinned \cup Wanted(e) = pinned \cup (Wanted(e) \ pinned)
    OBVIOUS
  <2>2. pinned \cap (Wanted(e) \ pinned) = {} /\ Cardinality({}) = 0
    BY FS_EmptySet
  <2>3. IsFiniteSet(pinned) /\ IsFiniteSet(Wanted(e) \ pinned)
    BY <1>2, PinSets
  <2>4. Cardinality(pinned \cup (Wanted(e) \ pinned))
          = Cardinality(pinned) + Cardinality(Wanted(e) \ pinned)
              - Cardinality(pinned \cap (Wanted(e) \ pinned))
    BY <2>3, FS_Union
  <2>5. fresh = Cardinality(Wanted(e) \ pinned)
    BY DEF Wanted
  <2>6. Cardinality(pinned \cap (Wanted(e) \ pinned)) = 0
    BY <2>2
  <2>7. Cardinality(pinned \cup (Wanted(e) \ pinned)) = Cardinality(pinned) + fresh - 0
    BY <2>4, <2>5, <2>6
  <2>8. Cardinality(pinned \cup Wanted(e)) = Cardinality(pinned) + fresh - 0
    BY <2>1, <2>7, Zenon
  <2> QED
    BY <1>3, <2>8
<1>5. /\ excess \in Nat /\ pinsAsked[e].count + fresh <= PinAmount + excess
      /\ excess > 0 \/ excess = 0
  BY <1>2, <1>3 DEF Pin!Excess
<1> HIDE DEF excess
<1>6. ASSUME strained = {}
      PROVE  /\ pinsAsked[e].pin /\ Cardinality(pinsAsked[e].ids) <= PinAmount
             /\ Cardinality(pinned \cup Wanted(e)) <= PinAmount + excess
  <2>1. Cardinality(pinned) <= pinsAsked[e].count
    BY <1>1, <1>6, PinOnly DEF RoomMade
  <2>2. Cardinality(pinned) + fresh <= PinAmount + excess
    BY <1>2, <1>3, <1>5, <2>1
  <2>3. pinsAsked[e].pin /\ Cardinality(pinsAsked[e].ids) <= PinAmount
    BY <1>1, <1>6, PinOnly DEF RoomMade
  <2> QED
    BY <1>4, <2>2, <2>3
<1>7. /\ next \in PinRequest /\ next.seen = pinsAsked[e].seen /\ next.pin = pinsAsked[e].pin
      /\ next.ids = pinsAsked[e].ids /\ next.count = excess
      /\ next.step = IF excess > 0 THEN "oldest" ELSE "write"
  BY <1>2, <1>5 DEF PinRequest
<1> HIDE DEF next
<1>8. strained = {} =>
        /\ next.step = "oldest" => Cardinality(pinned \cup (next.ids \cap listed)) <= PinAmount + next.count
        /\ next.step = "write" => Cardinality(pinned \cup (next.ids \cap listed)) <= PinAmount
  BY <1>2, <1>5, <1>6, <1>7 DEF Wanted
<1>9. next.step \in {"oldest", "write"}
  BY <1>7
<1> QED
  BY <1>1, <1>6, <1>7, <1>8, <1>9, PinOnly, PinProceeds

\* Unpinning the oldest makes room, unless one of them is asked for again.
LEMMA PinRoom ==
  ASSUME NEW P \in SUBSET Pinnable, NEW W \in SUBSET Pinnable, NEW T \in SUBSET P, NEW n \in Nat,
         Cardinality(P \cup W) <= PinAmount + n, Cardinality(W) <= PinAmount,
         Cardinality(T) = (IF n < Cardinality(P) THEN n ELSE Cardinality(P)), T \cap W = {}
  PROVE  Cardinality((P \ T) \cup W) <= PinAmount
<1>1. /\ IsFiniteSet(P) /\ IsFiniteSet(T) /\ Cardinality(P) \in Nat /\ Cardinality(T) \in Nat
      /\ Cardinality((P \ T) \cup W) \in Nat /\ IsFiniteSet((P \ T) \cup W)
      /\ PinAmount \in Nat
  BY PinSets, CommunityAssumption
<1>2. CASE n < Cardinality(P)
  <2>1. P \cup W = ((P \ T) \cup W) \cup T /\ ((P \ T) \cup W) \cap T = {}
    OBVIOUS
  <2>2. Cardinality(((P \ T) \cup W) \cup T)
          = Cardinality((P \ T) \cup W) + Cardinality(T) - Cardinality(((P \ T) \cup W) \cap T)
    BY <1>1, FS_Union
  <2>3. Cardinality(((P \ T) \cup W) \cap T) = 0
    BY <2>1, FS_EmptySet
  <2>4. Cardinality(T) = n
    BY <1>2
  <2>5. Cardinality(P \cup W) = Cardinality(((P \ T) \cup W) \cup T)
    BY <2>1
  <2>6. Cardinality((P \ T) \cup W) + n <= PinAmount + n
    BY <1>1, <2>2, <2>3, <2>4, <2>5
  <2> QED
    BY <1>1, <2>6
<1>3. CASE ~(n < Cardinality(P))
  <2>1. P = T
    BY <1>1, <1>3, FS_Subset
  <2> QED
    BY <2>1
<1> QED
  BY <1>2, <1>3

\* The oldest pins are found.
LEMMA PinFind ==
  ASSUME PinInv, NEW e \in Request, Pin!FindOldest(e)
  PROVE  PinInv'
<1>1. PICK T \in SUBSET pinned :
        /\ Pin!IsOldest(T, pinsAsked[e].count)
        /\ pinsAsked' = [pinsAsked EXCEPT ![e].oldest = T, ![e].count = 0, ![e].step = "unpin"]
        /\ strained' = IF T \cap pinsAsked[e].ids # {} THEN strained \cup {"repin"} ELSE strained
  BY DEF Pin!FindOldest
<1> DEFINE next == [pinsAsked[e] EXCEPT !.oldest = T, !.count = 0, !.step = "unpin"]
<1>2. /\ pinsAsked[e].step = "oldest" /\ UNCHANGED <<kind, listed, pinned, older, topic>>
      /\ pinsAsked' = [pinsAsked EXCEPT ![e] = next]
  BY <1>1 DEF Pin!FindOldest
<1>3. /\ pinsAsked[e] \in PinRequest /\ pinsAsked[e].count \in Nat /\ T \subseteq Pinnable
      /\ pinned \subseteq Pinnable /\ Wanted(e) \subseteq Pinnable /\ pinsAsked[e].ids \subseteq Pinnable
      /\ Wanted(e) \subseteq pinsAsked[e].ids
  BY <1>1, <1>2, PinOnly DEF PinRequest
<1>4. /\ next \in PinRequest /\ next.seen = pinsAsked[e].seen /\ next.pin = pinsAsked[e].pin
      /\ next.ids = pinsAsked[e].ids /\ next.oldest = T /\ next.step = "unpin"
  BY <1>3 DEF PinRequest
<1> HIDE DEF next
<1>5. /\ Cardinality(T) = (IF pinsAsked[e].count < Cardinality(pinned) THEN pinsAsked[e].count
                                                                       ELSE Cardinality(pinned))
      /\ \A a, b \in pinned : <<a, b>> \in older /\ b \in T => a \in T
  BY <1>1, PinCounts DEF Pin!IsOldest
<1>6. strained' \subseteq {"overlap", "repin"} /\ strained \subseteq strained'
  BY <1>1, <1>2, PinOnly
<1>7. ASSUME strained' = {}
      PROVE  /\ next.pin /\ Cardinality(next.ids) <= PinAmount
             /\ Cardinality((pinned \ next.oldest) \cup (next.ids \cap listed)) <= PinAmount
  <2>1. strained = {} /\ T \cap pinsAsked[e].ids = {}
    BY <1>1, <1>7
  <2>2. /\ pinsAsked[e].pin /\ Cardinality(pinsAsked[e].ids) <= PinAmount
        /\ Cardinality(pinned \cup Wanted(e)) <= PinAmount + pinsAsked[e].count
    BY <1>2, <2>1, PinOnly DEF RoomMade
  <2>3. Cardinality(Wanted(e)) <= PinAmount
    <3>1. /\ Cardinality(Wanted(e)) <= Cardinality(pinsAsked[e].ids)
          /\ Cardinality(Wanted(e)) \in Nat /\ Cardinality(pinsAsked[e].ids) \in Nat
      BY <1>3, PinSets
    <3> QED
      BY <2>2, <3>1, CommunityAssumption
  <2>4. Cardinality((pinned \ T) \cup Wanted(e)) <= PinAmount
    BY <1>1, <1>3, <1>5, <2>1, <2>2, <2>3, PinRoom
  <2> QED
    BY <1>4, <2>2, <2>4 DEF Wanted
<1> QED
  BY <1>2, <1>4, <1>5, <1>6, <1>7, PinOnly, PinProceeds

\* Age still orders what is left of the pins.
LEMMA AgesLeft ==
  ASSUME Ages, NEW S \in SUBSET pinned, pinned' = S, older' = older \cap (S \X S)
  PROVE  Ages'
BY DEF Ages

\* Pins go: what was counted is enough.
LEMMA PinLess ==
  ASSUME PinInv, NEW e \in Request, pinned' \subseteq pinned, listed' \subseteq listed,
         strained' = strained, pinned \subseteq Pinnable,
         pinsAsked'[e] = pinsAsked[e], RoomMade(e), pinsAsked[e] \in PinRequest
  PROVE  RoomMade(e)'
<1> DEFINE q == pinsAsked[e]
<1>1. /\ pinned' \subseteq Pinnable /\ Wanted(e) \subseteq Pinnable
      /\ Wanted(e)' \subseteq Wanted(e) /\ q.ids \subseteq Pinnable /\ q.count \in Nat
  BY DEF Wanted, PinRequest
<1>2. /\ Cardinality(pinned') <= Cardinality(pinned)
      /\ Cardinality(pinned' \cup Wanted(e)') <= Cardinality(pinned \cup Wanted(e))
      /\ Cardinality((pinned' \ q.oldest) \cup Wanted(e)')
           <= Cardinality((pinned \ q.oldest) \cup Wanted(e))
  <2>1. /\ pinned' \cup Wanted(e)' \subseteq pinned \cup Wanted(e)
        /\ (pinned' \ q.oldest) \cup Wanted(e)' \subseteq (pinned \ q.oldest) \cup Wanted(e)
        /\ pinned \cup Wanted(e) \subseteq Pinnable
        /\ (pinned \ q.oldest) \cup Wanted(e) \subseteq Pinnable
    BY <1>1
  <2> QED
    BY <2>1, PinSets
<1>3. /\ Cardinality(pinned') \in Nat /\ Cardinality(pinned) \in Nat
      /\ Cardinality(pinned' \cup Wanted(e)') \in Nat /\ Cardinality(pinned \cup Wanted(e)) \in Nat
      /\ Cardinality((pinned' \ q.oldest) \cup Wanted(e)') \in Nat
      /\ Cardinality((pinned \ q.oldest) \cup Wanted(e)) \in Nat
      /\ PinAmount \in Nat
  BY <1>1, PinSets, CommunityAssumption
<1> QED
  BY <1>1, <1>2, <1>3 DEF RoomMade

\* The oldest pins go, and with each of them what is older.
LEMMA PinUnpin ==
  ASSUME PinInv, NEW e \in Request, Pin!UnpinOldest(e)
  PROVE  PinInv' /\ Pin!OldestGoFirst
<1> DEFINE next == [pinsAsked[e] EXCEPT !.oldest = {}, !.step = "write"]
<1>1. /\ pinsAsked[e].step = "unpin" /\ pinsAsked' = [pinsAsked EXCEPT ![e] = next]
      /\ pinned' = pinned \ pinsAsked[e].oldest /\ older' = older \cap (pinned' \X pinned')
      /\ UNCHANGED <<kind, listed, topic, strained>>
  BY DEF Pin!UnpinOldest, Pin!OlderIn
<1>2. pinsAsked[e] \in PinRequest /\ kind = "curation"
  BY <1>1, PinOnly
<1>3. /\ next \in PinRequest /\ next.seen = pinsAsked[e].seen /\ next.pin = pinsAsked[e].pin
      /\ next.ids = pinsAsked[e].ids /\ next.step = "write"
  BY <1>2 DEF PinRequest
<1> HIDE DEF next
<1>4. /\ pinsAsked'[e] = next /\ \A o \in Request : o # e => pinsAsked'[o] = pinsAsked[o]
      /\ pinsAsked' \in [Request -> PinRequest]
  BY <1>1, <1>3 DEF PinInv, PinTypes
<1>5. Ages'
  BY <1>1, AgesLeft DEF PinInv, PinTypes
<1>6. PinTypes'
  BY <1>1, <1>3, <1>4, <1>5 DEF PinInv, PinTypes, TopicList
<1>7. "overlap" \notin strained => \A o \in Request : o # e => pinsAsked[o].step = "idle"
  BY <1>1, PinOnly
<1>8. OneAtWork'
  BY <1>1, <1>3, <1>4, <1>7 DEF OneAtWork
<1>9. ASSUME strained = {}
      PROVE  Cardinality(pinned') <= PinAmount /\ \A o \in Request : RoomMade(o)'
  <2>1. /\ Cardinality((pinned \ pinsAsked[e].oldest) \cup Wanted(e)) <= PinAmount
        /\ pinsAsked[e].pin /\ Cardinality(pinsAsked[e].ids) <= PinAmount
    BY <1>1, <1>9, PinOnly DEF RoomMade
  <2>2. Wanted(e)' = Wanted(e)
    BY <1>1, <1>3, <1>4 DEF Wanted
  <2>3. RoomMade(e)'
    BY <1>1, <1>3, <1>4, <2>1, <2>2 DEF RoomMade
  <2>4. \A o \in Request : o # e => RoomMade(o)'
    <3> SUFFICES ASSUME NEW o \in Request, o # e PROVE RoomMade(o)'
      OBVIOUS
    <3>1. RoomMade(o) /\ pinsAsked[o] \in PinRequest /\ pinned \subseteq Pinnable
      BY <1>9 DEF PinInv, PinTypes
    <3> QED
      BY <1>1, <1>4, <3>1, PinLess
  <2>5. Cardinality(pinned') <= PinAmount
    <3>1. /\ Cardinality(pinned') <= Cardinality(pinned) /\ Cardinality(pinned) <= PinAmount
          /\ Cardinality(pinned') \in Nat /\ Cardinality(pinned) \in Nat /\ PinAmount \in Nat
      BY <1>1, <1>9, PinOnly, PinSets, CommunityAssumption DEF PinInv
    <3> QED
      BY <3>1
  <2> QED
    BY <2>3, <2>4, <2>5
<1>10. Pin!OldestGoFirst
  BY <1>1, <1>2 DEF Pin!OldestGoFirst, PinInv, OneAtWork
<1> QED
  BY <1>1, <1>6, <1>8, <1>9, <1>10 DEF PinInv

\* A step that is not the one that makes room says nothing of age.
LEMMA PinQuiet ==
  ASSUME \A e \in Request : ~Pin!UnpinOldest(e)
  PROVE  Pin!OldestGoFirst
BY DEF Pin!OldestGoFirst

\* What was asked for is pinned, or unpinned, in the last statement.
LEMMA PinSet ==
  ASSUME PinInv, NEW e \in Request, Pin!SetPins(e)
  PROVE  PinInv'
<1> DEFINE fresh == IF pinsAsked[e].pin THEN Wanted(e) ELSE {}
           rest == pinned \ pinsAsked[e].ids
<1>1. /\ pinsAsked[e].step = "write" /\ pinsAsked' = [pinsAsked EXCEPT ![e] = Pin!NoRequest]
      /\ pinned' = rest \cup fresh
      /\ older' = (older \cap (rest \X rest)) \cup (rest \X fresh)
      /\ UNCHANGED <<kind, listed, topic, strained>>
  BY DEF Pin!SetPins, Pin!OlderIn, Wanted
<1>2. /\ kind = "curation" /\ Wanted(e) \subseteq pinsAsked[e].ids /\ pinned \subseteq Pinnable
      /\ Wanted(e) \subseteq Pinnable
  BY <1>1, PinOnly
<1>3. /\ rest \subseteq pinned /\ rest \cap fresh = {} /\ fresh \subseteq Wanted(e)
      /\ ~pinsAsked[e].pin => fresh = {}
  BY <1>2
<1> HIDE DEF rest, fresh
<1>4. /\ pinsAsked'[e] = Pin!NoRequest /\ \A o \in Request : o # e => pinsAsked'[o] = pinsAsked[o]
      /\ pinsAsked' \in [Request -> PinRequest]
  BY <1>1, PinIdle DEF PinInv, PinTypes
<1>5. Ages'
  <2>1. Ages
    BY DEF PinInv, PinTypes
  <2>2. older' \subseteq pinned' \X pinned'
    BY <1>1
  <2>3. ASSUME NEW a \in pinned', NEW b \in pinned', <<a, b>> \in older'
        PROVE  /\ a \in rest /\ <<b, a>> \notin older'
               /\ (b \in rest /\ <<a, b>> \in older) \/ b \in fresh
    BY <1>1, <1>3, <2>1, <2>3 DEF Ages
  <2>4. ASSUME NEW a \in pinned', NEW b \in pinned', NEW c \in pinned', <<a, b>> \in older'
        PROVE  <<a, c>> \in older' \/ <<c, b>> \in older'
    <3>1. CASE c \in fresh
      BY <1>1, <2>3, <2>4, <3>1
    <3>2. CASE c \in rest /\ b \in fresh
      BY <1>1, <3>2
    <3>3. CASE c \in rest /\ b \in rest /\ <<a, b>> \in older
      <4>1. <<a, c>> \in older \/ <<c, b>> \in older
        BY <1>3, <2>1, <2>3, <2>4, <3>3 DEF Ages
      <4> QED
        BY <1>1, <2>3, <2>4, <3>3, <4>1
    <3> QED
      BY <1>1, <2>3, <2>4, <3>1, <3>2, <3>3
  <2> QED
    BY <2>2, <2>3, <2>4 DEF Ages
<1>6. PinTypes'
  <2>1. pinned' \subseteq listed
    BY <1>1, <1>3 DEF PinInv, PinTypes, Wanted
  <2>2. \A o \in Request : /\ TopicList(pinsAsked'[o].seen)
                           /\ pinsAsked'[o].step # "topic"
    BY <1>1, <1>2, <1>4, PinIdle DEF PinInv, PinTypes
  <2>3. TopicList(topic')
    BY <1>1 DEF PinInv, PinTypes
  <2>4. /\ kind' \in {"curation", "topic"} /\ kind' # "topic" /\ listed' \subseteq Pinnable
        /\ strained' \subseteq {"overlap", "repin"} /\ pinned' \subseteq listed'
    BY <1>1, <1>2, <2>1 DEF PinInv, PinTypes
  <2> QED
    BY <1>4, <1>5, <2>2, <2>3, <2>4 DEF PinTypes, TopicList
<1>7. "overlap" \notin strained => \A o \in Request : pinsAsked'[o].step = "idle"
  BY <1>1, <1>4, PinOnly, PinIdle
<1>8. OneAtWork'
  BY <1>1, <1>7 DEF OneAtWork
<1>9. ASSUME strained = {}
      PROVE  Cardinality(pinned') <= PinAmount /\ \A o \in Request : RoomMade(o)'
  <2>1. RoomMade(e)'
    BY <1>4, PinIdle DEF RoomMade
  <2>2. \A o \in Request : RoomMade(o)'
    <3> SUFFICES ASSUME NEW o \in Request, o # e PROVE RoomMade(o)'
      BY <2>1
    <3>1. pinsAsked'[o] = pinsAsked[o] /\ pinsAsked'[o].step = "idle" /\ RoomMade(o)
      BY <1>4, <1>7, <1>9 DEF PinInv
    <3> QED
      BY <3>1 DEF RoomMade
  <2>3. Cardinality(pinned') <= PinAmount
    <3>1. CASE pinsAsked[e].pin
      <4>1. Cardinality(pinned \cup Wanted(e)) <= PinAmount
        BY <1>1, <1>9, <3>1, PinOnly DEF RoomMade
      <4>2. pinned' \subseteq pinned \cup Wanted(e) /\ pinned \cup Wanted(e) \subseteq Pinnable
        BY <1>1, <1>2, <1>3
      <4> QED
        BY <4>1, <4>2, PinSets, CommunityAssumption
    <3>2. CASE ~pinsAsked[e].pin
      <4>1. pinned' \subseteq pinned
        BY <1>1, <1>3, <3>2
      <4>2. Cardinality(pinned) <= PinAmount
        BY <1>9 DEF PinInv
      <4> QED
        BY <1>2, <4>1, <4>2, PinSets, CommunityAssumption
    <3> QED
      BY <3>1, <3>2
  <2> QED
    BY <2>2, <2>3
<1> QED
  BY <1>1, <1>6, <1>8, <1>9 DEF PinInv

\* A row is added, beside nobody or as an overlap.
LEMMA PinAddRow ==
  ASSUME PinInv, NEW a \in Pinnable, Pin!AddArticles(a)
  PROVE  PinInv'
<1>1. /\ kind = "curation" /\ listed' = listed \cup {a} /\ UNCHANGED <<kind, pinned, older, topic, pinsAsked>>
      /\ strained' = IF \E o \in Request : pinsAsked[o].step # "idle"
                     THEN strained \cup {"overlap"} ELSE strained
  BY DEF Pin!AddArticles, Pin!Overlap
<1>2. PinTypes'
  BY <1>1 DEF PinInv, PinTypes, Ages, TopicList
<1>3. OneAtWork'
  BY <1>1 DEF PinInv, OneAtWork
<1>4. ASSUME strained' = {} PROVE Cardinality(pinned') <= PinAmount /\ \A o \in Request : RoomMade(o)'
  <2>1. strained = {} /\ \A o \in Request : pinsAsked[o].step = "idle"
    BY <1>1, <1>4
  <2> QED
    BY <1>1, <2>1 DEF PinInv, RoomMade
<1> QED
  BY <1>2, <1>3, <1>4 DEF PinInv

\* A row goes with its pin.
LEMMA PinDeleteRow ==
  ASSUME PinInv, NEW a \in Pinnable, Pin!DeleteArticles(a)
  PROVE  PinInv'
<1>1. /\ a \in listed /\ listed' = listed \ {a} /\ pinned' = pinned \ {a}
      /\ older' = older \cap (pinned' \X pinned')
      /\ UNCHANGED <<kind, topic, pinsAsked, strained>>
  BY DEF Pin!DeleteArticles, Pin!OlderIn
<1>2. Ages'
  BY <1>1, AgesLeft DEF PinInv, PinTypes
<1>3. PinTypes'
  BY <1>1, <1>2 DEF PinInv, PinTypes, TopicList
<1>4. OneAtWork'
  BY <1>1 DEF PinInv, OneAtWork
<1>5. ASSUME strained = {} PROVE Cardinality(pinned') <= PinAmount /\ \A o \in Request : RoomMade(o)'
  <2>1. pinned \subseteq Pinnable /\ \A o \in Request : pinsAsked[o] \in PinRequest /\ RoomMade(o)
    BY <1>5 DEF PinInv, PinTypes
  <2>2. \A o \in Request : RoomMade(o)'
    BY <1>1, <2>1, PinLess
  <2>3. /\ Cardinality(pinned') <= Cardinality(pinned) /\ Cardinality(pinned) <= PinAmount
        /\ Cardinality(pinned') \in Nat /\ Cardinality(pinned) \in Nat /\ PinAmount \in Nat
    BY <1>1, <1>5, <2>1, PinSets, CommunityAssumption DEF PinInv
  <2> QED
    BY <2>2, <2>3
<1> QED
  BY <1>1, <1>3, <1>4, <1>5 DEF PinInv

\* The list of a topic channel is read.
LEMMA PinReadTopic ==
  ASSUME PinInv, NEW e \in Request, NEW ids \in SUBSET Pinnable, NEW pin \in BOOLEAN,
         Pin!ReadTopic(e, ids, pin)
  PROVE  PinInv'
<1> DEFINE next == [Pin!NoRequest EXCEPT !.step = "topic", !.ids = ids, !.pin = pin, !.seen = topic]
<1>1. /\ kind = "topic" /\ pinsAsked' = [pinsAsked EXCEPT ![e] = next]
      /\ UNCHANGED <<kind, listed, pinned, older, topic, strained>>
      /\ strained \subseteq {"overlap", "repin"} /\ TopicList(topic)
  BY DEF Pin!ReadTopic, PinInv, PinTypes
<1>2. next \in PinRequest /\ next.seen = topic /\ next.step = "topic"
  BY <1>1, PinIdle DEF Pin!NoRequest, PinRequest, TopicList
<1> HIDE DEF next
<1> QED
  BY <1>1, <1>2, PinProceeds

\* A list has as many different articles as it is long, at most.
LEMMA ListedOnce ==
  ASSUME NEW S, NEW list \in Seq(S)
  PROVE  /\ IsFiniteSet({list[i] : i \in DOMAIN list})
         /\ Cardinality({list[i] : i \in DOMAIN list}) <= Len(list)
<1> DEFINE T == {list[i] : i \in DOMAIN list}
<1>1. list \in Surjection(1..Len(list), T) /\ Len(list) \in Nat
  BY DEF Surjection
<1>2. IsFiniteSet(1..Len(list)) /\ Cardinality(1..Len(list)) = Len(list)
  <2>1. 1 \in Int /\ Len(list) \in Int /\ (1 > Len(list) => Len(list) = 0)
        /\ Len(list) - 1 + 1 = Len(list)
    BY <1>1
  <2>2. /\ IsFiniteSet(1..Len(list))
        /\ Cardinality(1..Len(list)) = IF 1 > Len(list) THEN 0 ELSE Len(list) - 1 + 1
    BY <2>1, FS_Interval
  <2> QED
    BY <2>1, <2>2
<1> HIDE DEF T
<1>3. IsFiniteSet(T) /\ Cardinality(T) <= Cardinality(1..Len(list))
  BY <1>1, <1>2, FS_Surjection
<1> QED
  BY <1>2, <1>3 DEF T

\* A function on 1..n is a sequence of length n.
LEMMA FunctionIsSeq ==
  ASSUME NEW S, NEW n \in Nat, NEW f \in [1..n -> S]
  PROVE  f \in Seq(S) /\ Len(f) = n
OBVIOUS

\* Articles in any order, each once.
LEMMA InAnyOrder ==
  ASSUME NEW S, NEW f \in Pin!Lists(S)
  PROVE  /\ f \in [1..Cardinality(S) -> S]
         /\ \A i, j \in 1..Cardinality(S) : f[i] = f[j] => i = j
BY PinCounts DEF Pin!Lists, Pin!Injection, Pin!IsInjective

\* What is left of a list, and what is put before it.
LEMMA RestOfList ==
  ASSUME NEW list, TopicList(list), NEW ids \in SUBSET Pinnable, NEW rest \in Pin!Rest(list, ids)
  PROVE  /\ rest \in Seq(Pinnable \ ids) /\ Len(rest) <= TopicLimit
         /\ \A i, j \in 1..Len(rest) : rest[i] = rest[j] => i = j
<1> DEFINE T == {list[i] : i \in DOMAIN list}
<1>1. list \in Seq(Pinnable) /\ Len(list) <= TopicLimit /\ Len(list) \in Nat
  BY DEF TopicList
<1>2. IsFiniteSet(T) /\ Cardinality(T) <= Len(list) /\ T \subseteq Pinnable
  BY <1>1, ListedOnce
<1>3. Pin!Range(list) = T
  BY DEF Pin!Range
<1> HIDE DEF T
<1>4. /\ Cardinality(T \ ids) \in Nat /\ Cardinality(T \ ids) <= Cardinality(T)
      /\ Cardinality(T) \in Nat
  BY <1>2, PinSets
<1>5. rest \in [1..Cardinality(T \ ids) -> T \ ids]
      /\ \A i, j \in 1..Cardinality(T \ ids) : rest[i] = rest[j] => i = j
  <2>1. rest \in Pin!Lists(T \ ids)
    BY <1>3 DEF Pin!Rest
  <2> QED
    BY <2>1, InAnyOrder
<1> PICK n : n = Cardinality(T \ ids)
  OBVIOUS
<1>a. n \in Nat /\ rest \in [1..n -> T \ ids]
  BY <1>4, <1>5
<1>b. rest \in Seq(T \ ids) /\ Len(rest) = n
  BY <1>a, FunctionIsSeq
<1>6. rest \in Seq(T \ ids) /\ Len(rest) = Cardinality(T \ ids)
  BY <1>b
<1>7. rest \in Seq(Pinnable \ ids)
  BY <1>2, <1>6
<1>8. Len(rest) <= TopicLimit
  BY <1>1, <1>2, <1>4, <1>6, CommunityAssumption
<1> QED
  BY <1>5, <1>6, <1>7, <1>8

\* The new list has every article once, and is cut.
LEMMA NewList ==
  ASSUME NEW list, TopicList(list), NEW ids \in SUBSET Pinnable, NEW pin \in BOOLEAN,
         NEW result \in Pin!NewPinned(list, ids, pin)
  PROVE  TopicList(result)
<1>1. CASE ~pin
  <2>1. result \in Pin!Rest(list, ids)
    BY <1>1 DEF Pin!NewPinned
  <2>2. /\ result \in Seq(Pinnable \ ids) /\ Len(result) <= TopicLimit
        /\ \A i, j \in 1..Len(result) : result[i] = result[j] => i = j
    BY <2>1, RestOfList
  <2> QED
    BY <2>2 DEF TopicList
<1>2. CASE pin
  <2>1. PICK new \in Pin!Lists(ids), rest \in Pin!Rest(list, ids) : result = Pin!Cut(new \o rest)
    BY <1>2 DEF Pin!NewPinned
  <2>2. /\ rest \in Seq(Pinnable \ ids) /\ Len(rest) <= TopicLimit
        /\ \A i, j \in 1..Len(rest) : rest[i] = rest[j] => i = j
    BY RestOfList
  <2>3. /\ new \in [1..Cardinality(ids) -> ids]
        /\ \A i, j \in 1..Cardinality(ids) : new[i] = new[j] => i = j
    BY InAnyOrder
  <2>4. Cardinality(ids) \in Nat
    BY PinSets
  <2>5. new \in Seq(ids) /\ Len(new) = Cardinality(ids)
    BY <2>3, <2>4
  <2> PICK all : all = new \o rest
    OBVIOUS
  <2>a. /\ new \in Seq(Pinnable) /\ rest \in Seq(Pinnable)
        /\ Len(new) \in Nat /\ Len(rest) \in Nat
    BY <2>2, <2>5
  <2>b. all \in Seq(Pinnable) /\ Len(all) = Len(new) + Len(rest) /\ Len(all) \in Nat
    BY <2>a
  <2>c. ASSUME NEW i \in 1..Len(all)
        PROVE  all[i] = IF i <= Len(new) THEN new[i] ELSE rest[i - Len(new)]
    BY <2>a, <2>b
  <2>6. /\ all \in Seq(Pinnable) /\ Len(all) = Len(new) + Len(rest) /\ Len(all) \in Nat
        /\ \A i \in 1..Len(all) : all[i] = IF i <= Len(new) THEN new[i] ELSE rest[i - Len(new)]
    BY <2>b, <2>c
  <2>7. ASSUME NEW i \in 1..Len(all), NEW j \in 1..Len(all), all[i] = all[j] PROVE i = j
    <3>1. Len(new) \in Nat /\ Len(rest) \in Nat
      BY <2>2, <2>5
    <3>2. CASE i <= Len(new) /\ j <= Len(new)
      BY <2>3, <2>5, <2>6, <2>7, <3>1, <3>2
    <3>3. CASE i <= Len(new) /\ ~(j <= Len(new))
      <4>1. all[i] \in ids /\ all[j] \in Pinnable \ ids
        BY <2>2, <2>5, <2>6, <3>1, <3>3
      <4> QED
        BY <2>7, <4>1
    <3>4. CASE ~(i <= Len(new)) /\ j <= Len(new)
      <4>1. all[j] \in ids /\ all[i] \in Pinnable \ ids
        BY <2>2, <2>5, <2>6, <3>1, <3>4
      <4> QED
        BY <2>7, <4>1
    <3>5. CASE ~(i <= Len(new)) /\ ~(j <= Len(new))
      <4>1. /\ i - Len(new) \in 1..Len(rest) /\ j - Len(new) \in 1..Len(rest)
            /\ rest[i - Len(new)] = rest[j - Len(new)]
        BY <2>6, <2>7, <3>1, <3>5
      <4>2. i - Len(new) = j - Len(new)
        BY <2>2, <4>1
      <4> QED
        BY <3>1, <4>2
    <3> QED
      BY <3>2, <3>3, <3>4, <3>5
  <2> PICK n : n = IF Len(all) < TopicLimit THEN Len(all) ELSE TopicLimit
    OBVIOUS
  <2>8. n \in 0..Len(all) /\ n <= TopicLimit
    BY <2>6, CommunityAssumption
  <2>9. result = SubSeq(all, 1, n)
    BY <2>1 DEF Pin!Cut
  <2>10. /\ result \in Seq(Pinnable) /\ Len(result) = n
         /\ \A i \in 1..n : result[i] = all[i]
    BY <2>6, <2>8, <2>9
  <2> QED
    BY <2>6, <2>7, <2>8, <2>10 DEF TopicList
<1> QED
  BY <1>1, <1>2

\* The list of a topic channel is written back.
LEMMA PinWriteTopic ==
  ASSUME PinInv, NEW e \in Request, Pin!WriteTopic(e)
  PROVE  PinInv'
<1>1. /\ pinsAsked[e].step = "topic" /\ pinsAsked' = [pinsAsked EXCEPT ![e] = Pin!NoRequest]
      /\ UNCHANGED <<kind, listed, pinned, older, strained>>
      /\ topic' \in Pin!NewPinned(pinsAsked[e].seen, pinsAsked[e].ids, pinsAsked[e].pin)
  BY DEF Pin!WriteTopic
<1>2. /\ TopicList(pinsAsked[e].seen) /\ pinsAsked[e].ids \in SUBSET Pinnable
      /\ pinsAsked[e].pin \in BOOLEAN /\ kind = "topic"
  BY <1>1 DEF PinInv, PinTypes, PinRequest
<1>3. TopicList(topic')
  BY <1>1, <1>2, NewList
<1>4. /\ pinsAsked'[e] = Pin!NoRequest /\ \A o \in Request : o # e => pinsAsked'[o] = pinsAsked[o]
      /\ pinsAsked' \in [Request -> PinRequest]
  BY <1>1, PinIdle DEF PinInv, PinTypes
<1>5. Ages'
  BY <1>1 DEF PinInv, PinTypes, Ages
<1>6. \A o \in Request : /\ TopicList(pinsAsked'[o].seen)
                         /\ pinsAsked'[o].step \in {"idle", "topic"}
  BY <1>2, <1>4, PinIdle DEF PinInv, PinTypes
<1>7. PinTypes'
  BY <1>1, <1>2, <1>3, <1>4, <1>5, <1>6 DEF PinInv, PinTypes, TopicList
<1>8. OneAtWork'
  BY <1>1, <1>2 DEF OneAtWork
<1>9. ASSUME strained = {} PROVE Cardinality(pinned) <= PinAmount /\ \A o \in Request : RoomMade(o)'
  <2>1. RoomMade(e)'
    BY <1>4, PinIdle DEF RoomMade
  <2>2. \A o \in Request : o # e => RoomMade(o)'
    BY <1>1, <1>4, <1>9 DEF PinInv, RoomMade, Wanted
  <2> QED
    BY <1>9, <2>1, <2>2 DEF PinInv
<1> QED
  BY <1>1, <1>7, <1>8, <1>9 DEF PinInv

\* Every action keeps the invariant, and makes room at the expense of the oldest.
LEMMA PinNext == PinInv /\ Pin!Next => PinInv' /\ Pin!OldestGoFirst
<1> SUFFICES ASSUME PinInv, Pin!Next PROVE PinInv' /\ Pin!OldestGoFirst
  OBVIOUS
<1>1. CASE \E e \in Request : Pin!UnpinOldest(e)
  BY <1>1, PinUnpin
<1>2. CASE \A e \in Request : ~Pin!UnpinOldest(e)
  <2>1. Pin!OldestGoFirst
    BY <1>2, PinQuiet
  <2>2. PinInv'
    BY <1>2, PinAsk, PinReadTopic, PinCount, PinFresh, PinFind, PinSet, PinWriteTopic, PinAddRow,
       PinDeleteRow DEF Pin!Next
  <2> QED
    BY <2>1, <2>2
<1> QED
  BY <1>1, <1>2

\* What the invariant says of pins.
LEMMA PinSafe == PinInv => Pin!TypeOK /\ Pin!PinsBounded
<1> SUFFICES ASSUME PinInv PROVE Pin!TypeOK /\ Pin!PinsBounded
  OBVIOUS
<1>1. /\ topic \in Seq(Pinnable) /\ Len(topic) <= TopicLimit
      /\ \A i, j \in 1..Len(topic) : topic[i] = topic[j] => i = j
  BY DEF PinInv, PinTypes, TopicList
<1>2. Pin!IsInjective(topic) /\ Pin!Range(topic) \subseteq Pinnable
  BY <1>1 DEF Pin!IsInjective, Pin!Range
<1>3. Pin!TypeOK
  BY <1>2 DEF PinInv, PinTypes, Ages, Pin!TypeOK
<1>4. strained \cap {"overlap", "repin"} = {} => strained = {}
  BY DEF PinInv, PinTypes
<1> QED
  BY <1>1, <1>3, <1>4, PinCounts DEF PinInv, Pin!PinsBounded

-----------------------------------------------------------------------------
(* Collection: the orders of the articles in a collection.                   *)

CollMove == [article: Article, to: Nat]
CollRequest ==
  [step: {"idle", "max", "insert", "move", "answer"}, list: Seq(Article),
   orders: Seq(Nat), moves: Seq(CollMove), wanted: Seq(Article), next: Nat]

\* Everything in a sequence, and that nothing is twice in it.
Elements(s) == {s[i] : i \in 1..Len(s)}
Once(s) == \A i, j \in 1..Len(s) : s[i] = s[j] => i = j

CollTypes ==
  /\ DOMAIN orders \subseteq Article /\ orders \in [DOMAIN orders -> Nat]
  /\ DOMAIN replica \subseteq Article /\ replica \in [DOMAIN replica -> Nat]
  /\ active \subseteq Article
  /\ slips \subseteq {"overlap", "outdated", "too_fine", "returned"}
  /\ ordering \in [Request -> CollRequest]

\* What a request has to do is about the list it holds, which is the one wanted.
Consistent(q) ==
  /\ Once(q.list)
  /\ q.step \in {"move", "answer"} => q.wanted = q.list /\ Len(q.orders) = Len(q.list)
  /\ q.step = "move" => q.moves # <<>>
  /\ \A k \in 1..Len(q.moves) :
       q.moves[k].article \in Elements(q.list) /\ q.moves[k].to \in 1..Len(q.list)

\* The articles shown in the collection.
Shown == DOMAIN orders \cap active

\* There is room for what a request is about to insert.
RoomLeft ==
  slips \cap {"overlap", "outdated", "returned"} = {} =>
    /\ Cardinality(Shown) <= Limit
    /\ \A r \in Request : ordering[r].step \in {"max", "insert"} =>
         Cardinality(Shown) + Len(ordering[r].list) <= Limit

\* What a request holds is what the table says, from the highest order down.
AsTable(q) ==
  /\ Elements(q.list) = Shown
  /\ \A i \in 1..Len(q.list) : q.orders[i] = orders[q.list[i]]
  /\ \A i, j \in 1..Len(q.list) : i < j => q.orders[i] > q.orders[j]

(* No two articles shown have one order; what is inserted goes on top. *)
Told ==
  slips = {} =>
    /\ \A a, b \in Shown : orders[a] = orders[b] => a = b
    /\ \A r \in Request :
         /\ ordering[r].step = "insert" =>
              \A a \in DOMAIN orders : orders[a] < ordering[r].next
         /\ ordering[r].step \in {"move", "answer"} => AsTable(ordering[r])

CollInv ==
  /\ CollTypes
  /\ \A r \in Request : Consistent(ordering[r])
  /\ "overlap" \notin slips =>
       \A r, o \in Request : ordering[r].step # "idle" /\ ordering[o].step # "idle" => r = o
  /\ RoomLeft /\ Told

\* Sets of articles are finite, the smaller the fewer.
LEMMA CollSets ==
  /\ \A S : S \subseteq Article => IsFiniteSet(S) /\ Cardinality(S) \in Nat
  /\ \A S, T : S \subseteq T /\ T \subseteq Article => Cardinality(S) <= Cardinality(T)
<1>1. \A S : S \subseteq Article => IsFiniteSet(S) /\ Cardinality(S) \in Nat
  BY CommunityAssumption, FS_Subset, FS_CardinalityType
<1> QED
  BY <1>1, FS_Subset

\* Multiples of the unit are as far apart as what they are multiples of.
LEMMA UnitTimes ==
  \A i, j \in Nat : Unit * i \in Nat /\ (i < j => Unit * i < Unit * j)
<1> TAKE i, j \in Nat
<1>1. Unit \in Nat /\ Unit >= 1
  BY CommunityAssumption
<1>2. Unit * i \in Nat /\ Unit * j \in Nat
  BY <1>1
<1>3. ASSUME i < j PROVE Unit * i < Unit * j
  <2> PICK d \in Nat : d = j - i
    BY <1>3
  <2>1. d >= 1 /\ j = i + d
    BY <1>3
  <2>2. Unit * (i + d) = Unit * i + Unit * d
    BY <1>1
  <2>3. Unit * d >= 1
    <3>1. Unit * d >= Unit
      BY <1>1, <2>1
    <3> QED
      BY <1>1, <3>1
  <2>4. Unit * d \in Nat
    BY <1>1
  <2>5. Unit * j = Unit * i + Unit * d
    BY <2>1, <2>2
  <2> QED
    BY <1>2, <2>3, <2>4, <2>5
<1> QED
  BY <1>2, <1>3

\* A sequence has as many elements as places, or fewer.
LEMMA ElementsCount ==
  ASSUME NEW S, NEW s \in Seq(S)
  PROVE  /\ Elements(s) \subseteq S /\ IsFiniteSet(Elements(s))
         /\ Len(s) \in Nat /\ Cardinality(Elements(s)) \in Nat
         /\ Cardinality(Elements(s)) <= Len(s)
         /\ Once(s) => Cardinality(Elements(s)) = Len(s)
<1> PICK T : T = Elements(s)
  OBVIOUS
<1> PICK n : n = Len(s)
  OBVIOUS
<1>1. s \in Surjection(1..n, T) /\ n \in Nat /\ T \subseteq S
  BY DEF Surjection, Elements
<1>2. IsFiniteSet(1..n) /\ Cardinality(1..n) = n
  <2>1. 1 \in Int /\ n \in Int /\ (1 > n => n = 0) /\ n - 1 + 1 = n
    BY <1>1
  <2>2. IsFiniteSet(1..n) /\ Cardinality(1..n) = IF 1 > n THEN 0 ELSE n - 1 + 1
    BY <2>1, FS_Interval
  <2> QED
    BY <2>1, <2>2
<1>3. /\ IsFiniteSet(T) /\ Cardinality(T) <= Cardinality(1..n)
      /\ Cardinality(T) = Cardinality(1..n) <=> s \in Injection(1..n, T)
  BY <1>1, <1>2, FS_Surjection
<1>4. Once(s) => s \in Injection(1..n, T)
  BY <1>1 DEF Once, Injection, Surjection, IsInjective
<1>5. Cardinality(T) \in Nat
  BY <1>3, FS_CardinalityType
<1> QED
  BY <1>1, <1>2, <1>3, <1>4, <1>5

\* One sequence after another.
LEMMA Joined ==
  ASSUME NEW S, NEW s \in Seq(S), NEW t \in Seq(S)
  PROVE  /\ s \o t \in Seq(S) /\ Len(s \o t) = Len(s) + Len(t)
         /\ \A i \in 1..(Len(s) + Len(t)) :
              (s \o t)[i] = IF i <= Len(s) THEN s[i] ELSE t[i - Len(s)]
OBVIOUS

\* The same, by what the lengths are.
LEMMA JoinedAt ==
  ASSUME NEW S, NEW s \in Seq(S), NEW t \in Seq(S), NEW m \in Nat, NEW n \in Nat,
         Len(s) = m, Len(t) = n
  PROVE  /\ s \o t \in Seq(S) /\ Len(s \o t) = m + n
         /\ \A i \in 1..(m + n) : (s \o t)[i] = IF i <= m THEN s[i] ELSE t[i - m]
BY Joined

\* A sequence up to a position, and from one on.
LEMMA Parts ==
  ASSUME NEW S, NEW s \in Seq(S), NEW m \in 0..Len(s)
  PROVE  /\ SubSeq(s, 1, m) \in Seq(S) /\ Len(SubSeq(s, 1, m)) = m
         /\ \A i \in 1..m : SubSeq(s, 1, m)[i] = s[i]
         /\ SubSeq(s, m + 1, Len(s)) \in Seq(S) /\ Len(SubSeq(s, m + 1, Len(s))) = Len(s) - m
         /\ \A i \in 1..(Len(s) - m) : SubSeq(s, m + 1, Len(s))[i] = s[m + i]
<1>1. Len(s) \in Nat
  OBVIOUS
<1>2. /\ SubSeq(s, 1, m) \in Seq(S) /\ Len(SubSeq(s, 1, m)) = m
      /\ \A i \in 1..m : SubSeq(s, 1, m)[i] = s[i]
  BY <1>1
<1>3. /\ SubSeq(s, m + 1, Len(s)) \in Seq(S) /\ Len(SubSeq(s, m + 1, Len(s))) = Len(s) - m
      /\ \A i \in 1..(Len(s) - m) : SubSeq(s, m + 1, Len(s))[i] = s[m + i]
  BY <1>1
<1> QED
  BY <1>2, <1>3

\* A sequence without its element at one position.
LEMMA Removed ==
  ASSUME NEW S, NEW s \in Seq(S), NEW from \in 1..Len(s)
  PROVE  /\ Coll!RemoveAt(s, from) \in Seq(S) /\ Len(s) \in Nat
         /\ Len(Coll!RemoveAt(s, from)) = Len(s) - 1
         /\ \A i \in 1..(Len(s) - 1) :
              Coll!RemoveAt(s, from)[i] = IF i < from THEN s[i] ELSE s[i + 1]
<1>1. /\ Len(s) \in Nat /\ from - 1 \in 0..Len(s) /\ from \in 0..Len(s)
      /\ from - 1 \in Nat /\ Len(s) - from \in Nat
  OBVIOUS
<1>b. PICK below : below = SubSeq(s, 1, from - 1)
  OBVIOUS
<1>a. PICK above : above = SubSeq(s, from + 1, Len(s))
  OBVIOUS
<1>2. /\ below \in Seq(S) /\ Len(below) = from - 1
      /\ \A i \in 1..(from - 1) : below[i] = s[i]
  BY <1>1, <1>b, Parts
<1>3. /\ above \in Seq(S) /\ Len(above) = Len(s) - from
      /\ \A i \in 1..(Len(s) - from) : above[i] = s[from + i]
  BY <1>1, <1>a, Parts
<1>l. PICK all : all = Coll!RemoveAt(s, from)
  OBVIOUS
<1>4. all = below \o above
  BY <1>a, <1>b, <1>l DEF Coll!RemoveAt
<1>m. PICK m \in Nat, n \in Nat : m = from - 1 /\ n = Len(s) - from
  BY <1>1
<1>5. /\ all \in Seq(S) /\ Len(all) = m + n
      /\ \A i \in 1..(m + n) : all[i] = IF i <= m THEN below[i] ELSE above[i - m]
  <2>1. below \in Seq(S) /\ above \in Seq(S) /\ Len(below) = m /\ Len(above) = n
    BY <1>2, <1>3, <1>m
  <2> QED
    <3>1. below \o above \in Seq(S) /\ Len(below \o above) = Len(below) + Len(above)
      BY <2>1, Joined
    <3>2. ASSUME NEW i \in 1..(m + n)
          PROVE  (below \o above)[i] = IF i <= m THEN below[i] ELSE above[i - m]
      BY <2>1, <1>m
    <3> QED
      BY <1>4, <2>1, <3>1, <3>2
<1>6. /\ Len(all) = Len(s) - 1
      /\ \A i \in 1..(Len(s) - 1) :
           all[i] = IF i <= from - 1 THEN below[i] ELSE above[i - (from - 1)]
  <2>1. m + n = Len(s) - 1 /\ m = from - 1
    BY <1>1, <1>m
  <2> QED
    BY <1>5, <2>1
<1>7. ASSUME NEW i \in 1..(Len(s) - 1) PROVE all[i] = IF i < from THEN s[i] ELSE s[i + 1]
  <2>1. CASE i < from
    BY <1>1, <1>2, <1>6, <2>1
  <2>2. CASE ~(i < from)
    <3>1. i - (from - 1) \in 1..(Len(s) - from) /\ from + (i - (from - 1)) = i + 1
      BY <1>1, <2>2
    <3>2. all[i] = above[i - (from - 1)]
      BY <1>1, <1>6, <2>2
    <3> QED
      BY <1>3, <2>2, <3>1, <3>2
  <2> QED
    BY <2>1, <2>2
<1> QED
  BY <1>1, <1>5, <1>6, <1>7, <1>l

\* A sequence with one more element.
LEMMA Inserted ==
  ASSUME NEW S, NEW s \in Seq(S), NEW to \in 1..(Len(s) + 1), NEW e \in S
  PROVE  /\ Coll!InsertAt(s, to, e) \in Seq(S) /\ Len(s) \in Nat
         /\ Len(Coll!InsertAt(s, to, e)) = Len(s) + 1
         /\ \A i \in 1..(Len(s) + 1) :
              Coll!InsertAt(s, to, e)[i]
                = IF i = to THEN e ELSE IF i < to THEN s[i] ELSE s[i - 1]
<1>1. /\ Len(s) \in Nat /\ to - 1 \in 0..Len(s) /\ (to - 1) + 1 = to
      /\ to - 1 \in Nat /\ to \in Nat /\ Len(s) - (to - 1) \in Nat
  OBVIOUS
<1>b. PICK below : below = SubSeq(s, 1, to - 1)
  OBVIOUS
<1>a. PICK above : above = SubSeq(s, to, Len(s))
  OBVIOUS
<1>2. /\ below \in Seq(S) /\ Len(below) = to - 1
      /\ \A i \in 1..(to - 1) : below[i] = s[i]
  BY <1>1, <1>b, Parts
<1>3. /\ above \in Seq(S) /\ Len(above) = Len(s) - (to - 1)
      /\ \A i \in 1..(Len(s) - (to - 1)) : above[i] = s[(to - 1) + i]
  <2>m. PICK m : m = to - 1
    OBVIOUS
  <2>1. m \in 0..Len(s) /\ m + 1 = to
    BY <1>1, <2>m
  <2>2. above = SubSeq(s, m + 1, Len(s))
    BY <1>a, <2>1
  <2>3. /\ above \in Seq(S) /\ Len(above) = Len(s) - m
        /\ \A i \in 1..(Len(s) - m) : above[i] = s[m + i]
    BY <2>1, <2>2, Parts
  <2> QED
    BY <2>3, <2>m
<1>o. PICK one : one = <<e>>
  OBVIOUS
<1>4. one \in Seq(S) /\ Len(one) = 1 /\ one[1] = e
  BY <1>o
<1>h. PICK half : half = below \o one
  OBVIOUS
<1>k. PICK k \in Nat : k = to - 1
  BY <1>1
<1>5. /\ half \in Seq(S) /\ Len(half) = k + 1
      /\ \A i \in 1..(k + 1) : half[i] = IF i <= k THEN below[i] ELSE one[i - k]
  <2>1. below \in Seq(S) /\ one \in Seq(S) /\ Len(below) = k /\ Len(one) = 1
    BY <1>2, <1>4, <1>k
  <2>2. half \in Seq(S) /\ Len(half) = k + 1
    <3>1. below \o one \in Seq(S)
      BY <2>1
    <3>2. Len(below \o one) = Len(below) + Len(one)
      BY <2>1, Joined
    <3> QED
      BY <2>1, <3>1, <3>2, <1>h
  <2>3. ASSUME NEW i \in 1..(k + 1) PROVE half[i] = IF i <= k THEN below[i] ELSE one[i - k]
    BY <2>1, <1>h, <1>k
  <2> QED
    BY <2>2, <2>3
<1>6. /\ half \in Seq(S) /\ Len(half) = to
      /\ \A i \in 1..to : half[i] = IF i < to THEN s[i] ELSE e
  <2>1. ASSUME NEW i \in 1..to PROVE half[i] = IF i < to THEN s[i] ELSE e
    <3>1. CASE i < to
      BY <1>1, <1>2, <1>5, <1>k, <3>1
    <3>2. CASE i = to
      <4>1. i - k = 1 /\ ~(i <= k) /\ i \in 1..(k + 1)
        BY <1>1, <1>k, <3>2
      <4> QED
        BY <1>4, <1>5, <3>2, <4>1
    <3> QED
      BY <1>1, <3>1, <3>2
  <2> QED
    BY <1>1, <1>5, <1>k, <2>1
<1>l. PICK all : all = Coll!InsertAt(s, to, e)
  OBVIOUS
<1>7. all = half \o above
  BY <1>a, <1>b, <1>h, <1>l, <1>o DEF Coll!InsertAt
<1>m. PICK n \in Nat : n = Len(s) - (to - 1)
  BY <1>1
<1>8. /\ all \in Seq(S) /\ Len(all) = to + n
      /\ \A i \in 1..(to + n) : all[i] = IF i <= to THEN half[i] ELSE above[i - to]
  <2>1. half \in Seq(S) /\ above \in Seq(S) /\ Len(half) = to /\ Len(above) = n
    BY <1>3, <1>6, <1>m
  <2>2. to \in Nat
    BY <1>1
  <2> QED
    <3>1. half \o above \in Seq(S) /\ Len(half \o above) = to + n
      BY <2>1, <2>2, <1>m
    <3>2. ASSUME NEW i \in 1..(to + n)
          PROVE  (half \o above)[i] = IF i <= to THEN half[i] ELSE above[i - to]
      BY <2>1, <2>2, <1>m
    <3> QED
      BY <1>7, <3>1, <3>2
<1>9. /\ Len(all) = Len(s) + 1
      /\ \A i \in 1..(Len(s) + 1) : all[i] = IF i <= to THEN half[i] ELSE above[i - to]
  BY <1>1, <1>8, <1>m
<1>10. ASSUME NEW i \in 1..(Len(s) + 1)
       PROVE  all[i] = IF i = to THEN e ELSE IF i < to THEN s[i] ELSE s[i - 1]
  <2>1. CASE i <= to
    BY <1>1, <1>6, <1>9, <2>1
  <2>2. CASE i > to
    <3>1. i - to \in 1..(Len(s) - (to - 1)) /\ (to - 1) + (i - to) = i - 1
      BY <1>1, <2>2
    <3>2. all[i] = above[i - to]
      BY <1>1, <1>9, <2>2
    <3> QED
      BY <1>1, <1>3, <2>2, <3>1, <3>2
  <2> QED
    BY <1>1, <2>1, <2>2
<1> QED
  BY <1>1, <1>8, <1>9, <1>10, <1>l

\* Where in the sequence the element comes from that a move puts at position i.
Slot(i, from, to) ==
  LET j == IF i < to THEN i ELSE i - 1 IN
  IF i = to THEN from ELSE IF j < from THEN j ELSE j + 1

\* A move permutes the positions ...
LEMMA SlotIn ==
  ASSUME NEW n \in Nat, NEW from \in 1..n, NEW to \in 1..n
  PROVE  \A i \in 1..n : Slot(i, from, to) \in 1..n
BY DEF Slot

\* Every element has a place after a move ...
LEMMA SlotOnto ==
  ASSUME NEW n \in Nat, NEW from \in 1..n, NEW to \in 1..n
  PROVE  \A k \in 1..n : \E i \in 1..n : Slot(i, from, to) = k
<1> TAKE k \in 1..n
<1>1. Slot(k, to, from) \in 1..n
  BY DEF Slot
<1>2. Slot(Slot(k, to, from), from, to) = k
  BY DEF Slot
<1> QED
  BY <1>1, <1>2

\* ... of its own ...
LEMMA SlotOnce ==
  ASSUME NEW n \in Nat, NEW from \in 1..n, NEW to \in 1..n, NEW i \in 1..n, NEW j \in 1..n,
         Slot(i, from, to) = Slot(j, from, to)
  PROVE  i = j
BY DEF Slot

\* ... and keeps the order of all but one.
LEMMA SlotRises ==
  ASSUME NEW n \in Nat, NEW from \in 1..n, NEW to \in 1..n, NEW i \in 1..n, NEW j \in 1..n,
         i # to, j # to, i < j
  PROVE  Slot(i, from, to) < Slot(j, from, to)
BY DEF Slot

\* It changes none of them if it leads nowhere.
LEMMA SlotStays ==
  ASSUME NEW n \in Nat, NEW from \in 1..n, NEW i \in 1..n
  PROVE  Slot(i, from, from) = i
BY DEF Slot

\* A sequence over a set after an element of it was moved.
MoveIn(S, s, from, to, moved) ==
  /\ s \in Seq(S) /\ from \in 1..Len(s) /\ to \in 1..Len(s)
  /\ moved = Coll!Moved(s, from, to)

\* What is at every position after a move.
LEMMA MovedSlots ==
  ASSUME NEW S, NEW s, NEW from, NEW to, NEW moved, MoveIn(S, s, from, to, moved)
  PROVE  /\ moved \in Seq(S) /\ Len(moved) = Len(s)
         /\ \A i \in 1..Len(s) : moved[i] = s[Slot(i, from, to)]
<1>t. s \in Seq(S) /\ from \in 1..Len(s) /\ to \in 1..Len(s)
  BY DEF MoveIn
<1>m. moved = Coll!Moved(s, from, to)
  BY DEF MoveIn
<1>r. PICK rest : rest = Coll!RemoveAt(s, from)
  OBVIOUS
<1>1. /\ rest \in Seq(S) /\ Len(s) \in Nat /\ Len(rest) = Len(s) - 1
      /\ \A i \in 1..(Len(s) - 1) : rest[i] = IF i < from THEN s[i] ELSE s[i + 1]
  BY <1>r, <1>t, Removed
<1>e. PICK e : e = s[from]
  OBVIOUS
<1>2. to \in 1..(Len(rest) + 1) /\ e \in S
  BY <1>1, <1>e, <1>t
<1>3. moved = Coll!InsertAt(rest, to, e)
  BY <1>e, <1>m, <1>r DEF Coll!Moved
<1>4. /\ moved \in Seq(S) /\ Len(moved) = Len(rest) + 1
      /\ \A i \in 1..(Len(rest) + 1) :
           moved[i] = IF i = to THEN e ELSE IF i < to THEN rest[i] ELSE rest[i - 1]
  <2>1. rest \in Seq(S)
    BY <1>1
  <2>2. Len(moved) = Len(rest) + 1 /\ moved \in Seq(S)
    BY <2>1, <1>2, <1>3, Inserted
  <2>3. \A i \in 1..(Len(rest) + 1) :
          moved[i] = IF i = to THEN e ELSE IF i < to THEN rest[i] ELSE rest[i - 1]
    BY <2>1, <1>2, <1>3, Inserted
  <2> QED
    BY <2>2, <2>3
<1>5. Len(moved) = Len(s) /\ Len(rest) + 1 = Len(s)
  BY <1>1, <1>4
<1>6. ASSUME NEW i \in 1..Len(s) PROVE moved[i] = s[Slot(i, from, to)]
  <2>1. moved[i] = IF i = to THEN s[from] ELSE IF i < to THEN rest[i] ELSE rest[i - 1]
    BY <1>4, <1>5, <1>e
  <2>2. CASE i = to
    BY <2>1, <2>2 DEF Slot
  <2>3. CASE i < to
    <3>1. rest[i] = IF i < from THEN s[i] ELSE s[i + 1]
      BY <1>1, <1>t, <2>3
    <3> QED
      BY <1>1, <1>t, <2>1, <2>3, <3>1 DEF Slot
  <2>4. CASE i > to
    <3>1. rest[i - 1] = IF i - 1 < from THEN s[i - 1] ELSE s[(i - 1) + 1]
      BY <1>1, <1>t, <2>4
    <3> QED
      BY <1>1, <1>t, <2>1, <2>4, <3>1 DEF Slot
  <2> QED
    BY <1>1, <1>t, <2>2, <2>3, <2>4
<1> QED
  BY <1>4, <1>5, <1>6, <1>m

\* A move keeps what is in a sequence, and changes nothing if it leads nowhere.
LEMMA MovedSame ==
  ASSUME NEW S, NEW s, NEW from, NEW to, NEW moved, MoveIn(S, s, from, to, moved)
  PROVE  /\ Elements(moved) = Elements(s)
         /\ Once(s) => Once(moved)
         /\ from = to => moved = s
<1>m. s \in Seq(S) /\ from \in 1..Len(s) /\ to \in 1..Len(s)
  BY DEF MoveIn
<1>n. PICK n \in Nat : n = Len(s)
  BY <1>m
<1>1. /\ moved \in Seq(S) /\ Len(moved) = n
      /\ \A i \in 1..n : moved[i] = s[Slot(i, from, to)]
  BY <1>n, MovedSlots
<1>2. /\ \A i \in 1..n : Slot(i, from, to) \in 1..n
      /\ \A k \in 1..n : \E i \in 1..n : Slot(i, from, to) = k
      /\ \A i, j \in 1..n : Slot(i, from, to) = Slot(j, from, to) => i = j
      /\ from = to => \A i \in 1..n : Slot(i, from, to) = i
  <2>1. n \in Nat /\ from \in 1..n /\ to \in 1..n
    BY <1>m, <1>n
  <2>2. \A i \in 1..n : Slot(i, from, to) \in 1..n
    BY <2>1, SlotIn
  <2>3. \A k \in 1..n : \E i \in 1..n : Slot(i, from, to) = k
    BY <2>1, SlotOnto
  <2>4. \A i, j \in 1..n : Slot(i, from, to) = Slot(j, from, to) => i = j
    BY <2>1, SlotOnce
  <2>5. from = to => \A i \in 1..n : Slot(i, from, to) = i
    BY <2>1, SlotStays
  <2> QED
    BY <2>2, <2>3, <2>4, <2>5
<1>3. Elements(moved) = Elements(s)
  <2>1. ASSUME NEW i \in 1..n PROVE moved[i] \in {s[k] : k \in 1..n}
    BY <1>1, <1>2
  <2>2. ASSUME NEW k \in 1..n PROVE s[k] \in {moved[i] : i \in 1..n}
    <3>1. PICK i \in 1..n : Slot(i, from, to) = k
      BY <1>2
    <3> QED
      BY <1>1, <3>1
  <2>3. {moved[i] : i \in 1..n} = {s[k] : k \in 1..n}
    BY <2>1, <2>2
  <2> QED
    BY <2>3, <1>1, <1>n DEF Elements
<1>4. ASSUME Once(s) PROVE Once(moved)
  <2> SUFFICES ASSUME NEW i \in 1..n, NEW j \in 1..n, moved[i] = moved[j] PROVE i = j
    BY <1>1 DEF Once
  <2>1. s[Slot(i, from, to)] = s[Slot(j, from, to)]
    BY <1>1
  <2>2. Slot(i, from, to) = Slot(j, from, to)
    <3>1. Slot(i, from, to) \in 1..Len(s) /\ Slot(j, from, to) \in 1..Len(s)
      BY <1>2, <1>n
    <3> QED
      BY <1>4, <2>1, <3>1 DEF Once
  <2> QED
    BY <1>2, <2>2
<1>5. from = to => moved = s
  <2> SUFFICES ASSUME from = to PROVE moved = s
    OBVIOUS
  <2>1. \A i \in 1..n : moved[i] = s[i]
    BY <1>1, <1>2
  <2>2. moved \in [1..n -> S] /\ s \in [1..n -> S]
    BY <1>1, <1>m, <1>n
  <2> QED
    BY <2>1, <2>2
<1> QED
  BY <1>3, <1>4, <1>5

\* Half of a sum is between its terms.
LEMMA Halves ==
  \A x, y \in Nat : /\ x \div 2 \in Nat /\ x \div 2 <= x
                    /\ (x + y) \div 2 \in Nat
                    /\ x <= y => x <= (x + y) \div 2 /\ (x + y) \div 2 <= y
OBVIOUS

Descending(h) == \A i, j \in 1..Len(h) : i < j => h[i] > h[j]

\* The order an article is given, and the orders held once it is in its place.
MoveOf(h, from, to, new, held) ==
  new = Coll!NewOrder(h, from, to) /\ held = Coll!Moved([h EXCEPT ![from] = new], from, to)

\* The order an article is given is between those of its new neighbours, so that
\* the list stays in descending order unless it is that of one of them.
LEMMA MovedDescends ==
  ASSUME NEW h \in Seq(Nat), NEW from \in 1..Len(h), NEW to \in 1..Len(h), from # to,
         Descending(h), NEW new, NEW held, MoveOf(h, from, to, new, held)
  PROVE  /\ held[to] = new
         /\ \A i \in 1..Len(h) : i # to => held[i] = h[Slot(i, from, to)]
         /\ (\A i \in 1..Len(h) : i # to => held[i] # new) => Descending(held)
<1>0. new = Coll!NewOrder(h, from, to) /\ held = Coll!Moved([h EXCEPT ![from] = new], from, to)
  BY DEF MoveOf
<1>n. PICK n \in Nat : n = Len(h)
  OBVIOUS
<1>1. /\ from \in 1..n /\ to \in 1..n /\ n >= 2
      /\ \A i \in 1..n : h[i] \in Nat
      /\ \A i, j \in 1..n : i <= j => h[i] >= h[j]
  <2>1. from \in 1..n /\ to \in 1..n /\ \A i \in 1..n : h[i] \in Nat
    BY <1>n
  <2>2. \A i, j \in 1..n : i <= j => h[i] >= h[j]
    BY <1>n, <2>1 DEF Descending
  <2> QED
    BY <2>1, <2>2, <1>n
\* What is left and right of the new place.
<1>2. ASSUME NEW i \in 1..n, i # to
      PROVE  /\ Slot(i, from, to) \in 1..n
             /\ to = 1 => new >= h[Slot(i, from, to)]
             /\ to = n => new <= h[Slot(i, from, to)]
  <2>1. Slot(i, from, to) \in 1..n
    BY <1>1, SlotIn
  <2>2. CASE to = 1
    <3>1. new = h[1] + Unit
      BY <1>0, <2>2 DEF Coll!NewOrder
    <3>2. h[1] >= h[Slot(i, from, to)] /\ h[1] \in Nat /\ h[Slot(i, from, to)] \in Nat
      BY <1>1, <2>1
    <3> QED
      BY <1>1, <2>1, <2>2, <3>1, <3>2, CommunityAssumption
  <2>3. CASE to = n
    <3>1. new = h[n] \div 2
      BY <1>0, <1>1, <1>n, <2>3 DEF Coll!NewOrder
    <3>2. h[n] <= h[Slot(i, from, to)] /\ h[n] \in Nat /\ h[Slot(i, from, to)] \in Nat
      BY <1>1, <2>1
    <3>3. h[n] \div 2 \in Nat /\ h[n] \div 2 <= h[n]
      BY <3>2, Halves
    <3> QED
      BY <1>1, <2>1, <2>3, <3>1, <3>2, <3>3, SMTT(20)
  <2> QED
    BY <2>1, <2>2, <2>3
<1>3. ASSUME 1 < to, to < n
      PROVE  /\ new \in Nat
             /\ \A i \in 1..n : /\ i < to => new <= h[Slot(i, from, to)]
                                /\ i > to => new >= h[Slot(i, from, to)]
  <2>r. PICK rest : rest = Coll!RemoveAt(h, from)
    OBVIOUS
  <2>1. \A i \in 1..(n - 1) : rest[i] = IF i < from THEN h[i] ELSE h[i + 1]
    BY <1>n, <2>r, Removed
  <2>0. /\ to - 1 \in 1..n /\ to + 1 \in 1..n /\ from \in 1..n /\ to \in 1..n
    BY <1>1, <1>3
  <2>a. PICK left \in 1..n : left = Slot(to - 1, from, to)
    BY <2>0, SlotIn
  <2>b. PICK right \in 1..n : right = Slot(to + 1, from, to)
    BY <2>0, SlotIn
  <2>2. rest[to - 1] = h[left]
    BY <1>1, <1>3, <2>1, <2>a DEF Slot
  <2>3. rest[to] = h[right]
    BY <1>1, <1>3, <2>1, <2>b DEF Slot
  <2>4. new = (h[right] + h[left]) \div 2
    <3>1. new = Coll!Between(rest, to)
      BY <1>0, <1>3, <1>n, <2>r DEF Coll!NewOrder
    <3> QED
      BY <2>2, <2>3, <3>1 DEF Coll!Between
  <2>5. left < right
    BY <1>1, <1>3, <2>a, <2>b DEF Slot
  <2>6. h[left] \in Nat /\ h[right] \in Nat /\ h[right] <= h[left]
    BY <1>1, <2>5
  <2>7. new \in Nat /\ h[right] <= new /\ new <= h[left]
    BY <2>4, <2>6, Halves
  <2>8. ASSUME NEW i \in 1..n, i < to PROVE new <= h[Slot(i, from, to)]
    <3>1. Slot(i, from, to) \in 1..n /\ Slot(i, from, to) <= left
      BY <1>1, <1>3, <2>8, <2>a DEF Slot
    <3>2. h[Slot(i, from, to)] \in Nat /\ h[left] <= h[Slot(i, from, to)]
      BY <1>1, <3>1
    <3> QED
      BY <2>6, <2>7, <3>2
  <2>9. ASSUME NEW i \in 1..n, i > to PROVE new >= h[Slot(i, from, to)]
    <3>1. Slot(i, from, to) \in 1..n /\ right <= Slot(i, from, to)
      BY <1>1, <1>3, <2>9, <2>b DEF Slot
    <3>2. h[Slot(i, from, to)] \in Nat /\ h[Slot(i, from, to)] <= h[right]
      BY <1>1, <3>1
    <3> QED
      BY <2>6, <2>7, <3>2
  <2> QED
    BY <2>7, <2>8, <2>9
<1>4. new \in Nat
  <2>1. CASE to = 1
    BY <1>0, <1>1, <2>1, CommunityAssumption DEF Coll!NewOrder
  <2>2. CASE to = n /\ to # 1
    <3>1. new = h[n] \div 2 /\ h[n] \in Nat
      BY <1>0, <1>1, <1>n, <2>2 DEF Coll!NewOrder
    <3> QED
      BY <3>1, Halves
  <2> QED
    BY <1>1, <1>3, <2>1, <2>2
<1>5. ASSUME NEW i \in 1..n
      PROVE  /\ i < to => new <= h[Slot(i, from, to)]
             /\ i > to => new >= h[Slot(i, from, to)]
  <2>1. CASE to = 1
    BY <1>1, <1>2, <2>1
  <2>2. CASE to = n
    BY <1>1, <1>2, <2>2
  <2>3. CASE 1 < to /\ to < n
    BY <1>3, <2>3
  <2> QED
    BY <1>1, <2>1, <2>2, <2>3
<1>6. /\ held[to] = new
      /\ \A i \in 1..n : i # to => held[i] = h[Slot(i, from, to)]
      /\ (\A i \in 1..n : i # to => held[i] # new) => Descending(held)
  <2>h. PICK g : g = [h EXCEPT ![from] = new]
    OBVIOUS
  <2>1. /\ g \in Seq(Nat) /\ Len(g) = n /\ g[from] = new
        /\ \A i \in 1..n : i # from => g[i] = h[i]
    BY <1>1, <1>4, <1>n, <2>h
  <2>2. /\ held \in Seq(Nat) /\ Len(held) = n
        /\ \A i \in 1..n : held[i] = g[Slot(i, from, to)]
    <3>1. MoveIn(Nat, g, from, to, held)
      BY <1>0, <1>1, <2>1, <2>h DEF MoveIn
    <3>2. /\ held \in Seq(Nat) /\ Len(held) = Len(g)
          /\ \A i \in 1..Len(g) : held[i] = g[Slot(i, from, to)]
      BY <3>1, MovedSlots
    <3> QED
      BY <2>1, <3>2
  <2>3. held[to] = new
    BY <1>1, <2>1, <2>2 DEF Slot
  <2>4. \A i \in 1..n : i # to => Slot(i, from, to) # from /\ Slot(i, from, to) \in 1..n
    BY <1>1 DEF Slot
  <2>5. \A i \in 1..n : i # to => held[i] = h[Slot(i, from, to)]
    BY <2>1, <2>2, <2>4
  <2>6. ASSUME \A i \in 1..n : i # to => held[i] # new,
               NEW i \in 1..n, NEW j \in 1..n, i < j
        PROVE  held[i] > held[j]
    <3>1. held[i] \in Nat /\ held[j] \in Nat
      <4>1. \A x \in 1..Len(held) : held[x] \in Nat
        BY <2>2
      <4> QED
        BY <2>2, <4>1
    <3>2. CASE i = to
      <4>1. held[j] = h[Slot(j, from, to)] /\ held[j] # new /\ new >= h[Slot(j, from, to)]
        BY <1>1, <1>5, <2>5, <2>6, <3>2
      <4> QED
        BY <1>4, <2>3, <3>1, <3>2, <4>1
    <3>3. CASE j = to
      <4>1. held[i] = h[Slot(i, from, to)] /\ held[i] # new /\ new <= h[Slot(i, from, to)]
        BY <1>1, <1>5, <2>5, <2>6, <3>3
      <4> QED
        BY <1>4, <2>3, <3>1, <3>3, <4>1
    <3>4. CASE i # to /\ j # to
      <4>1. Slot(i, from, to) < Slot(j, from, to)
        BY <1>1, <2>6, <3>4, SlotRises
      <4>2. Slot(i, from, to) \in 1..n /\ Slot(j, from, to) \in 1..n
        BY <2>4, <3>4
      <4>3. h[Slot(i, from, to)] > h[Slot(j, from, to)]
        BY <1>n, <4>1, <4>2 DEF Descending
      <4> QED
        BY <2>5, <3>4, <4>3
    <3> QED
      BY <3>2, <3>3, <3>4
  <2> QED
    BY <2>2, <2>3, <2>5, <2>6 DEF Descending
<1> QED
  BY <1>6, <1>n

\* A non-empty set of numbers has a least one.
LEMMA Least ==
  ASSUME NEW T \in SUBSET Nat, T # {}
  PROVE  \E n \in T : \A m \in T : n <= m
<1> DEFINE R == {ss \in Nat \X Nat : ss[1] < ss[2]}
<1>1. IsWellFoundedOn(R, Nat)
  BY NatLessThanWellFounded DEF OpToRel
<1>2. \A m, n \in Nat : m < n => <<m, n>> \in R
  OBVIOUS
<1> HIDE DEF R
<1>3. PICK n \in T : \A m \in T : ~ (<<m, n>> \in R)
  BY <1>1, WFMin
<1>4. \A m \in T : ~ (m < n)
  BY <1>2, <1>3
<1>5. QED
  BY <1>4

\* The active articles of some rows, and what a listing of them is.
ShownIn(rows_) == DOMAIN rows_ \cap active

\* What is shown, once each, by descending order.
LEMMA ListingFacts ==
  ASSUME NEW rows_, ShownIn(rows_) \subseteq Article, NEW s \in Coll!Listings(rows_)
  PROVE  /\ s \in Seq(ShownIn(rows_)) /\ s \in Seq(Article)
         /\ Len(s) = Cardinality(ShownIn(rows_)) /\ Len(s) \in Nat
         /\ Once(s) /\ Elements(s) = ShownIn(rows_)
         /\ \A i, j \in 1..Len(s) : i < j => rows_[s[i]] >= rows_[s[j]]
<1>t. PICK T : T = ShownIn(rows_)
  OBVIOUS
<1>n. PICK n : n = Cardinality(T)
  OBVIOUS
<1>1. T \subseteq Article /\ IsFiniteSet(T) /\ n \in Nat
  BY <1>n, <1>t, CollSets
<1>2. /\ s \in [1..n -> T] /\ \A i, j \in 1..n : i # j => s[i] # s[j]
      /\ \A i, j \in DOMAIN s : i < j => rows_[s[i]] >= rows_[s[j]]
  BY <1>n, <1>t, CollCounts DEF Coll!Listings, Coll!SetToSeqs, ShownIn
<1>3. s \in Seq(T) /\ Len(s) = n /\ DOMAIN s = 1..n
  BY <1>1, <1>2
<1>4. s \in Seq(Article)
  BY <1>1, <1>3
<1>5. IsFiniteSet(1..n) /\ Cardinality(1..n) = n
  <2>1. 1 \in Int /\ n \in Int /\ (1 > n => n = 0) /\ n - 1 + 1 = n
    BY <1>1
  <2>2. IsFiniteSet(1..n) /\ Cardinality(1..n) = IF 1 > n THEN 0 ELSE n - 1 + 1
    BY <2>1, FS_Interval
  <2> QED
    BY <2>1, <2>2
<1>6. s \in Injection(1..n, T)
  BY <1>2 DEF Injection, IsInjective
<1>7. s \in Surjection(1..n, T)
  BY <1>1, <1>5, <1>6, <1>n, FS_Injection
<1>8. Elements(s) = T
  <2>1. \A x \in T : \E i \in 1..n : s[i] = x
    BY <1>7 DEF Surjection
  <2> QED
    BY <1>2, <1>3, <2>1 DEF Elements
<1> QED
  BY <1>1, <1>2, <1>3, <1>4, <1>8, <1>n, <1>t DEF Once

\* No number is both below and above another.
LEMMA NotBoth == \A x, y \in Nat : ~(x < y /\ y < x)
OBVIOUS

\* A list of everything shown, the highest order first.
Lists(s, n) ==
  /\ s \in [1..n -> Shown] /\ \A a \in Shown : \E i \in 1..n : s[i] = a
  /\ \A i, j \in 1..n : i < j => orders[s[i]] > orders[s[j]]

\* There is one such list.
LEMMA OneListing ==
  ASSUME \A a \in Shown : orders[a] \in Nat,
         NEW n \in Nat, NEW s, NEW t, Lists(s, n), Lists(t, n)
  PROVE  s = t
<1>0. /\ s \in [1..n -> Shown] /\ \A a \in Shown : \E i \in 1..n : s[i] = a
      /\ t \in [1..n -> Shown] /\ \A a \in Shown : \E i \in 1..n : t[i] = a
      /\ \A i, j \in 1..n : i < j => orders[s[i]] > orders[s[j]]
      /\ \A i, j \in 1..n : i < j => orders[t[i]] > orders[t[j]]
  BY DEF Lists
<1> SUFFICES ASSUME s # t PROVE FALSE
  OBVIOUS
<1> DEFINE Odd == {i \in 1..n : s[i] # t[i]}
<1>1. Odd # {}
  <2> SUFFICES ASSUME \A i \in 1..n : s[i] = t[i] PROVE s = t
    OBVIOUS
  <2> QED
    BY <1>0
<1>2. PICK i \in Odd : \A m \in Odd : i <= m
  <2>1. Odd \in SUBSET Nat
    OBVIOUS
  <2> HIDE DEF Odd
  <2> QED
    BY <1>1, <2>1, Least
<1>3. /\ i \in 1..n /\ s[i] # t[i] /\ s[i] \in Shown /\ t[i] \in Shown
      /\ \A m \in 1..n : m < i => s[m] = t[m]
  BY <1>0, <1>2
<1>4. PICK j \in 1..n : t[j] = s[i]
  BY <1>0, <1>3
<1>5. PICK k \in 1..n : s[k] = t[i]
  BY <1>0, <1>3
<1>6. i < j
  <2>1. CASE j < i
    <3>1. PICK x : x = orders[s[i]]
      OBVIOUS
    <3>2. orders[s[j]] = x /\ orders[s[j]] > x /\ x \in Nat
      BY <1>0, <1>3, <1>4, <2>1, <3>1
    <3>3. x > x /\ x \in Nat
      BY <3>2
    <3> QED
      BY <3>3, SMT
  <2>2. j # i
    BY <1>3, <1>4
  <2>3. i \in Nat /\ j \in Nat
    BY <1>3, <1>4
  <2> QED
    BY <2>1, <2>2, <2>3
<1>7. i < k
  <2>1. CASE k < i
    <3>1. PICK x : x = orders[t[i]]
      OBVIOUS
    <3>2. orders[t[k]] = x /\ orders[t[k]] > x /\ x \in Nat
      BY <1>0, <1>3, <1>5, <2>1, <3>1
    <3>3. x > x /\ x \in Nat
      BY <3>2
    <3> QED
      BY <3>3, SMT
  <2>2. k # i
    BY <1>3, <1>5
  <2>3. i \in Nat /\ k \in Nat
    BY <1>3, <1>5
  <2> QED
    BY <2>1, <2>2, <2>3
<1>8. orders[t[i]] > orders[s[i]]
  BY <1>0, <1>3, <1>4, <1>6
<1>9. orders[s[i]] > orders[t[i]]
  BY <1>0, <1>3, <1>5, <1>7
<1>10. orders[s[i]] \in Nat /\ orders[t[i]] \in Nat
  BY <1>3
<1>11. PICK x \in Nat, y \in Nat : x = orders[s[i]] /\ y = orders[t[i]]
  BY <1>10
<1>12. x < y /\ y < x
  BY <1>8, <1>9, <1>11
<1> QED
  BY <1>11, <1>12, NotBoth, Zenon

\* A list that holds what the table says is its only listing.
LEMMA ListedUniquely ==
  ASSUME CollTypes, \A a, b \in Shown : orders[a] = orders[b] => a = b,
         NEW q \in CollRequest, Once(q.list), Len(q.orders) = Len(q.list), AsTable(q)
  PROVE  Coll!Listings(orders) = {q.list}
<1>1. /\ Shown = ShownIn(orders) /\ Shown \subseteq Article
      /\ \A a \in Shown : orders[a] \in Nat
  BY DEF CollTypes, Shown, ShownIn
<1>l. PICK list : list = q.list
  OBVIOUS
<1>n. PICK n : n = Cardinality(Shown)
  OBVIOUS
<1>2. n \in Nat
  BY <1>1, <1>n, CollSets
<1>3. /\ list \in Seq(Article) /\ Once(list) /\ Elements(list) = Shown
      /\ \A i, j \in 1..Len(list) : i < j => orders[list[i]] > orders[list[j]]
  BY <1>l DEF CollRequest, AsTable
<1>4. Len(list) = n
  BY <1>3, <1>n, ElementsCount
<1>5. list \in [1..n -> Shown] /\ DOMAIN list = 1..n
  BY <1>3, <1>4 DEF Elements
<1>6. \A a \in Shown : \E i \in 1..n : list[i] = a
  BY <1>3, <1>4 DEF Elements
<1>7. \A i, j \in 1..n : i < j => orders[list[i]] > orders[list[j]]
  BY <1>3, <1>4
<1>8. list \in Coll!Listings(orders)
  <2>1. \A i, j \in 1..n : i # j => list[i] # list[j]
    BY <1>3, <1>4 DEF Once
  <2>2. \A i, j \in 1..n : i < j => orders[list[i]] >= orders[list[j]]
    <3> SUFFICES ASSUME NEW i \in 1..n, NEW j \in 1..n, i < j
                 PROVE  orders[list[i]] >= orders[list[j]]
      OBVIOUS
    <3>1. orders[list[i]] > orders[list[j]]
      BY <1>7
    <3>2. orders[list[i]] \in Nat /\ orders[list[j]] \in Nat
      BY <1>1, <1>5
    <3> QED
      BY <3>1, <3>2
  <2>3. Shown = DOMAIN orders \cap active
    BY DEF Shown
  <2>4. Coll!Cardinality(Shown) = n
    BY <1>n, CollCounts
  <2>5. list \in Coll!SetToSeqs(Shown)
    BY <1>5, <2>1, <2>4 DEF Coll!SetToSeqs
  <2> QED
    BY <1>5, <2>2, <2>3, <2>5 DEF Coll!Listings
<1>9. ASSUME NEW s \in Coll!Listings(orders) PROVE s = list
  <2>1. /\ s \in Seq(Shown) /\ Len(s) = n /\ Once(s) /\ Elements(s) = Shown
        /\ \A i, j \in 1..Len(s) : i < j => orders[s[i]] >= orders[s[j]]
    BY <1>1, <1>n, ListingFacts
  <2>2. s \in [1..n -> Shown] /\ \A a \in Shown : \E i \in 1..n : s[i] = a
    BY <2>1 DEF Elements
  <2>3. ASSUME NEW i \in 1..n, NEW j \in 1..n, i < j PROVE orders[s[i]] > orders[s[j]]
    <3>1. s[i] \in Shown /\ s[j] \in Shown /\ s[i] # s[j]
      BY <1>2, <2>1, <2>2, <2>3 DEF Once
    <3>2. orders[s[i]] # orders[s[j]] /\ orders[s[i]] \in Nat /\ orders[s[j]] \in Nat
      BY <1>1, <3>1
    <3> QED
      BY <2>1, <2>3, <3>2
  <2>4. \A i, j \in 1..n : i < j => orders[s[i]] > orders[s[j]]
    BY <2>3
  <2>5. \A a \in Shown : orders[a] \in Nat
    BY <1>1
  <2> QED
    <3>1. Lists(s, n) /\ Lists(list, n)
      BY <1>5, <1>6, <1>7, <2>2, <2>4 DEF Lists
    <3> QED
      BY <1>2, <2>5, <3>1, OneListing
<1> QED
  BY <1>8, <1>9, <1>l

\* Who has left holds nothing.
LEMMA CollIdle ==
  /\ Coll!Idle \in CollRequest /\ Coll!Idle.step = "idle" /\ Consistent(Coll!Idle)
<1>1. Coll!Idle \in CollRequest /\ Coll!Idle.step = "idle"
  BY DEF Coll!Idle, CollRequest
<1>2. Len(Coll!Idle.list) = 0 /\ Len(Coll!Idle.moves) = 0
  BY DEF Coll!Idle
<1> QED
  BY <1>1, <1>2 DEF Consistent, Once

\* Articles can be put in an order, each once.
LEMMA OrderExists == Coll!SetToSeqs(Article) # {}
<1>n. PICK n : n = Cardinality(Article)
  OBVIOUS
<1>1. ExistsBijection(1..n, Article)
  BY <1>n, CommunityAssumption, FS_CardinalityType
<1>2. PICK f : f \in Bijection(1..n, Article)
  BY <1>1 DEF ExistsBijection
<1>3. f \in [1..n -> Article] /\ \A i, j \in 1..n : i # j => f[i] # f[j]
  BY <1>2 DEF Bijection, Injection, IsInjective
<1>4. Coll!Cardinality(Article) = n
  BY <1>n, CollCounts
<1>5. f \in Coll!SetToSeqs(Article)
  BY <1>3, <1>4 DEF Coll!SetToSeqs
<1> QED
  BY <1>5

\* Some articles in an order are there at first.
LEMMA CollInit == Coll!Init => CollInv
<1> SUFFICES ASSUME Coll!Init PROVE CollInv
  OBVIOUS
<1>1. /\ replica = orders /\ active = Article /\ slips = {}
      /\ ordering = [r \in Request |-> Coll!Idle]
  BY DEF Coll!Init
<1>2. PICK s \in Coll!SetToSeqs(Article), n \in 0..Limit :
        /\ n <= Len(s)
        /\ orders = [a \in {s[i] : i \in 1..n} |-> Unit * CHOOSE i \in 1..n : s[i] = a]
  <2>1. (CHOOSE s \in Coll!SetToSeqs(Article) : TRUE) \in Coll!SetToSeqs(Article)
    BY OrderExists
  <2> QED
    BY <2>1 DEF Coll!Init
<1>3. s \in [1..Cardinality(Article) -> Article] /\ Cardinality(Article) \in Nat
  BY <1>2, CollSets, CollCounts DEF Coll!SetToSeqs
<1>4. s \in Seq(Article) /\ Len(s) \in Nat /\ n \in Nat /\ n <= Len(s) /\ Limit \in Nat
  BY <1>2, <1>3, CommunityAssumption
<1> DEFINE D == {s[i] : i \in 1..n}
           place(a) == CHOOSE i \in 1..n : s[i] = a
<1>5. D \subseteq Article /\ DOMAIN orders = D
  BY <1>2, <1>4
<1>6. ASSUME NEW a \in D
      PROVE  /\ place(a) \in 1..n /\ s[place(a)] = a
             /\ orders[a] = Unit * place(a) /\ orders[a] \in Nat
  <2>1. \E i \in 1..n : s[i] = a
    OBVIOUS
  <2>2. place(a) \in 1..n /\ s[place(a)] = a
    BY <2>1
  <2>3. orders[a] = Unit * place(a)
    BY <1>2
  <2>p. PICK p \in Nat : p = place(a)
    BY <1>4, <2>2
  <2>4. Unit * p \in Nat
    BY <2>p, UnitTimes
  <2> QED
    BY <2>2, <2>3, <2>4, <2>p
<1>7. ASSUME NEW a \in D, NEW b \in D, orders[a] = orders[b] PROVE a = b
  <2>1. PICK i \in Nat, j \in Nat : i = place(a) /\ j = place(b)
    BY <1>4, <1>6
  <2>2. Unit * i = Unit * j /\ Unit * i \in Nat /\ Unit * j \in Nat
    <3>1. orders[a] = Unit * place(a) /\ orders[b] = Unit * place(b)
      BY <1>6
    <3>2. Unit * i = Unit * j
      BY <1>7, <2>1, <3>1, Zenon
    <3> QED
      BY <2>1, <3>2, UnitTimes
  <2>3. ~(i < j) /\ ~(j < i)
    <3>1. i < j => Unit * i < Unit * j
      BY <2>1, UnitTimes
    <3>2. j < i => Unit * j < Unit * i
      BY <2>1, UnitTimes
    <3>u. PICK u, v : u = Unit * i /\ v = Unit * j
      OBVIOUS
    <3> QED
      BY <2>2, <3>1, <3>2, <3>u
  <2>4. i = j
    BY <2>1, <2>3
  <2> QED
    BY <1>6, <2>1, <2>4
<1>8. orders \in [D -> Nat]
  BY <1>2, <1>6
<1>9. Cardinality(Shown) <= Limit
  <2>f. PICK f : f = [i \in 1..n |-> s[i]]
    OBVIOUS
  <2>1. f \in Surjection(1..n, D)
    BY <2>f DEF Surjection
  <2>2. Cardinality(D) <= n
    BY <1>4, <2>1, FS_SurjCardinalityBound DEF ExistsSurjection
  <2>3. Shown = D
    BY <1>1, <1>5 DEF Shown
  <2>4. Cardinality(D) \in Nat
    BY <1>5, CollSets
  <2> QED
    BY <1>2, <1>4, <2>2, <2>3, <2>4
<1> HIDE DEF D, place
<1>10. CollTypes
  BY <1>1, <1>5, <1>8, CollIdle DEF CollTypes
<1>11. \A r \in Request : ordering[r] = Coll!Idle /\ ordering[r].step = "idle"
  BY <1>1, CollIdle
<1>12. RoomLeft
  BY <1>9, <1>11 DEF RoomLeft
<1>13. Told
  <2>1. \A a, b \in Shown : orders[a] = orders[b] => a = b
    BY <1>5, <1>7 DEF Shown
  <2> QED
    BY <1>11, <2>1 DEF Told
<1> QED
  BY <1>10, <1>11, <1>12, <1>13, CollIdle DEF CollInv

\* A request goes on while the collection stays as it is.
LEMMA CollProceeds ==
  ASSUME CollInv, NEW r \in Request, NEW next \in CollRequest,
         ordering' = [ordering EXCEPT ![r] = next],
         UNCHANGED <<orders, replica, active>>,
         slips \subseteq slips', slips' \subseteq {"overlap", "outdated", "too_fine", "returned"},
         Consistent(next),
         "overlap" \notin slips' /\ next.step # "idle" =>
           \A o \in Request : o # r => ordering[o].step = "idle",
         slips' \cap {"overlap", "outdated", "returned"} = {} /\ next.step \in {"max", "insert"} =>
           Cardinality(Shown) + Len(next.list) <= Limit,
         slips' = {} =>
           /\ next.step = "insert" => \A a \in DOMAIN orders : orders[a] < next.next
           /\ next.step \in {"move", "answer"} => AsTable(next)
  PROVE  CollInv'
<1>1. /\ orders' = orders /\ replica' = replica /\ active' = active
      /\ CollTypes /\ \A o \in Request : Consistent(ordering[o])
  BY DEF CollInv
<1>2. /\ ordering' \in [Request -> CollRequest] /\ ordering'[r] = next
      /\ \A o \in Request : o # r => ordering'[o] = ordering[o]
  BY <1>1 DEF CollTypes
<1>3. CollTypes'
  BY <1>1, <1>2 DEF CollTypes
<1>4. \A o \in Request : Consistent(ordering'[o])
  BY <1>1, <1>2
<1>5. ASSUME "overlap" \notin slips', NEW o \in Request, NEW p \in Request,
             ordering'[o].step # "idle", ordering'[p].step # "idle"
      PROVE  o = p
  <2>1. ordering[o].step # "idle" /\ ordering[p].step # "idle" => o = p
    BY <1>5 DEF CollInv
  <2> QED
    BY <1>2, <1>5, <2>1
<1>6. Shown' = Shown
  BY <1>1 DEF Shown
<1>7. RoomLeft'
  <2> SUFFICES ASSUME slips' \cap {"overlap", "outdated", "returned"} = {}
               PROVE  /\ Cardinality(Shown) <= Limit
                      /\ \A o \in Request : ordering'[o].step \in {"max", "insert"} =>
                           Cardinality(Shown) + Len(ordering'[o].list) <= Limit
    BY <1>6 DEF RoomLeft
  <2>1. /\ Cardinality(Shown) <= Limit
        /\ \A o \in Request : ordering[o].step \in {"max", "insert"} =>
             Cardinality(Shown) + Len(ordering[o].list) <= Limit
    BY DEF CollInv, RoomLeft
  <2> QED
    BY <1>2, <2>1
<1>8. Told'
  <2> SUFFICES ASSUME slips' = {}
               PROVE  /\ \A a, b \in Shown : orders[a] = orders[b] => a = b
                      /\ \A o \in Request :
                           /\ ordering'[o].step = "insert" =>
                                \A a \in DOMAIN orders : orders[a] < ordering'[o].next
                           /\ ordering'[o].step \in {"move", "answer"} => AsTable(ordering'[o])
    BY <1>1, <1>6 DEF Told, AsTable
  <2>1. /\ \A a, b \in Shown : orders[a] = orders[b] => a = b
        /\ \A o \in Request :
             /\ ordering[o].step = "insert" =>
                  \A a \in DOMAIN orders : orders[a] < ordering[o].next
             /\ ordering[o].step \in {"move", "answer"} => AsTable(ordering[o])
    BY DEF CollInv, Told
  <2> QED
    BY <1>2, <2>1
<1> QED
  BY <1>3, <1>4, <1>5, <1>7, <1>8 DEF CollInv

\* What a beginning request adds to what happened.
LEMMA CollBegins ==
  ASSUME CollInv, NEW r \in Request, NEW first, Coll!Begin(r, first, {})
  PROVE  /\ ordering' = [ordering EXCEPT ![r] = first]
         /\ slips \subseteq slips' /\ slips' \subseteq {"overlap", "outdated", "too_fine", "returned"}
         /\ "overlap" \notin slips' => \A o \in Request : o # r => ordering[o].step = "idle"
         /\ "outdated" \notin slips' => replica = orders
<1>1. slips \subseteq {"overlap", "outdated", "too_fine", "returned"}
  BY DEF CollInv, CollTypes
<1> DEFINE busy == \E q \in Request \ {r} : ordering[q] # Coll!Idle
           all == {} \cup (IF busy THEN {"overlap"} ELSE {})
                     \cup (IF replica # orders THEN {"outdated"} ELSE {})
<1>2. ordering' = [ordering EXCEPT ![r] = first] /\ slips' = slips \cup all
  BY DEF Coll!Begin
<1>3. busy => "overlap" \in slips'
  BY <1>2
<1>4. ~busy => \A o \in Request : o # r => ordering[o].step = "idle"
  BY CollIdle
<1>5. replica # orders => "outdated" \in slips'
  BY <1>2
<1>6. all \subseteq {"overlap", "outdated"}
  OBVIOUS
<1> HIDE DEF busy, all
<1> QED
  BY <1>1, <1>2, <1>3, <1>4, <1>5, <1>6

\* What the author asks to add is there once, and fits.
LEMMA CollValidate ==
  ASSUME CollInv, NEW r \in Request, NEW new \in Coll!SetToAllKPermutations(Article),
         NEW there \in SUBSET Article, Coll!ValidateAdd(r, new, there)
  PROVE  CollInv'
<1>s. PICK S \in SUBSET Article : new \in Coll!SetToSeqs(S)
  BY DEF Coll!SetToAllKPermutations
<1>n. PICK n \in Nat : n = Cardinality(S)
  BY <1>s, CollSets
<1>1. new \in [1..n -> S] /\ \A i, j \in 1..n : i # j => new[i] # new[j]
  BY <1>n, <1>s, CollCounts DEF Coll!SetToSeqs
<1>2. new \in Seq(S) /\ Len(new) = n
  BY <1>1, <1>n
<1>3. new \in Seq(Article) /\ Once(new) /\ Len(new) \in Nat
  BY <1>1, <1>2, <1>n, <1>s DEF Once
<1> DEFINE next == [Coll!Idle EXCEPT !.step = "max", !.list = new]
<1>4. /\ next \in CollRequest /\ next.step = "max" /\ next.list = new /\ next.moves = <<>>
  BY <1>3, CollIdle DEF CollRequest, Coll!Idle
<1>5. Consistent(next)
  <2>1. Len(next.moves) = 0
    BY <1>4
  <2> QED
    BY <1>3, <1>4, <2>1 DEF Consistent
<1>6. /\ Coll!Begin(r, next, {}) /\ UNCHANGED <<orders, replica, active>>
      /\ there \subseteq DOMAIN replica \cap active
      /\ Coll!Room(Cardinality(DOMAIN replica \cap active), Len(new) + Cardinality(there))
  BY CollCounts DEF Coll!ValidateAdd
<1> HIDE DEF next
<1>7. /\ ordering' = [ordering EXCEPT ![r] = next]
      /\ slips \subseteq slips' /\ slips' \subseteq {"overlap", "outdated", "too_fine", "returned"}
      /\ "overlap" \notin slips' => \A o \in Request : o # r => ordering[o].step = "idle"
      /\ "outdated" \notin slips' => replica = orders
  BY <1>6, CollBegins
<1>8. ASSUME slips' \cap {"overlap", "outdated", "returned"} = {}
      PROVE  Cardinality(Shown) + Len(next.list) <= Limit
  <2>1. DOMAIN replica \cap active = Shown
    BY <1>7, <1>8 DEF Shown
  <2>c. PICK c \in Nat, t \in Nat : c = Cardinality(Shown) /\ t = Cardinality(there)
    <3>1. Shown \subseteq Article
      BY DEF CollInv, CollTypes, Shown
    <3> QED
      BY <3>1, CollSets
  <2>2. c + (n + t) <= Limit
    BY <1>2, <1>6, <2>1, <2>c DEF Coll!Room
  <2>3. c + n <= Limit
    BY <1>n, <2>2, <2>c, CommunityAssumption
  <2> QED
    BY <1>2, <1>4, <2>3, <2>c
<1> QED
  BY <1>4, <1>5, <1>6, <1>7, <1>8, CollProceeds

\* A request alone, unless requests overlapped.
LEMMA CollAlone ==
  ASSUME CollInv, NEW r \in Request, ordering[r].step # "idle"
  PROVE  /\ ordering[r] \in CollRequest /\ Consistent(ordering[r])
         /\ "overlap" \notin slips => \A o \in Request : o # r => ordering[o].step = "idle"
         /\ slips \subseteq {"overlap", "outdated", "too_fine", "returned"}
BY DEF CollInv, CollTypes

\* The place above the highest order.
LEMMA CollReadMax ==
  ASSUME CollInv, NEW r \in Request, Coll!ReadMax(r)
  PROVE  CollInv'
<1>q. PICK q : q = ordering[r]
  OBVIOUS
<1>1. q.step = "max" /\ UNCHANGED <<orders, replica, active>>
  BY <1>q DEF Coll!ReadMax
<1>2. /\ q \in CollRequest /\ Consistent(q)
      /\ "overlap" \notin slips => \A o \in Request : o # r => ordering[o].step = "idle"
      /\ slips \subseteq {"overlap", "outdated", "too_fine", "returned"}
  BY <1>1, <1>q, CollAlone
<1>3. ordering \in [Request -> CollRequest] /\ replica \in [DOMAIN replica -> Nat]
  BY DEF CollInv, CollTypes
<1>4. PICK top \in {0} \cup {replica[a] : a \in DOMAIN replica} :
        /\ \A a \in DOMAIN replica : replica[a] <= top
        /\ ordering' = [ordering EXCEPT ![r].step = "insert", ![r].next = Unit + top]
  BY DEF Coll!ReadMax
<1>5. top \in Nat /\ Unit \in Nat /\ Unit > 0
  BY <1>3, CommunityAssumption
<1>p. PICK place \in Nat : place = Unit + top
  BY <1>5
<1> DEFINE next == [q EXCEPT !.step = "insert", !.next = place]
<1>6. /\ next \in CollRequest /\ next.step = "insert" /\ next.list = q.list
      /\ next.moves = q.moves /\ next.next = place
  BY <1>2, <1>p DEF CollRequest
<1>7. ordering' = [ordering EXCEPT ![r] = next]
  BY <1>3, <1>4, <1>p, <1>q
<1> HIDE DEF next
<1>8. Consistent(next)
  BY <1>2, <1>6 DEF Consistent
<1>9. /\ slips \subseteq slips' /\ slips' \subseteq {"overlap", "outdated", "too_fine", "returned"}
      /\ "outdated" \notin slips' => replica = orders
  BY <1>2 DEF Coll!ReadMax
<1>10. slips' \cap {"overlap", "outdated", "returned"} = {} =>
         Cardinality(Shown) + Len(next.list) <= Limit
  BY <1>1, <1>6, <1>9, <1>q DEF CollInv, RoomLeft
<1>11. ASSUME slips' = {}, NEW a \in DOMAIN orders PROVE orders[a] < next.next
  <2>1. replica = orders
    BY <1>9, <1>11
  <2>2. orders[a] \in Nat /\ orders[a] <= top
    BY <1>3, <1>4, <1>11, <2>1
  <2> QED
    BY <1>5, <1>6, <1>p, <2>2
<1> QED
  BY <1>1, <1>2, <1>6, <1>7, <1>8, <1>9, <1>10, <1>11, CollProceeds

\* The author is answered.
LEMMA CollAnswer ==
  ASSUME CollInv, NEW r \in Request, Coll!Answer(r)
  PROVE  CollInv'
<1>1. /\ ordering[r].step = "answer" /\ ordering' = [ordering EXCEPT ![r] = Coll!Idle]
      /\ UNCHANGED <<orders, replica, active, slips>>
  BY DEF Coll!Answer
<1>2. slips \subseteq {"overlap", "outdated", "too_fine", "returned"}
  BY DEF CollInv, CollTypes
<1> QED
  BY <1>1, <1>2, CollIdle, CollProceeds

\* The list and its orders are read, and the moves are those asked for.
LEMMA CollReadOrder ==
  ASSUME CollInv, NEW r \in Request, Coll!ReadOrder(r)
  PROVE  CollInv'
<1>0. PICK list \in Coll!Listings(replica) : \E moves \in Coll!MovesIn(list) :
        Coll!Begin(r, [Coll!Idle EXCEPT !.step = "move", !.list = list, !.moves = moves,
           !.orders = [i \in DOMAIN list |-> replica[list[i]]], !.wanted = list], {})
  BY DEF Coll!ReadOrder
<1>1. PICK moves \in Coll!MovesIn(list) :
        Coll!Begin(r, [Coll!Idle EXCEPT !.step = "move", !.list = list, !.moves = moves,
           !.orders = [i \in DOMAIN list |-> replica[list[i]]], !.wanted = list], {})
  BY <1>0
<1>2. UNCHANGED <<orders, replica, active>>
  BY DEF Coll!ReadOrder
<1>3. /\ ShownIn(replica) \subseteq Article /\ replica \in [DOMAIN replica -> Nat]
      /\ ShownIn(replica) \subseteq DOMAIN replica
  BY DEF CollInv, CollTypes, ShownIn
<1>4. /\ list \in Seq(ShownIn(replica)) /\ list \in Seq(Article) /\ Len(list) \in Nat
      /\ Once(list) /\ Elements(list) = ShownIn(replica)
      /\ \A i, j \in 1..Len(list) : i < j => replica[list[i]] >= replica[list[j]]
  BY <1>3, ListingFacts
<1>n. PICK n \in Nat : n = Len(list)
  BY <1>4
<1>h. PICK h : h = [i \in DOMAIN list |-> replica[list[i]]]
  OBVIOUS
<1>5. /\ DOMAIN list = 1..n /\ \A i \in 1..n : list[i] \in DOMAIN replica
      /\ Elements(list) = Coll!ToSet(list)
  BY <1>3, <1>4, <1>n DEF Elements, Coll!ToSet
<1>6. h \in [1..n -> Nat] /\ \A i \in 1..n : h[i] = replica[list[i]]
  BY <1>3, <1>5, <1>h
<1>7. h \in Seq(Nat) /\ Len(h) = n
  BY <1>6, <1>n
<1>8. /\ moves \in Seq(CollMove) /\ moves # <<>> /\ Len(moves) \in Nat
      /\ \A k \in 1..Len(moves) :
           moves[k].article \in Elements(list) /\ moves[k].to \in 1..Len(list)
  <2> DEFINE move == [article : Coll!ToSet(list), to : DOMAIN list]
  <2>1. \A m \in move :
          m \in CollMove /\ m.article \in Elements(list) /\ m.to \in 1..Len(list)
    <3>1. Coll!ToSet(list) \subseteq Article /\ DOMAIN list \subseteq Nat
      BY <1>3, <1>4, <1>5
    <3> QED
      BY <1>5, <1>n, <3>1 DEF CollMove
  <2>2. moves \in {<<m>> : m \in move} \cup {<<m, k>> : m, k \in move}
    BY <1>1 DEF Coll!MovesIn
  <2> HIDE DEF move
  <2>3. CASE \E m \in move : moves = <<m>>
    <3>1. PICK m \in move : moves = <<m>>
      BY <2>3
    <3> QED
      BY <2>1, <3>1
  <2>4. CASE \E m, k \in move : moves = <<m, k>>
    <3>1. PICK m \in move, k \in move : moves = <<m, k>>
      BY <2>4
    <3> QED
      BY <2>1, <3>1
  <2> QED
    BY <2>2, <2>3, <2>4
<1> DEFINE next == [Coll!Idle EXCEPT !.step = "move", !.list = list, !.moves = moves,
                      !.orders = h, !.wanted = list]
<1>9. /\ next \in CollRequest /\ next.step = "move" /\ next.list = list /\ next.moves = moves
      /\ next.orders = h /\ next.wanted = list
  BY <1>4, <1>7, <1>8, CollIdle DEF CollRequest, Coll!Idle
<1>10. Coll!Begin(r, next, {})
  BY <1>1, <1>h
<1> HIDE DEF next
<1>11. Consistent(next)
  BY <1>4, <1>7, <1>8, <1>9, <1>n DEF Consistent
<1>12. /\ ordering' = [ordering EXCEPT ![r] = next]
       /\ slips \subseteq slips' /\ slips' \subseteq {"overlap", "outdated", "too_fine", "returned"}
       /\ "overlap" \notin slips' => \A o \in Request : o # r => ordering[o].step = "idle"
       /\ "outdated" \notin slips' => replica = orders
  BY <1>10, CollBegins
<1>13. ASSUME slips' = {} PROVE AsTable(next)
  <2>1. replica = orders /\ ShownIn(replica) = Shown
    BY <1>12, <1>13 DEF ShownIn, Shown
  <2>2. \A a, b \in Shown : orders[a] = orders[b] => a = b
    BY <1>12, <1>13 DEF CollInv, Told
  <2>3. ASSUME NEW i \in 1..n, NEW j \in 1..n, i < j PROVE h[i] > h[j]
    <3>1. list[i] \in Shown /\ list[j] \in Shown /\ list[i] # list[j]
      BY <1>4, <1>n, <2>1, <2>3 DEF Once, Elements
    <3>2. replica[list[i]] >= replica[list[j]] /\ replica[list[i]] # replica[list[j]]
      BY <1>4, <1>n, <2>1, <2>2, <2>3, <3>1
    <3>3. h[i] \in Nat /\ h[j] \in Nat
      BY <1>6
    <3> QED
      BY <1>6, <3>2, <3>3
  <2> QED
    BY <1>4, <1>6, <1>9, <1>n, <2>1, <2>3 DEF AsTable
<1> QED
  BY <1>2, <1>9, <1>11, <1>12, <1>13, CollProceeds

\* The collection changes when nobody is at work, or else requests overlapped.
LEMMA CollChanges ==
  ASSUME CollInv, CollTypes', slips \subseteq slips',
         \A o \in Request : Consistent(ordering'[o]),
         "overlap" \notin slips' => \A o \in Request : ordering'[o].step = "idle",
         slips' \cap {"overlap", "outdated", "returned"} = {} => Cardinality(Shown') <= Limit,
         slips' = {} => \A a, b \in Shown' : orders'[a] = orders'[b] => a = b
  PROVE  CollInv'
<1>1. RoomLeft'
  <2> SUFFICES ASSUME slips' \cap {"overlap", "outdated", "returned"} = {}
               PROVE  /\ Cardinality(Shown') <= Limit
                      /\ \A o \in Request : ordering'[o].step \in {"max", "insert"} =>
                           Cardinality(Shown') + Len(ordering'[o].list) <= Limit
    BY DEF RoomLeft
  <2>1. "overlap" \notin slips'
    OBVIOUS
  <2> QED
    BY <2>1
<1>2. Told'
  <2> SUFFICES ASSUME slips' = {}
               PROVE  /\ \A a, b \in Shown' : orders'[a] = orders'[b] => a = b
                      /\ \A o \in Request : ordering'[o].step = "idle"
    BY DEF Told
  <2> QED
    OBVIOUS
<1> QED
  BY <1>1, <1>2 DEF CollInv

\* The articles go on top, or nothing is inserted.
LEMMA CollInsert ==
  ASSUME CollInv, NEW r \in Request, Coll!InsertArticles(r)
  PROVE  CollInv'
<1>q. PICK q : q = ordering[r]
  OBVIOUS
<1>l. PICK list : list = q.list
  OBVIOUS
<1>t. PICK T : T = Elements(list)
  OBVIOUS
<1>1. /\ q.step = "insert" /\ ordering' = [ordering EXCEPT ![r] = Coll!Idle]
      /\ UNCHANGED <<replica, active, slips>>
  BY <1>q DEF Coll!InsertArticles
<1>2. /\ q \in CollRequest /\ Consistent(q)
      /\ "overlap" \notin slips => \A o \in Request : o # r => ordering[o].step = "idle"
      /\ slips \subseteq {"overlap", "outdated", "too_fine", "returned"}
  BY <1>1, <1>q, CollAlone
<1>3. /\ orders \in [DOMAIN orders -> Nat] /\ DOMAIN orders \subseteq Article
      /\ ordering \in [Request -> CollRequest] /\ active \subseteq Article
      /\ Shown \subseteq Article
  BY DEF CollInv, CollTypes, Shown
<1>n. PICK n \in Nat : n = Len(list)
  BY <1>2, <1>l DEF CollRequest
<1>4. /\ list \in Seq(Article) /\ DOMAIN list = 1..n /\ q.next \in Nat
      /\ T \subseteq Article /\ T = Coll!ToSet(list) /\ Cardinality(T) \in Nat
      /\ Cardinality(T) <= n
  <2>1. list \in Seq(Article) /\ DOMAIN list = 1..n /\ q.next \in Nat
    BY <1>2, <1>l, <1>n DEF CollRequest
  <2>2. T \subseteq Article /\ Cardinality(T) \in Nat /\ Cardinality(T) <= n
    BY <2>1, <1>n, <1>t, ElementsCount
  <2>3. T = Coll!ToSet(list)
    BY <2>1, <1>n, <1>t DEF Elements, Coll!ToSet
  <2> QED
    BY <2>1, <2>2, <2>3
<1>5. CASE T \cap DOMAIN orders # {}
  <2>1. orders' = orders
    BY <1>4, <1>5, <1>l, <1>q DEF Coll!InsertArticles
  <2> QED
    BY <1>1, <1>2, <2>1, CollIdle, CollProceeds
<1>6. CASE T \cap DOMAIN orders = {}
  <2> DEFINE added == Coll!ToSet(ordering[r].list)
             place(a) == CHOOSE i \in DOMAIN ordering[r].list : ordering[r].list[i] = a
             new == [a \in added |-> ordering[r].next + Unit * (place(a) - 1)]
  <2>0. added = T
    BY <1>4, <1>l, <1>q
  <2>1. orders' = [a \in DOMAIN orders \cup added |-> IF a \in added THEN new[a] ELSE orders[a]]
    BY <1>6, <2>0 DEF Coll!InsertArticles
  <2>2. ASSUME NEW a \in T
        PROVE  /\ place(a) \in 1..n /\ list[place(a)] = a
               /\ new[a] = q.next + Unit * (place(a) - 1) /\ new[a] \in Nat /\ new[a] >= q.next
    <3>1. \E i \in 1..n : list[i] = a
      BY <1>4, <1>n, <1>t DEF Elements
    <3>2. place(a) \in 1..n /\ list[place(a)] = a
      BY <1>4, <1>l, <1>q, <3>1
    <3>3. new[a] = q.next + Unit * (place(a) - 1)
      BY <1>q, <2>0
    <3>k. PICK k : k = place(a)
      OBVIOUS
    <3>0. k \in 1..n
      BY <3>2, <3>k
    <3>p. PICK p \in Nat : p = k - 1
      BY <1>n, <3>0
    <3>u. PICK u \in Nat : u = Unit * p
      BY <3>p, UnitTimes
    <3> QED
      BY <1>4, <3>2, <3>3, <3>k, <3>p, <3>u
  <2> HIDE DEF new, place, added
  <2>3. ASSUME NEW a \in T, NEW b \in T, new[a] = new[b] PROVE a = b
    <3>k. PICK k, l : k = place(a) /\ l = place(b)
      OBVIOUS
    <3>0. k \in 1..n /\ l \in 1..n
      BY <2>2, <3>k
    <3>1. PICK i \in Nat, j \in Nat : i = k - 1 /\ j = l - 1
      BY <1>n, <3>0
    <3>u. PICK u \in Nat, v \in Nat : u = Unit * i /\ v = Unit * j
      BY <3>1, UnitTimes
    <3>a. new[a] = q.next + u /\ new[b] = q.next + v
      BY <2>2, <3>1, <3>k, <3>u
    <3>b. PICK base \in Nat : base = q.next
      BY <1>4
    <3>c. base + u = base + v
      BY <2>3, <3>a, <3>b
    <3>2. u = v
      BY <3>b, <3>c, <3>u
    <3>3. i < j => u < v
      BY <3>1, <3>u, UnitTimes
    <3>4. j < i => v < u
      BY <3>1, <3>u, UnitTimes
    <3>5. i = j
      BY <3>1, <3>2, <3>3, <3>4, <3>u
    <3>6. place(a) = place(b)
      <4>1. k = l
        BY <1>n, <3>0, <3>1, <3>5
      <4> QED
        BY <4>1, <3>k
    <3> QED
      BY <2>2, <3>6
  <2>4. /\ orders' \in [DOMAIN orders' -> Nat] /\ DOMAIN orders' = DOMAIN orders \cup T
        /\ \A a \in T : orders'[a] = new[a]
        /\ \A a \in DOMAIN orders : orders'[a] = orders[a]
    BY <1>3, <1>6, <2>0, <2>1, <2>2
  <2>5. /\ ordering' \in [Request -> CollRequest]
        /\ \A o \in Request : ordering'[o] = IF o = r THEN Coll!Idle ELSE ordering[o]
    BY <1>1, <1>3, CollIdle
  <2>6. CollTypes'
    BY <1>1, <1>3, <1>4, <2>4, <2>5 DEF CollInv, CollTypes
  <2>7. \A o \in Request : Consistent(ordering'[o])
    BY <2>5, CollIdle DEF CollInv
  <2>8. "overlap" \notin slips' => \A o \in Request : ordering'[o].step = "idle"
    BY <1>1, <1>2, <2>5, CollIdle
  <2>9. Shown' \subseteq Shown \cup T /\ Shown' \subseteq Article
    BY <1>1, <1>3, <1>4, <2>4 DEF Shown
  <2>10. ASSUME slips' \cap {"overlap", "outdated", "returned"} = {}
         PROVE  Cardinality(Shown') <= Limit
    <3>1. Cardinality(Shown) + n <= Limit
      BY <1>1, <1>l, <1>n, <1>q, <2>10 DEF CollInv, RoomLeft
    <3>c. PICK c \in Nat, t \in Nat, b \in Nat :
            c = Cardinality(Shown) /\ t = Cardinality(T) /\ b = Cardinality(Shown \cap T)
      BY <1>3, <1>4, CollSets
    <3>2. Cardinality(Shown \cup T) = c + t - b
      BY <1>3, <1>4, <3>c, CollSets, FS_Union
    <3>3. Shown \cup T \subseteq Article
      BY <1>3, <1>4
    <3>4. Cardinality(Shown') <= Cardinality(Shown \cup T) /\ Cardinality(Shown') \in Nat
      BY <2>9, <3>3, CollSets
    <3>5. c + n <= Limit /\ t <= n /\ Cardinality(Shown') <= c + t - b
      BY <1>4, <3>1, <3>2, <3>4, <3>c
    <3> QED
      BY <1>n, <3>4, <3>5, <3>c, CommunityAssumption
  <2>11. ASSUME slips' = {}, NEW a \in Shown', NEW b \in Shown', orders'[a] = orders'[b]
         PROVE  a = b
    <3>1. /\ \A x, y \in Shown : orders[x] = orders[y] => x = y
          /\ \A x \in DOMAIN orders : orders[x] < q.next
      BY <1>1, <1>q, <2>11 DEF CollInv, Told
    <3>2. a \in Shown \cup T /\ b \in Shown \cup T
      BY <2>9, <2>11
    <3>3. ASSUME NEW x \in Shown, NEW y \in T PROVE orders'[x] # orders'[y]
      <4>1. orders'[x] < q.next /\ orders'[x] \in Nat
        BY <1>3, <2>4, <3>1, <3>3 DEF Shown
      <4>2. orders'[y] >= q.next /\ orders'[y] \in Nat
        BY <2>2, <2>4, <3>3
      <4> QED
        BY <1>4, <4>1, <4>2
    <3>4. CASE a \in Shown /\ b \in Shown
      BY <2>4, <2>11, <3>1, <3>4 DEF Shown
    <3>5. CASE a \in T /\ b \in T
      BY <2>3, <2>4, <2>11, <3>5
    <3> QED
      BY <2>11, <3>2, <3>3, <3>4, <3>5
  <2> QED
    BY <1>1, <2>6, <2>7, <2>8, <2>10, <2>11, CollChanges
<1> QED
  BY <1>5, <1>6

\* An article is taken out.
LEMMA CollRemove ==
  ASSUME CollInv, NEW articles, Coll!RemoveArticles(articles)
  PROVE  CollInv'
<1>1. /\ orders' = [a \in DOMAIN orders \ articles |-> orders[a]]
      /\ UNCHANGED <<replica, active, ordering>>
      /\ slips' = IF \E r \in Request : ordering[r] # Coll!Idle THEN slips \cup {"overlap"} ELSE slips
  BY DEF Coll!RemoveArticles
<1>2. /\ slips \subseteq slips' /\ slips' \subseteq {"overlap", "outdated", "too_fine", "returned"}
      /\ "overlap" \notin slips' => \A o \in Request : ordering'[o].step = "idle"
  BY <1>1, CollIdle DEF CollInv, CollTypes
<1>3. CollTypes' /\ \A o \in Request : Consistent(ordering'[o])
  BY <1>1, <1>2 DEF CollInv, CollTypes
<1>4. Shown' \subseteq Shown /\ Shown \subseteq Article /\ \A a \in Shown' : orders'[a] = orders[a]
  BY <1>1 DEF CollInv, CollTypes, Shown
<1>5. ASSUME slips' \cap {"overlap", "outdated", "returned"} = {}
      PROVE  Cardinality(Shown') <= Limit
  <2>1. slips \cap {"overlap", "outdated", "returned"} = {}
    BY <1>2, <1>5
  <2>2. Cardinality(Shown) <= Limit
    BY <2>1 DEF CollInv, RoomLeft
  <2>3. /\ Cardinality(Shown') <= Cardinality(Shown)
        /\ Cardinality(Shown') \in Nat /\ Cardinality(Shown) \in Nat
    BY <1>4, CollSets
  <2> QED
    BY <2>2, <2>3, CommunityAssumption
<1>6. slips' = {} => \A a, b \in Shown' : orders'[a] = orders'[b] => a = b
  BY <1>2, <1>4 DEF CollInv, Told
<1> QED
  BY <1>2, <1>3, <1>5, <1>6, CollChanges

\* An article is archived or banned, or comes back.
LEMMA CollState ==
  ASSUME CollInv, NEW x \in Article, Coll!ChangeState(x)
  PROVE  CollInv'
<1>1. /\ active' = (IF x \in active THEN active \ {x} ELSE active \cup {x})
      /\ UNCHANGED <<orders, replica, ordering>>
      /\ slips' = slips \cup (IF x \in active THEN {} ELSE {"returned"})
                        \cup (IF \E r \in Request : ordering[r] # Coll!Idle THEN {"overlap"} ELSE {})
  BY DEF Coll!ChangeState
<1>2. /\ slips \subseteq slips' /\ slips' \subseteq {"overlap", "outdated", "too_fine", "returned"}
      /\ "overlap" \notin slips' => \A o \in Request : ordering'[o].step = "idle"
      /\ "returned" \notin slips' => x \in active
  BY <1>1, CollIdle DEF CollInv, CollTypes
<1>3. CollTypes' /\ \A o \in Request : Consistent(ordering'[o])
  BY <1>1, <1>2 DEF CollInv, CollTypes
<1>4. /\ Shown \subseteq Article
      /\ "returned" \notin slips' =>
           Shown' \subseteq Shown /\ \A a \in Shown' : orders'[a] = orders[a]
  BY <1>1, <1>2 DEF CollInv, CollTypes, Shown
<1>5. ASSUME slips' \cap {"overlap", "outdated", "returned"} = {}
      PROVE  Cardinality(Shown') <= Limit
  <2>1. slips \cap {"overlap", "outdated", "returned"} = {}
    BY <1>2, <1>5
  <2>2. Cardinality(Shown) <= Limit
    BY <2>1 DEF CollInv, RoomLeft
  <2>3. /\ Cardinality(Shown') <= Cardinality(Shown)
        /\ Cardinality(Shown') \in Nat /\ Cardinality(Shown) \in Nat
    BY <1>4, <1>5, CollSets
  <2> QED
    BY <2>2, <2>3, CommunityAssumption
<1>6. slips' = {} => \A a, b \in Shown' : orders'[a] = orders'[b] => a = b
  BY <1>2, <1>4 DEF CollInv, Told
<1> QED
  BY <1>2, <1>3, <1>5, <1>6, CollChanges

\* The replica catches up.
LEMMA CollReplicate == CollInv /\ Coll!Replicate => CollInv'
<1> SUFFICES ASSUME CollInv, Coll!Replicate PROVE CollInv'
  OBVIOUS
<1>1. replica' = orders /\ UNCHANGED <<orders, active, ordering, slips>>
  BY DEF Coll!Replicate
<1>2. CollTypes'
  BY <1>1 DEF CollInv, CollTypes
<1>3. Shown' = Shown
  BY <1>1 DEF Shown
<1>4. RoomLeft' /\ Told'
  BY <1>1, <1>3 DEF CollInv, RoomLeft, Told, AsTable
<1> QED
  BY <1>1, <1>2, <1>4 DEF CollInv

\* The order an article is given is a number.
LEMMA NewOrderIs ==
  ASSUME NEW h \in Seq(Nat), NEW from \in 1..Len(h), NEW to \in 1..Len(h)
  PROVE  Coll!NewOrder(h, from, to) \in Nat
<1>n. PICK n \in Nat : n = Len(h)
  OBVIOUS
<1>1. \A i \in 1..n : h[i] \in Nat
  BY <1>n
<1>2. CASE to = 1
  BY <1>1, <1>2, <1>n, CommunityAssumption DEF Coll!NewOrder
<1>3. CASE to = n /\ to # 1
  <2>1. Coll!NewOrder(h, from, to) = h[to] \div 2 /\ h[to] \in Nat
    BY <1>1, <1>3, <1>n DEF Coll!NewOrder
  <2> QED
    BY <2>1, Halves
<1>4. CASE to # n /\ to # 1
  <2>r. PICK rest : rest = Coll!RemoveAt(h, from)
    OBVIOUS
  <2>1. \A i \in 1..(n - 1) : rest[i] = IF i < from THEN h[i] ELSE h[i + 1]
    BY <1>n, <2>r, Removed
  <2>2. rest[to] \in Nat /\ rest[to - 1] \in Nat
    <3>1. to \in 1..(n - 1) /\ to - 1 \in 1..(n - 1)
      BY <1>4, <1>n
    <3>2. \A i \in 1..(n - 1) : i \in 1..n /\ i + 1 \in 1..n
      BY <1>n
    <3> QED
      BY <1>1, <2>1, <3>1, <3>2
  <2>3. Coll!NewOrder(h, from, to) = (rest[to] + rest[to - 1]) \div 2
    <3>1. Coll!NewOrder(h, from, to) = Coll!Between(rest, to)
      BY <1>4, <1>n, <2>r DEF Coll!NewOrder
    <3> QED
      BY <3>1 DEF Coll!Between
  <2> QED
    BY <2>2, <2>3, Halves
<1> QED
  BY <1>2, <1>3, <1>4

\* The move that is next, where its article is, and what is left to do.
LEMMA NextMove ==
  ASSUME NEW q \in CollRequest, Consistent(q), q.step = "move",
         NEW from, from = Coll!PlaceOf(q.list, Head(q.moves).article)
  PROVE  /\ from \in 1..Len(q.list) /\ q.list[from] = Head(q.moves).article
         /\ Head(q.moves).to \in 1..Len(q.list) /\ Head(q.moves).article \in Article
         /\ Tail(q.moves) \in Seq(CollMove)
         /\ \A k \in 1..Len(Tail(q.moves)) :
              /\ Tail(q.moves)[k].article \in Elements(q.list)
              /\ Tail(q.moves)[k].to \in 1..Len(q.list)
<1>m. PICK moves : moves = q.moves
  OBVIOUS
<1>1. moves \in Seq(CollMove) /\ moves # <<>> /\ q.list \in Seq(Article)
  BY <1>m DEF CollRequest, Consistent
<1>2. \A k \in 1..Len(moves) :
        moves[k].article \in Elements(q.list) /\ moves[k].to \in 1..Len(q.list)
  BY <1>m DEF Consistent
<1>3. Len(moves) \in Nat /\ Len(moves) >= 1 /\ Head(moves) = moves[1]
  BY <1>1
<1>4. Head(moves).article \in Elements(q.list) /\ Head(moves).to \in 1..Len(q.list)
  BY <1>2, <1>3
<1>5. \E i \in DOMAIN q.list : q.list[i] = Head(moves).article
  BY <1>1, <1>4 DEF Elements
<1>6. from \in DOMAIN q.list /\ q.list[from] = Head(moves).article
  BY <1>5, <1>m DEF Coll!PlaceOf
<1>7. /\ Tail(moves) \in Seq(CollMove) /\ Len(Tail(moves)) = Len(moves) - 1
      /\ \A k \in 1..(Len(moves) - 1) : Tail(moves)[k] = moves[k + 1]
  BY <1>1, <1>3
<1>8. ASSUME NEW k \in 1..Len(Tail(moves))
      PROVE  Tail(moves)[k].article \in Elements(q.list) /\ Tail(moves)[k].to \in 1..Len(q.list)
  <2>1. k + 1 \in 1..Len(moves) /\ Tail(moves)[k] = moves[k + 1]
    BY <1>3, <1>7
  <2> QED
    BY <1>2, <2>1
<1>9. Head(moves).article \in Article
  <2>1. moves[1] \in CollMove
    BY <1>1, <1>3
  <2> QED
    BY <1>3, <2>1 DEF CollMove
<1> QED
  BY <1>1, <1>4, <1>6, <1>7, <1>8, <1>9, <1>m

\* A move that leads nowhere is done.
LEMMA CollStays ==
  ASSUME CollInv, NEW r \in Request, Coll!MoveArticle(r),
         NEW from, from = Coll!PlaceOf(ordering[r].list, Head(ordering[r].moves).article),
         from = Head(ordering[r].moves).to
  PROVE  CollInv'
<1>q. PICK q : q = ordering[r]
  OBVIOUS
<1>1. q.step = "move"
  BY <1>q DEF Coll!MoveArticle
<1>2. /\ q \in CollRequest /\ Consistent(q)
      /\ "overlap" \notin slips => \A o \in Request : o # r => ordering[o].step = "idle"
      /\ slips \subseteq {"overlap", "outdated", "too_fine", "returned"}
  BY <1>1, <1>q, CollAlone
<1>f. from = Coll!PlaceOf(q.list, Head(q.moves).article)
  BY <1>q
<1>3. /\ from \in 1..Len(q.list) /\ q.list[from] = Head(q.moves).article
      /\ Tail(q.moves) \in Seq(CollMove)
      /\ \A k \in 1..Len(Tail(q.moves)) :
           /\ Tail(q.moves)[k].article \in Elements(q.list)
           /\ Tail(q.moves)[k].to \in 1..Len(q.list)
  BY <1>1, <1>2, <1>f, NextMove
<1>4. q.wanted = q.list /\ q.list \in Seq(Article)
  BY <1>1, <1>2 DEF Consistent, CollRequest
<1>5. Coll!Moved(q.list, from, from) = q.list
  <2>1. MoveIn(Article, q.list, from, from, Coll!Moved(q.list, from, from))
    BY <1>3, <1>4, SMTT(20) DEF MoveIn
  <2> QED
    BY <2>1, MovedSame
<1> DEFINE after == [q EXCEPT !.moves = Tail(q.moves), !.wanted = q.list]
           next == IF after.moves = <<>> THEN [after EXCEPT !.step = "answer"] ELSE after
<1>6. /\ ordering' = [ordering EXCEPT ![r] = next]
      /\ UNCHANGED <<orders, slips, replica, active>>
  <2>1. Coll!Moved(q.wanted, Coll!PlaceOf(q.wanted, Head(q.moves).article), from) = q.list
    BY <1>4, <1>5, <1>f
  <2> QED
    BY <1>f, <1>q, <2>1 DEF Coll!MoveArticle
<1>7. after \in CollRequest
  BY <1>2, <1>3, <1>4 DEF CollRequest
<1>8. /\ next \in CollRequest /\ next.step \in {"move", "answer"}
      /\ next.step = "move" => next.moves # <<>>
      /\ next.list = q.list /\ next.wanted = q.list /\ next.moves = Tail(q.moves)
      /\ next.orders = q.orders /\ next.next = q.next
  BY <1>1, <1>2, <1>7 DEF CollRequest
<1> HIDE DEF next, after
<1>9. Consistent(next)
  BY <1>1, <1>2, <1>3, <1>8 DEF Consistent
<1>10. ASSUME slips' = {} PROVE AsTable(next)
  <2>1. AsTable(q)
    BY <1>1, <1>6, <1>10, <1>q DEF CollInv, Told
  <2> QED
    BY <1>8, <2>1 DEF AsTable
<1> QED
  BY <1>2, <1>6, <1>8, <1>9, <1>10, CollProceeds

\* A move puts an article in between its new neighbours.
LEMMA CollLeads ==
  ASSUME CollInv, NEW r \in Request, Coll!MoveArticle(r),
         NEW from, from = Coll!PlaceOf(ordering[r].list, Head(ordering[r].moves).article),
         NEW to, to = Head(ordering[r].moves).to, from # to
  PROVE  CollInv'
<1>q. PICK q : q = ordering[r]
  OBVIOUS
<1>l. PICK list, h, a : list = q.list /\ h = q.orders /\ a = Head(q.moves).article
  OBVIOUS
<1>f. from = Coll!PlaceOf(list, a) /\ to = Head(q.moves).to
  BY <1>l, <1>q
<1>1. q.step = "move"
  BY <1>q DEF Coll!MoveArticle
<1>2. /\ q \in CollRequest /\ Consistent(q)
      /\ "overlap" \notin slips => \A o \in Request : o # r => ordering[o].step = "idle"
      /\ slips \subseteq {"overlap", "outdated", "too_fine", "returned"}
  BY <1>1, <1>q, CollAlone
<1>3. /\ from \in 1..Len(list) /\ list[from] = a /\ to \in 1..Len(list) /\ a \in Article
      /\ Tail(q.moves) \in Seq(CollMove)
      /\ \A k \in 1..Len(Tail(q.moves)) :
           Tail(q.moves)[k].article \in Elements(list) /\ Tail(q.moves)[k].to \in 1..Len(list)
  BY <1>1, <1>2, <1>f, <1>l, NextMove
<1>4. /\ q.wanted = list /\ list \in Seq(Article) /\ h \in Seq(Nat) /\ Len(h) = Len(list)
      /\ Once(list)
  BY <1>1, <1>2, <1>l DEF Consistent, CollRequest
<1>n. PICK n \in Nat : n = Len(list)
  BY <1>4
<1>i. from \in 1..n /\ to \in 1..n /\ from \in 1..Len(h) /\ to \in 1..Len(h)
  BY <1>3, <1>4, <1>n
<1>w. PICK new : new = Coll!NewOrder(h, from, to)
  OBVIOUS
<1>5. new \in Nat
  BY <1>4, <1>i, <1>w, NewOrderIs
<1>g. PICK g : g = [h EXCEPT ![from] = new]
  OBVIOUS
<1>6. g \in Seq(Nat) /\ Len(g) = n
  BY <1>4, <1>5, <1>g, <1>i, <1>n
<1>h. PICK held, list2 : held = Coll!Moved(g, from, to) /\ list2 = Coll!Moved(list, from, to)
  OBVIOUS
<1>7. held \in Seq(Nat) /\ Len(held) = n
  <2>1. MoveIn(Nat, g, from, to, held)
    BY <1>6, <1>h, <1>i DEF MoveIn
  <2> QED
    BY <1>6, <2>1, MovedSlots
<1>m. MoveIn(Article, list, from, to, list2)
  BY <1>3, <1>4, <1>h DEF MoveIn
<1>8. /\ list2 \in Seq(Article) /\ Len(list2) = n
      /\ \A i \in 1..n : list2[i] = list[Slot(i, from, to)]
  BY <1>m, <1>n, MovedSlots
<1>9. Elements(list2) = Elements(list) /\ Once(list2)
  BY <1>4, <1>m, MovedSame, SMTT(20)
<1> DEFINE done == [q EXCEPT !.list = list2, !.orders = held]
           after == [done EXCEPT !.moves = Tail(q.moves), !.wanted = list2]
           next == IF after.moves = <<>> THEN [after EXCEPT !.step = "answer"] ELSE after
<1>10. /\ ordering' = [ordering EXCEPT ![r] = next]
       /\ orders' = IF a \notin DOMAIN orders THEN orders ELSE [orders EXCEPT ![a] = new]
       /\ slips' = IF \E i \in DOMAIN held : i # to /\ held[i] = new
                   THEN slips \cup {"too_fine"} ELSE slips
       /\ UNCHANGED <<replica, active>>
  BY <1>4, <1>f, <1>g, <1>h, <1>l, <1>q, <1>w, Zenon DEF Coll!MoveArticle
<1>11. done \in CollRequest /\ done.step = "move"
  BY <1>1, <1>2, <1>7, <1>8 DEF CollRequest
<1>12. after \in CollRequest /\ after.step = "move"
  BY <1>3, <1>8, <1>11 DEF CollRequest
<1>13. /\ next \in CollRequest /\ next.step \in {"move", "answer"}
       /\ next.step = "move" => next.moves # <<>>
       /\ next.list = list2 /\ next.wanted = list2 /\ next.moves = Tail(q.moves)
       /\ next.orders = held
  <2>1. after.list = list2 /\ after.wanted = list2 /\ after.orders = held /\ after.moves = Tail(q.moves)
    BY <1>2 DEF CollRequest
  <2> HIDE DEF after
  <2> QED
    BY <1>12, <2>1 DEF CollRequest
<1> HIDE DEF next, after, done
<1>14. Consistent(next)
  <2>1. Len(list2) = Len(list) /\ Len(held) = Len(list2)
    BY <1>7, <1>8, <1>n
  <2> QED
    BY <1>3, <1>9, <1>13, <2>1 DEF Consistent
<1>15. /\ orders \in [DOMAIN orders -> Nat] /\ DOMAIN orders \subseteq Article
       /\ ordering \in [Request -> CollRequest]
  BY DEF CollInv, CollTypes
<1>16. /\ ordering' \in [Request -> CollRequest] /\ ordering'[r] = next
       /\ \A o \in Request : o # r => ordering'[o] = ordering[o]
  BY <1>10, <1>13, <1>15
<1>17. /\ DOMAIN orders' = DOMAIN orders /\ orders' \in [DOMAIN orders -> Nat]
       /\ \A b \in DOMAIN orders : orders'[b] = IF b = a THEN new ELSE orders[b]
  BY <1>5, <1>10, <1>15
<1>18. /\ slips \subseteq slips' /\ slips' \subseteq {"overlap", "outdated", "too_fine", "returned"}
       /\ slips' \cap {"overlap", "outdated", "returned"} = slips \cap {"overlap", "outdated", "returned"}
       /\ "overlap" \notin slips' => "overlap" \notin slips
  BY <1>2, <1>10
<1>19. CollTypes'
  BY <1>10, <1>15, <1>16, <1>17, <1>18 DEF CollInv, CollTypes
<1>20. \A o \in Request : Consistent(ordering'[o])
  BY <1>14, <1>16 DEF CollInv
<1>21. "overlap" \notin slips' =>
         \A o, p \in Request : ordering'[o].step # "idle" /\ ordering'[p].step # "idle" => o = p
  BY <1>2, <1>16, <1>18
<1>22. Shown' = Shown
  BY <1>10, <1>17 DEF Shown
<1>23. RoomLeft'
  <2> SUFFICES ASSUME slips' \cap {"overlap", "outdated", "returned"} = {}
               PROVE  /\ Cardinality(Shown) <= Limit
                      /\ \A o \in Request : ordering'[o].step \in {"max", "insert"} =>
                           Cardinality(Shown) + Len(ordering'[o].list) <= Limit
    BY <1>22 DEF RoomLeft
  <2>1. /\ Cardinality(Shown) <= Limit
        /\ \A o \in Request : ordering[o].step \in {"max", "insert"} =>
             Cardinality(Shown) + Len(ordering[o].list) <= Limit
    BY <1>18 DEF CollInv, RoomLeft
  <2> QED
    BY <1>13, <1>16, <2>1
<1>24. ASSUME slips' = {}
       PROVE  /\ \A b, c \in Shown : orders'[b] = orders'[c] => b = c
              /\ Elements(list2) = Shown
              /\ \A i \in 1..n : held[i] = orders'[list2[i]]
              /\ \A i, j \in 1..n : i < j => held[i] > held[j]
  <2>1. slips = {} /\ \A i \in DOMAIN held : i # to => held[i] # new
    BY <1>10, <1>24
  <2>2. Elements(list) = Shown /\ \A i \in 1..n : h[i] = orders[list[i]]
    BY <1>1, <1>l, <1>n, <1>q, <2>1 DEF CollInv, Told, AsTable
  <2>3. Descending(h)
    BY <1>1, <1>4, <1>l, <1>q, <2>1 DEF CollInv, Told, AsTable, Descending
  <2>4. /\ held[to] = new /\ \A i \in 1..n : i # to => held[i] = h[Slot(i, from, to)]
        /\ (\A i \in 1..n : i # to => held[i] # new) => Descending(held)
    <3>1. n = Len(h) /\ MoveOf(h, from, to, new, held)
      BY <1>4, <1>g, <1>h, <1>n, <1>w DEF MoveOf
    <3> QED
      BY <1>4, <1>i, <2>3, <3>1, MovedDescends
  <2>5. DOMAIN held = 1..n
    BY <1>7
  <2>6. \A i, j \in 1..n : i < j => held[i] > held[j]
    BY <1>7, <2>1, <2>4, <2>5 DEF Descending
  <2>7. ASSUME NEW i \in 1..n PROVE list[i] \in Shown /\ list[i] \in DOMAIN orders
    BY <1>n, <2>2 DEF Elements, Shown
  <2>8. ASSUME NEW i \in 1..n PROVE held[i] = orders'[list2[i]]
    <3>1. CASE i = to
      <4>1. Slot(i, from, to) = from
        BY <3>1 DEF Slot
      <4>2. list2[i] = a /\ a \in DOMAIN orders
        <5>1. list2[i] = list[from]
          BY <1>8, <4>1
        <5> QED
          BY <1>3, <1>i, <2>7, <5>1
      <4> QED
        BY <1>17, <2>4, <3>1, <4>2
    <3>2. CASE i # to
      <4>k. PICK k : k = Slot(i, from, to)
        OBVIOUS
      <4>1. k \in 1..n /\ k # from
        BY <1>i, <1>n, <3>2, <4>k DEF Slot
      <4>2. list[k] # a
        BY <1>3, <1>4, <1>i, <1>n, <4>1 DEF Once
      <4>3. orders'[list[k]] = orders[list[k]]
        BY <1>17, <2>7, <4>1, <4>2
      <4> QED
        <5>1. list2[i] = list[k] /\ held[i] = h[k]
          BY <1>8, <2>4, <3>2, <4>k
        <5>2. h[k] = orders[list[k]]
          BY <2>2, <4>1
        <5> QED
          BY <4>3, <5>1, <5>2
    <3> QED
      BY <3>1, <3>2
  <2>9. ASSUME NEW b \in Shown, NEW c \in Shown, orders'[b] = orders'[c] PROVE b = c
    <3>1. PICK i \in 1..n, j \in 1..n : b = list2[i] /\ c = list2[j]
      BY <1>8, <1>9, <2>2 DEF Elements
    <3>2. held[i] = held[j] /\ held[i] \in Nat
      BY <1>7, <2>8, <2>9, <3>1
    <3>3. ~(held[i] > held[j]) /\ ~(held[j] > held[i])
      BY <3>2
    <3>4. ~(i < j) /\ ~(j < i)
      BY <2>6, <3>3
    <3>5. i \in Nat /\ j \in Nat
      BY <1>n
    <3>6. i = j
      BY <3>4, <3>5
    <3> QED
      BY <3>1, <3>6
  <2> QED
    BY <1>9, <2>2, <2>6, <2>8, <2>9
<1>25. Told'
  <2>1. ASSUME slips' = {}
        PROVE  /\ \A b, c \in Shown : orders'[b] = orders'[c] => b = c
               /\ \A o \in Request : o # r => ordering'[o].step = "idle"
    BY <1>2, <1>16, <1>18, <1>24, <2>1
  <2>2. ASSUME slips' = {}, NEW o \in Request, ordering'[o].step \in {"move", "answer"}
        PROVE  /\ Elements(ordering'[o].list) = Shown
               /\ \A i \in 1..Len(ordering'[o].list) :
                    ordering'[o].orders[i] = orders'[ordering'[o].list[i]]
               /\ \A i, j \in 1..Len(ordering'[o].list) :
                    i < j => ordering'[o].orders[i] > ordering'[o].orders[j]
    <3>1. o = r /\ ordering'[o] = next
      BY <1>16, <2>1, <2>2
    <3>2. ordering'[o].list = list2 /\ ordering'[o].orders = held /\ Len(list2) = n
      BY <1>8, <1>13, <3>1
    <3> QED
      BY <1>24, <2>2, <3>2
  <2>3. ASSUME slips' = {}, NEW o \in Request PROVE ordering'[o].step # "insert"
    BY <1>13, <1>16, <2>1, <2>3
  <2> QED
    BY <1>22, <2>1, <2>2, <2>3 DEF Told, AsTable
<1> QED
  BY <1>19, <1>20, <1>21, <1>23, <1>25 DEF CollInv

\* Either way the collection stays in its invariant.
LEMMA CollMoves ==
  ASSUME CollInv, NEW r \in Request, Coll!MoveArticle(r)
  PROVE  CollInv'
<1>1. PICK from, to :
        /\ from = Coll!PlaceOf(ordering[r].list, Head(ordering[r].moves).article)
        /\ to = Head(ordering[r].moves).to
  OBVIOUS
<1> QED
  BY <1>1, CollStays, CollLeads

\* Every action keeps the invariant.
LEMMA CollNext == CollInv /\ Coll!Next => CollInv'
<1> SUFFICES ASSUME CollInv, Coll!Next PROVE CollInv'
  OBVIOUS
<1>1. CASE \E r \in Request : \E new \in Coll!SetToAllKPermutations(Article), there \in SUBSET Article :
             Coll!ValidateAdd(r, new, there)
  BY <1>1, CollValidate
<1>2. CASE \E r \in Request : Coll!ReadOrder(r) \/ Coll!ReadMax(r) \/ Coll!InsertArticles(r)
                                \/ Coll!MoveArticle(r) \/ Coll!Answer(r)
  BY <1>2, CollReadOrder, CollReadMax, CollInsert, CollMoves, CollAnswer
<1>3. CASE (\E a \in Article : Coll!RemoveArticles({a}) \/ Coll!ChangeState(a)) \/ Coll!Replicate
  BY <1>3, CollRemove, CollState, CollReplicate
<1> QED
  BY <1>1, <1>2, <1>3 DEF Coll!Next

\* A step that leaves the collection alone.
LEMMA CollStutter == CollInv /\ UNCHANGED collectionVars => CollInv'
<1> SUFFICES ASSUME CollInv, UNCHANGED collectionVars PROVE CollInv'
  OBVIOUS
<1>1. UNCHANGED <<orders, replica, active, ordering, slips>>
  BY DEF collectionVars
<1>2. Shown' = Shown
  BY <1>1 DEF Shown
<1>3. CollTypes'
  BY <1>1 DEF CollInv, CollTypes
<1>4. RoomLeft'
  BY <1>1, <1>2 DEF CollInv, RoomLeft
<1>5. Told'
  BY <1>1, <1>2 DEF CollInv, Told, AsTable
<1> QED
  BY <1>1, <1>3, <1>4, <1>5 DEF CollInv

\* What the invariant says of the collection.
LEMMA CollSafe == CollInv => Coll!TypeOK /\ Coll!ReorderedAsAsked /\ Coll!WithinCapacity
<1> SUFFICES ASSUME CollInv PROVE Coll!TypeOK /\ Coll!ReorderedAsAsked /\ Coll!WithinCapacity
  OBVIOUS
<1>1. Coll!TypeOK
  BY DEF CollInv, CollTypes, Coll!TypeOK
<1>2. Coll!WithinCapacity
  <2>1. DOMAIN orders \cap active = Shown
    BY DEF Shown
  <2> QED
    BY <2>1, CollCounts DEF CollInv, RoomLeft, Coll!WithinCapacity
<1>3. ASSUME slips = {}, NEW r \in Request, ordering[r].step = "answer"
      PROVE  Coll!Listings(orders) = {ordering[r].wanted}
  <2>1. /\ CollTypes /\ ordering[r] \in CollRequest /\ Consistent(ordering[r])
        /\ \A a, b \in Shown : orders[a] = orders[b] => a = b
        /\ AsTable(ordering[r])
    BY <1>3 DEF CollInv, CollTypes, Told
  <2>2. /\ ordering[r].wanted = ordering[r].list /\ Once(ordering[r].list)
        /\ Len(ordering[r].orders) = Len(ordering[r].list)
    BY <1>3, <2>1 DEF Consistent
  <2> QED
    BY <2>1, <2>2, ListedUniquely
<1>4. Coll!ReorderedAsAsked
  BY <1>3 DEF Coll!ReorderedAsAsked
<1> QED
  BY <1>1, <1>2, <1>4

-----------------------------------------------------------------------------
(* Community.                                                                *)

\* Nothing but the steps of its own part changes what a part keeps.
CommInv ==
  /\ focus = "channel" => ChanInv
  /\ focus = "watch" => WatchInv
  /\ focus = "subscription" => SubInv
  /\ focus = "vault" => VaultInv
  /\ focus = "like" => LikeInv
  /\ focus = "pins" => PinInv
  /\ focus = "collection" => CollInv
  /\ focus = "works" => WorkInv

\* Every part begins in its invariant.
LEMMA CommInit == Init => CommInv
BY ChanInit, WatchInit, SubInit, VaultInit, LikeInit, PinInit, CollInit, WorkInit DEF Init, CommInv

\* A step of a part keeps its invariant.
LEMMA CommStep == CommInv /\ Next => CommInv'
<1> SUFFICES ASSUME CommInv, Next PROVE CommInv'
  OBVIOUS
<1>1. CASE ChanStep
  BY <1>1, ChanNext DEF ChanStep, CommInv
<1>2. CASE WatchStep
  BY <1>2, WatchNext DEF WatchStep, CommInv
<1>3. CASE SubStep
  BY <1>3, SubNext DEF SubStep, CommInv
<1>4. CASE VaultStep
  BY <1>4, VaultNext DEF VaultStep, CommInv
<1>5. CASE LikeStep
  BY <1>5, LikeNext DEF LikeStep, CommInv
<1>6. CASE PinStep
  BY <1>6, PinNext DEF PinStep, CommInv
<1>7. CASE CollStep
  BY <1>7, CollNext DEF CollStep, CommInv
<1>8. CASE WorkStep
  BY <1>8, WorkNext DEF WorkStep, CommInv
<1> QED
  BY <1>1, <1>2, <1>3, <1>4, <1>5, <1>6, <1>7, <1>8 DEF Next

\* A step that changes nothing keeps them too.
LEMMA CommStutter == CommInv /\ UNCHANGED vars => CommInv'
<1> SUFFICES ASSUME CommInv, UNCHANGED vars PROVE CommInv'
  OBVIOUS
<1>1. /\ focus' = focus
      /\ UNCHANGED chanVars /\ UNCHANGED watchVars /\ UNCHANGED subVars
      /\ UNCHANGED vaultVars /\ UNCHANGED likePayVars
      /\ UNCHANGED pinVars /\ UNCHANGED collectionVars /\ UNCHANGED pinnedVars
  BY DEF vars
<1>2. ASSUME ChanInv PROVE ChanInv'
  BY <1>1, <1>2 DEF chanVars, ChanInv, ChanTypes, ResolutionsKnow
<1>3. ASSUME WatchInv PROVE WatchInv'
  BY <1>1, <1>3 DEF watchVars, WatchInv, WatchTypes, LatestStands, CasesFollow, OutcomeTold,
                    CaseTold, IsLatest, Unexcepted, Watch!StandingRemovalHides, Watch!Active
<1>4. ASSUME LikeInv PROVE LikeInv'
  BY <1>1, <1>4 DEF likePayVars, LikeInv, LikeTypes, PostedIsPaid, OneRowKeyed, SuccessRecorded
<1>5. ASSUME PinInv PROVE PinInv'
  <2>1. UNCHANGED <<kind, listed, pinned, older, topic, pinsAsked, strained>>
    BY <1>1 DEF pinVars
  <2> QED
    BY <1>5, <2>1 DEF PinInv, PinTypes, OneAtWork, RoomMade, Ages, Wanted
<1>6. ASSUME WorkInv PROVE WorkInv'
  <2>1. UNCHANGED <<works, writer, written, workSlips>>
    BY <1>1 DEF pinnedVars
  <2>2. /\ Work!Pinned(Paper)' = Work!Pinned(Paper)
        /\ Work!Pinned(Work!Work)' = Work!Pinned(Work!Work)
    BY <2>1 DEF Work!Pinned, Work!Counted
  <2>3. WorkTypes'
    BY <1>6, <2>1 DEF WorkInv, WorkTypes
  <2>4. CountsHold'
    BY <1>6, <2>1, <2>2 DEF WorkInv, CountsHold
  <2> QED
    BY <2>3, <2>4 DEF WorkInv
<1> QED
  BY <1>1, <1>2, <1>3, <1>4, <1>5, <1>6, SubStutter, VaultStutter, CollStutter DEF CommInv

\* The invariants hold throughout, whatever part is looked at.
LEMMA AlwaysComm == Spec => []CommInv
<1>1. CommInv /\ [Next]_vars => CommInv'
  BY CommStep, CommStutter
<1> QED
  BY <1>1, CommInit, PTL DEF Spec

(* No order of classifications, decisions of staff and edits of the author, and
   none of removals, appeals, reviews and folds, lets a machine or a late request
   overrule what staff decided (StaffDecisionsStand). *)
THEOREM StaffNotOverruled == Spec => StaffDecisionsStand
<1>1. CommInv /\ CommInv' /\ [Next]_vars =>
        [ /\ focus = "channel" =>
               Chan!LabelsStand /\ Chan!AutoKeepsLabels /\ Chan!VerdictStands
          /\ focus = "watch" =>
               Watch!StandingRemovalHides' /\ Watch!CaseTellsDecision'
                 /\ Watch!DeletedStaysDeleted ]_vars
  <2> SUFFICES ASSUME CommInv, CommInv', Next
               PROVE  /\ focus = "channel" =>
                           Chan!LabelsStand /\ Chan!AutoKeepsLabels /\ Chan!VerdictStands
                      /\ focus = "watch" =>
                           Watch!StandingRemovalHides' /\ Watch!CaseTellsDecision'
                             /\ Watch!DeletedStaysDeleted
    OBVIOUS
  <2>1. focus' = focus
    BY DEF Next, PinStep, ChanStep, CollStep, WorkStep, WatchStep, SubStep, VaultStep, LikeStep
  <2>2. ASSUME focus = "channel"
        PROVE  Chan!LabelsStand /\ Chan!AutoKeepsLabels /\ Chan!VerdictStands
    <3>1. ChanInv /\ Chan!Next
      BY <2>2 DEF CommInv, Next, PinStep, ChanStep, CollStep, WorkStep, WatchStep, SubStep,
                  VaultStep, LikeStep
    <3> QED
      BY <3>1, ChanNext
  <2>3. ASSUME focus = "watch"
        PROVE  Watch!StandingRemovalHides' /\ Watch!CaseTellsDecision' /\ Watch!DeletedStaysDeleted
    <3>1. WatchInv /\ Watch!Next
      BY <2>3 DEF CommInv, Next, PinStep, ChanStep, CollStep, WorkStep, WatchStep, SubStep,
                  VaultStep, LikeStep
    <3>2. WatchInv'
      BY <2>1, <2>3 DEF CommInv
    <3>3. Watch!StandingRemovalHides' /\ Watch!CaseTellsDecision'
      BY <3>2, WatchSafe, PTL
    <3> QED
      BY <3>1, <3>3, WatchDeleted
  <2> QED
    BY <2>2, <2>3
<1> QED
  BY <1>1, AlwaysComm, PTL DEF Spec, StaffDecisionsStand

(* Whatever is retried, delayed, doubled or lost between Stripe, the chain or Like
   Pay and the table, the table says of their payments what they are, with the
   exceptions named (PaymentsMatchProviders). *)
THEOREM PaymentsAgree == Spec => PaymentsMatchProviders
<1>1. CommInv /\ CommInv' /\ [Next]_vars =>
        [ /\ focus = "subscription" =>
               Sub!BilledIsMember' /\ Sub!InvoiceSplitOnce' /\ Sub!MembersStay
          /\ focus = "vault" => Vault!ClaimedWasPaid' /\ Vault!RowTellsPayment'
          /\ focus = "like" => Like!LikeRecordedOnce' /\ Like!PaidIsSettled' ]_vars
  <2> SUFFICES ASSUME CommInv, CommInv', Next
               PROVE  /\ focus = "subscription" =>
                           Sub!BilledIsMember' /\ Sub!InvoiceSplitOnce' /\ Sub!MembersStay
                      /\ focus = "vault" => Vault!ClaimedWasPaid' /\ Vault!RowTellsPayment'
                      /\ focus = "like" => Like!LikeRecordedOnce' /\ Like!PaidIsSettled'
    OBVIOUS
  <2>1. focus' = focus
    BY DEF Next, PinStep, ChanStep, CollStep, WorkStep, WatchStep, SubStep, VaultStep, LikeStep
  <2>2. ASSUME focus = "subscription"
        PROVE  Sub!BilledIsMember' /\ Sub!InvoiceSplitOnce' /\ Sub!MembersStay
    <3>1. SubInv /\ Sub!Next
      BY <2>2 DEF CommInv, Next, PinStep, ChanStep, CollStep, WorkStep, WatchStep, SubStep,
                  VaultStep, LikeStep
    <3>2. SubInv'
      BY <2>1, <2>2 DEF CommInv
    <3>3. Sub!BilledIsMember' /\ Sub!InvoiceSplitOnce'
      BY <3>2, SubSafe, PTL
    <3> QED
      BY <3>1, <3>3, SubMembersStay
  <2>3. ASSUME focus = "vault" PROVE Vault!ClaimedWasPaid' /\ Vault!RowTellsPayment'
    <3>1. VaultInv'
      BY <2>1, <2>3 DEF CommInv
    <3> QED
      BY <3>1, VaultSafe, PTL
  <2>4. ASSUME focus = "like" PROVE Like!LikeRecordedOnce' /\ Like!PaidIsSettled'
    <3>1. LikeInv'
      BY <2>1, <2>4 DEF CommInv
    <3> QED
      BY <3>1, LikeSafe, PTL
  <2> QED
    BY <2>2, <2>3, <2>4
<1> QED
  BY <1>1, AlwaysComm, PTL DEF Spec, PaymentsMatchProviders

(* No order of requests on a channel's pins, a collection or pinned works, and no
   delay of the replica that is not excepted, takes them over their limits, drops a
   younger pin for an older one or leaves a collection in another order than asked
   (PlacesKept). *)
THEOREM LimitsKept == Spec => PlacesKept
<1>1. CommInv /\ CommInv' /\ [Next]_vars =>
        [ /\ focus = "pins" => Pin!PinsBounded' /\ Pin!OldestGoFirst
          /\ focus = "collection" => Coll!ReorderedAsAsked' /\ Coll!WithinCapacity'
          /\ focus = "works" => Work!PinnedWithinLimit' ]_vars
  <2> SUFFICES ASSUME CommInv, CommInv', Next
               PROVE  /\ focus = "pins" => Pin!PinsBounded' /\ Pin!OldestGoFirst
                      /\ focus = "collection" => Coll!ReorderedAsAsked' /\ Coll!WithinCapacity'
                      /\ focus = "works" => Work!PinnedWithinLimit'
    OBVIOUS
  <2>1. focus' = focus
    BY DEF Next, PinStep, ChanStep, CollStep, WorkStep, WatchStep, SubStep, VaultStep, LikeStep
  <2>2. ASSUME focus = "pins" PROVE Pin!PinsBounded' /\ Pin!OldestGoFirst
    <3>1. PinInv /\ Pin!Next
      BY <2>2 DEF CommInv, Next, PinStep, ChanStep, CollStep, WorkStep, WatchStep, SubStep,
                  VaultStep, LikeStep
    <3>2. PinInv'
      BY <2>1, <2>2 DEF CommInv
    <3>3. Pin!PinsBounded'
      BY <3>2, PinSafe, PTL
    <3> QED
      BY <3>1, <3>3, PinNext
  <2>3. ASSUME focus = "collection" PROVE Coll!ReorderedAsAsked' /\ Coll!WithinCapacity'
    <3>1. CollInv'
      BY <2>1, <2>3 DEF CommInv
    <3> QED
      BY <3>1, CollSafe, PTL
  <2>4. ASSUME focus = "works" PROVE Work!PinnedWithinLimit'
    <3>1. WorkInv'
      BY <2>1, <2>4 DEF CommInv
    <3> QED
      BY <3>1, WorkSafe, PTL
  <2> QED
    BY <2>2, <2>3, <2>4
<1> QED
  BY <1>1, AlwaysComm, PTL DEF Spec, PlacesKept

(* Rows, requests and events keep their types in every part (TypeOK). *)
THEOREM CommunityTyped == Spec => []TypeOK
<1>1. CommInv => TypeOK
  BY PinSafe, ChanTypeOK, CollSafe, WorkSafe, WatchTyped, SubSafe, VaultSafe, LikeSafe
     DEF CommInv, TypeOK
<1> QED
  BY <1>1, AlwaysComm, PTL

=============================================================================
