--------------------------- MODULE ArticleChannel ---------------------------
(* The topic channels of one article (connectors/channel/channelService.ts,
   channelJobService.ts, channelClassifier.ts).

   Three parties write the rows (article, channel): the classifier, whose
   results a scheduled job fetches and stores; staff, who set the channels and
   review feedback; and the author, whose feedback may be resolved on the spot.
   A row is enabled or not and labeled or not: labeled is what staff decided,
   the rest is the classifier's.  Only the classifier's write is a transaction;
   every other statement is a step of its own.  Scores are left out: they rank
   articles within a channel. *)
EXTENDS Naturals, FiniteSets, Sequences

CONSTANTS
  Channel,    \* topic channels
  Task,       \* requests of staff and of the author under way at once
  MaxJobs,    \* how many classifications are asked for
  MaxTasks    \* how many requests are made

VARIABLES
  rows,       \* topic_channel_article of the article
  jobs,       \* states of its article_channel_job rows, oldest first
  sync,       \* the job syncProcessingJobs works on and the state it will get
  feedback,   \* the article's topic_channel_feedback
  task,       \* per request: where it is (late: a verdict was written meanwhile)
  made        \* requests made so far

chanVars == <<rows, jobs, sync, feedback, task, made>>

NoRow == [on |-> FALSE, labeled |-> FALSE, there |-> FALSE]
Row(on, labeled) == [on |-> on, labeled |-> labeled, there |-> TRUE]
NoFeedback == [state |-> "none", ids |-> {}]
Idle == [step |-> "idle", auto |-> FALSE, verdict |-> "none", want |-> {},
         add |-> {}, drop |-> {}, labels |-> {}, late |-> FALSE]
NoSync == [job |-> 0, state |-> "none"]

Init ==
  /\ rows = [c \in Channel |-> NoRow]
  /\ jobs = <<>>
  /\ sync = NoSync
  /\ feedback = NoFeedback
  /\ task = [t \in Task |-> Idle]
  /\ made = 0

Enabled == {c \in Channel : rows[c].on}
Labeled == {c \in Channel : rows[c].on /\ rows[c].labeled}
Latest == IF jobs = <<>> THEN "none" ELSE jobs[Len(jobs)]

-----------------------------------------------------------------------------
(* Classification *)

\* _classifyArticlesChannels after publication: the API takes the text, or it
\* fails and an error job is written, so that it is tried again.
Classify ==
  /\ jobs = <<>> /\ MaxJobs > 0
  /\ jobs' \in {<<"processing">>, <<"error">>}
  /\ UNCHANGED <<rows, sync, feedback, task, made>>

\* retryErrorJobs, retryRecentJobs: the text is sent again and gets a new job.
Retry ==
  /\ jobs # <<>>
  /\ Len(jobs) < MaxJobs
  /\ jobs' = Append(jobs, "processing")
  /\ UNCHANGED <<rows, sync, feedback, task, made>>

\* getProcessingJobs: only the latest job of an article counts.
ReadJob ==
  /\ sync = NoSync
  /\ Latest = "processing"
  /\ sync' = [job |-> Len(jobs), state |-> "asked"]
  /\ UNCHANGED <<rows, jobs, feedback, task, made>>

Scored_Replaces(scored) ==
  [c \in Channel |-> IF c \in scored THEN Row(TRUE, FALSE) ELSE NoRow]

\* insertChannelScores: the unlabeled rows make way for the scored channels.
Scored(scored) ==
  [c \in Channel |-> CASE rows[c].labeled -> rows[c]
                       [] c \in scored /\ ~rows[c].labeled -> Row(TRUE, FALSE)
                       [] OTHER -> NoRow]

\* The result of the job: its channels are stored, its state comes after.
StoreResult ==
  /\ sync.state = "asked"
  /\ \/ /\ \E scored \in SUBSET Channel \ {{}} : rows' = Scored(scored)
        /\ sync' = [sync EXCEPT !.state = "finished"]
     \/ /\ \E s \in {"finished", "processing", "error"} :
             sync' = [sync EXCEPT !.state = s]
        /\ UNCHANGED rows
  /\ UNCHANGED <<jobs, feedback, task, made>>

\* updateJobState
SetJobState ==
  /\ sync.state \in {"finished", "processing", "error"}
  /\ jobs' = [jobs EXCEPT ![sync.job] = sync.state]
  /\ sync' = NoSync
  /\ UNCHANGED <<rows, feedback, task, made>>

\* No answer from the API, or the Lambda is cut off.
SyncStops ==
  /\ sync # NoSync
  /\ sync' = NoSync
  /\ UNCHANGED <<rows, jobs, feedback, task, made>>

-----------------------------------------------------------------------------
(* Requests.  A request that sets channels goes through diff, add and drop;
   what follows depends on who made it. *)

Begin(t, r) ==
  /\ task[t].step = "idle" /\ made < MaxTasks
  /\ task' = [task EXCEPT ![t] = r]
  /\ made' = made + 1

\* setArticleTopicChannels by staff
AskSet(t, ids) ==
  /\ Begin(t, [Idle EXCEPT !.step = "diff", !.want = ids])
  /\ UNCHANGED <<rows, jobs, sync, feedback>>

\* reviewTopicChannelFeedback reads the feedback, whatever its state.
AskReview(t, verdict) ==
  /\ feedback.state # "none"
  /\ Begin(t, [Idle EXCEPT !.verdict = verdict,
                           !.step = IF verdict = "accepted" THEN "diff" ELSE "close",
                           !.want = IF verdict = "accepted" THEN feedback.ids ELSE {}])
  /\ UNCHANGED <<rows, jobs, sync, feedback>>

\* createNegativeFeedback, createPositiveFeedback: one feedback per article.
GiveFeedback(t, ids, state) ==
  /\ feedback = NoFeedback
  /\ feedback' = [state |-> state, ids |-> IF state = "positive" THEN {} ELSE ids]
  /\ Begin(t, [Idle EXCEPT !.step = IF state = "pending" THEN "try" ELSE "idle"])
  /\ UNCHANGED <<rows, jobs, sync>>

\* What a request does once the channels are set.
After(r) ==
  IF r.auto \/ r.verdict = "accepted"
    THEN [r EXCEPT !.step = "close", !.want = {}, !.drop = {}, !.labels = {}]
    ELSE [Idle EXCEPT !.step = "try"]

\* setArticleTopicChannels: what to add and what to drop, from the rows there.
Diff(t) ==
  LET add == task[t].want \ Enabled
      drop == Enabled \ task[t].want
      r == [task[t] EXCEPT !.want = {}, !.add = add, !.drop = drop]
  IN
  /\ task[t].step = "diff"
  /\ task' = [task EXCEPT ![t] =
       CASE add # {} -> [r EXCEPT !.step = "add"]
         [] add = {} /\ drop # {} -> [r EXCEPT !.step = "drop"]
         [] OTHER -> After(r)]
  /\ UNCHANGED <<rows, jobs, sync, feedback, made>>

\* The upsert leaves the label of a row alone in an automatic resolution.
AddRows(t) ==
  LET r == [task[t] EXCEPT !.add = {}] IN
  /\ task[t].step = "add"
  /\ rows' = [c \in Channel |->
               IF c \in task[t].add
                 THEN Row(TRUE, ~task[t].auto \/ rows[c].labeled) ELSE rows[c]]
  /\ task' = [task EXCEPT ![t] =
               IF r.drop # {} THEN [r EXCEPT !.step = "drop"] ELSE After(r)]
  /\ UNCHANGED <<jobs, sync, feedback, made>>

DropRows(t) ==
  /\ task[t].step = "drop"
  /\ rows' = [c \in Channel |->
               IF c \in task[t].drop /\ rows[c].there
                 THEN Row(FALSE, ~task[t].auto \/ rows[c].labeled) ELSE rows[c]]
  /\ task' = [task EXCEPT ![t] = After(task[t])]
  /\ UNCHANGED <<jobs, sync, feedback, made>>

\* canAutoResolveFeedback
Resolvable(ids) ==
  IF ids # {} THEN ids \subseteq Enabled ELSE Labeled = {}

MayResolve_AnyState == feedback.state # "none" /\ Resolvable(feedback.ids)

MayResolve == feedback.state = "pending" /\ Resolvable(feedback.ids)

\* tryAutoResolveArticleFeedback: a pending feedback the rows agree with
TryResolve(t) ==
  /\ task[t].step = "try"
  /\ task' = [task EXCEPT ![t] =
       IF MayResolve
         THEN [Idle EXCEPT !.step = "labels", !.auto = TRUE, !.verdict = "resolved",
                           !.want = feedback.ids]
         ELSE Idle]
  /\ UNCHANGED <<rows, jobs, sync, feedback, made>>

Target_OnlyAsked(r) == r.want

\* The channels set automatically: those asked for and those labeled.
Target(r) == r.want \cup Labeled

ReadLabels(t) ==
  /\ task[t].step = "labels"
  /\ task' = [task EXCEPT ![t].step = "diff", ![t].want = Target(task[t]),
                          ![t].labels = Labeled]
  /\ UNCHANGED <<rows, jobs, sync, feedback, made>>

\* The feedback gets its state by its id, whatever became of it meanwhile.
Close(t) ==
  /\ task[t].step = "close"
  /\ feedback' = [feedback EXCEPT !.state = task[t].verdict]
  /\ task' = [x \in Task |->
               IF x = t THEN Idle ELSE [task[x] EXCEPT !.late = task[x].auto]]
  /\ UNCHANGED <<rows, jobs, sync, made>>

\* The server stops in the middle of a request.
TaskStops(t) ==
  /\ task[t].step # "idle"
  /\ task' = [task EXCEPT ![t] = Idle]
  /\ UNCHANGED <<rows, jobs, sync, feedback, made>>

-----------------------------------------------------------------------------
Next ==
  \/ Classify \/ Retry \/ ReadJob \/ StoreResult \/ SetJobState \/ SyncStops
  \/ \E t \in Task :
       \/ \E ids \in SUBSET Channel :
            \/ AskSet(t, ids)
            \/ \E s \in {"pending", "positive"} : GiveFeedback(t, ids, s)
       \/ \E v \in {"accepted", "rejected"} : AskReview(t, v)
       \/ Diff(t) \/ AddRows(t) \/ DropRows(t) \/ TryResolve(t)
       \/ ReadLabels(t) \/ Close(t) \/ TaskStops(t)

Spec == Init /\ [][Next]_chanVars

-----------------------------------------------------------------------------
(* Rows, jobs and feedback keep their shape; a row that is not there is neither
   enabled nor labeled. *)
TypeOK ==
  /\ \A c \in Channel : rows[c] \in {NoRow} \cup {Row(o, l) : o, l \in BOOLEAN}
  /\ \A i \in DOMAIN jobs : jobs[i] \in {"processing", "finished", "error"}
  /\ sync.job \in 0..Len(jobs)
  /\ feedback.state \in {"none", "positive", "pending", "accepted", "rejected", "resolved"}

(* What staff labeled the classifier never overrides, however late a result
   arrives: a labeled row changes only in a step of a request. *)
LabelsStand ==
  [ \A c \in Channel :
        rows[c].labeled /\ rows'[c] # rows[c] => task' # task ]_chanVars

(* "auto resolve will not remove labeled channels" (channelService.ts:1288): a
   labeled channel is switched off by an automatic resolution only if it was
   not labeled and on when the resolution read the labels. *)
AutoKeepsLabels ==
  [ \A t \in Task, c \in Channel :
        /\ task[t].step = "drop" /\ task[t].auto /\ c \in Labeled
        /\ task'[t].step = "close" /\ ~rows'[c].on
        => c \notin task[t].labels ]_chanVars

(* What staff decided of a feedback an automatic resolution never replaces,
   unless it had found the feedback pending before that decision was written:
   the state is set by the id of the row (channelService.ts:1302). *)
VerdictStands ==
  [ feedback.state \in {"accepted", "rejected"} /\ feedback'.state = "resolved"
      => \E t \in Task : task[t].auto /\ task[t].late ]_chanVars
=============================================================================
