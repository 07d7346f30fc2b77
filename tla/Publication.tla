---------------------------- MODULE Publication -----------------------------
(* The life of one draft: editing, publishing, scheduling, cancelling, deleting
   (mutations/draft, mutations/article/publishArticle.ts), the scheduled job
   (handlers/scheduledPublish.ts) and publishArticle of
   connectors/article/publicationService.ts, which makes an article of it.

   The draft carries no lock and no condition is part of an update, so every
   read and every write of a request is a step of its own; the job reads its
   list from the replica.  A session that edits sends the updatedAt it knows;
   fresh holds the sessions for which it is still the draft's. *)
EXTENDS Naturals, FiniteSets

CONSTANTS
  Session,      \* requests of the author under way at once
  MaxRequests,  \* how many requests are made
  MaxFaults     \* errors and stops of a request or of the job

VARIABLES
  draft,      \* publish_state, archived and publish_at
  replica,    \* the draft as the read replica has it
  fresh,      \* sessions that know the draft as it is
  worker,     \* per session, and for the job: what it is doing
  articles,   \* articles made of the draft, counted up to Many
  requests, faults,
  raced       \* it was sent off or cancelled when another had sent it off already

pubVars == <<draft, replica, fresh, worker, articles, requests, faults, raced>>

Job == "scheduledPublish"
Worker == Session \cup {Job}
Many == 2
\* publish_at: not set, to come, within the last hour, longer ago
When == {"none", "future", "due", "missed"}

Rest == [step |-> "idle", at |-> "none", late |-> FALSE]

Init ==
  /\ draft = [state |-> "unpublished", archived |-> FALSE, at |-> "none"]
  /\ replica = draft
  /\ fresh = {}
  /\ worker = [w \in Worker |-> Rest]
  /\ articles = 0
  /\ requests = 0
  /\ faults = 0
  /\ raced = FALSE

Goto(w, s) == worker' = [worker EXCEPT ![w].step = s]

\* w writes the draft: the other sessions know an older one, and what passed
\* its checks already is late.
Write(w, d, next) ==
  /\ draft' = d
  /\ fresh' = fresh \cap {w}
  /\ worker' = [x \in Worker |-> IF x = w THEN next
                                 ELSE [worker[x] EXCEPT !.late = @ \/ worker[x].step \in {"edit", "plan", "send"}]]

-----------------------------------------------------------------------------
(* Time and the replica *)

\* The hour in which the job looks for a draft passes only if the job failed.
Elapse ==
  /\ \/ draft.at = "future" /\ draft' = [draft EXCEPT !.at = "due"]
     \/ draft.at = "due" /\ faults = MaxFaults /\ MaxFaults > 0
          /\ draft' = [draft EXCEPT !.at = "missed"]
  /\ replica' = [replica EXCEPT !.at = IF replica.at = draft.at THEN draft'.at ELSE @]
  /\ UNCHANGED <<fresh, worker, articles, requests, faults, raced>>

Replicate ==
  /\ replica # draft
  /\ replica' = draft
  /\ UNCHANGED <<draft, fresh, worker, articles, requests, faults, raced>>

-----------------------------------------------------------------------------
(* The author *)

Begin(s) ==
  /\ worker[s].step = "idle" /\ requests < MaxRequests
  /\ requests' = requests + 1

\* A session loads the draft to show it.
LoadDraft(s) ==
  /\ s \notin fresh
  /\ fresh' = fresh \cup {s}
  /\ UNCHANGED <<draft, replica, worker, articles, requests, faults, raced>>

Unsent_OrPending(d) == d.state # "published"

Unsent(d) == d.state = "unpublished"

Editable_NoConflict(s) == Unsent(draft)

\* validateDraft: not sent off, and nobody changed it since the session saw it.
Editable(s) == Unsent(draft) /\ s \in fresh

CheckEdit(s) ==
  /\ Begin(s) /\ Editable(s)
  /\ Goto(s, "edit")
  /\ UNCHANGED <<draft, replica, fresh, articles, faults, raced>>

PutDraft(s) ==
  /\ worker[s].step = "edit"
  /\ Write(s, draft, Rest)
  /\ UNCHANGED <<replica, articles, requests, faults, raced>>

\* deleteDraft: a draft already archived is not found.
DeleteDraft(s) ==
  /\ Begin(s)
  /\ ~draft.archived
  /\ Write(s, [draft EXCEPT !.archived = TRUE], worker[s])
  /\ UNCHANGED <<replica, articles, faults, raced>>

\* publishArticle, the mutation: the checks, with publishAt in the future
\* (schedule), null (cancel) or not given (now).
CheckPublish(s, at) ==
  /\ Begin(s)
  /\ ~draft.archived /\ Unsent(draft)
  /\ worker' = [worker EXCEPT ![s].step = IF at = "now" THEN "send" ELSE "plan",
                              ![s].at = at]
  /\ UNCHANGED <<draft, replica, fresh, articles, faults, raced>>

Planned_SendsOff(at) == [draft EXCEPT !.at = at,
                              !.state = IF at = "none" THEN "unpublished" ELSE "pending"]

\* Scheduling leaves the state alone; cancelling sets it.
Planned(at) == [draft EXCEPT !.at = at,
                             !.state = IF at = "none" THEN "unpublished" ELSE @]

Plan(s) ==
  LET at == worker[s].at IN
  /\ worker[s].step = "plan"
  /\ Write(s, Planned(at), Rest)
  /\ raced' = (raced \/ (at = "none" /\ ~Unsent(draft) /\ worker[s].late))
  /\ UNCHANGED <<replica, articles, requests, faults>>

-----------------------------------------------------------------------------
(* Publication, by a session or by the job *)

\* The state becomes pending, whatever it is by now.
Send(w) ==
  /\ worker[w].step = "send"
  /\ Write(w, [draft EXCEPT !.state = "pending"], [Rest EXCEPT !.step = "check"])
  /\ raced' = (raced \/ (~Unsent(draft) /\ worker[w].late))
  /\ UNCHANGED <<replica, articles, requests, faults>>

CheckPending(w) ==
  /\ worker[w].step = "check"
  /\ worker' = [worker EXCEPT ![w] =
       IF draft.state = "pending" THEN [Rest EXCEPT !.step = "create"] ELSE Rest]
  /\ UNCHANGED <<draft, replica, fresh, articles, requests, faults, raced>>

\* createArticle: article and first version in one transaction
CreateArticle(w) ==
  /\ worker[w].step = "create"
  /\ articles' = IF articles < Many THEN articles + 1 ELSE Many
  /\ Goto(w, "mark")
  /\ UNCHANGED <<draft, replica, fresh, requests, faults, raced>>

\* The draft gets its article; what follows does not undo the publication.
MarkPublished(w) ==
  /\ worker[w].step = "mark"
  /\ Write(w, [draft EXCEPT !.state = "published"], Rest)
  /\ UNCHANGED <<replica, articles, requests, faults, raced>>

Caught_GoesOn(w) == [Rest EXCEPT !.step = "mark"]

\* Where an error leads: the job puts the draft back, a request ends.
Caught(w) == IF w = Job THEN [Rest EXCEPT !.step = "reset"] ELSE Rest

\* An error before the article is committed, after it (copyAssetMapEntities
\* still runs inside the same try), or at the update of the draft.
Throw(w) ==
  /\ worker[w].step \in {"check", "create", "mark"}
  /\ faults < MaxFaults
  /\ faults' = faults + 1
  /\ worker' = [worker EXCEPT ![w] = Caught(w)]
  /\ UNCHANGED <<draft, replica, fresh, articles, requests, raced>>

\* The server or the Lambda stops.
Stop(w) ==
  /\ worker[w].step # "idle"
  /\ faults < MaxFaults
  /\ faults' = faults + 1
  /\ worker' = [worker EXCEPT ![w] = Rest]
  /\ UNCHANGED <<draft, replica, fresh, articles, requests, raced>>

-----------------------------------------------------------------------------
(* The scheduled job *)

Scheduled_TooEarly(d) == Unsent(d) /\ d.at = "future"

\* findUnpublishedByPublishAt: due within the last hour
Scheduled(d) == Unsent(d) /\ d.at = "due"

\* The job's list, from the replica
FindScheduled ==
  /\ worker[Job].step = "idle"
  /\ Scheduled(replica)
  /\ worker' = [worker EXCEPT ![Job] = [Rest EXCEPT !.step = "send",
                                                   !.late = replica # draft]]
  /\ UNCHANGED <<draft, replica, fresh, articles, requests, faults, raced>>

ResetDraft ==
  /\ worker[Job].step = "reset"
  /\ Write(Job, [draft EXCEPT !.state = "unpublished"], Rest)
  /\ UNCHANGED <<replica, articles, requests, faults, raced>>

-----------------------------------------------------------------------------
Next ==
  \/ Elapse \/ Replicate \/ FindScheduled \/ ResetDraft
  \/ \E s \in Session :
       \/ LoadDraft(s) \/ CheckEdit(s) \/ PutDraft(s) \/ DeleteDraft(s)
       \/ \E at \in {"now", "future", "none"} : CheckPublish(s, at)
       \/ Plan(s)
  \/ \E w \in Worker :
       Send(w) \/ CheckPending(w) \/ CreateArticle(w) \/ MarkPublished(w)
         \/ Throw(w) \/ Stop(w)

Fairness ==
  /\ WF_pubVars(Elapse) /\ WF_pubVars(Replicate)
  /\ WF_pubVars(FindScheduled) /\ WF_pubVars(ResetDraft)
  /\ \A w \in Worker :
       WF_pubVars(Send(w) \/ CheckPending(w) \/ CreateArticle(w) \/ MarkPublished(w))

Spec == Init /\ [][Next]_pubVars /\ Fairness

-----------------------------------------------------------------------------
(* State, schedule and steps are what the code knows, and a draft is published
   only with an article. *)
TypeOK ==
  /\ draft.state \in {"unpublished", "pending", "published"}
  /\ draft.at \in When /\ draft.archived \in BOOLEAN
  /\ \A w \in Worker : worker[w].step \in
       {"idle", "edit", "plan", "send", "check", "create", "mark", "reset"}
  /\ draft.state = "published" => articles > 0

(* One draft makes one article (publicationService.ts:92-113) as long as nobody
   sends it off a second time or cancels it on an outdated view of its state -
   another request, or the job on the replica - and no error strikes between the
   article and the mark. *)
PublishedOnce == articles > 1 => raced \/ faults > 0

(* A draft in state pending can be neither edited nor published again; it is so
   only while somebody works on it, unless a request or the job was cut off. *)
PendingIsWorkedOn ==
  draft.state = "pending" /\ faults = 0 =>
    \E w \in Worker : worker[w].step \in {"check", "create", "mark"}

(* An edit is written over the very draft its author saw, still unpublished
   (putDraft.ts:183-220), unless the draft changed between check and write. *)
EditsOnLatestDraft ==
  [ \A s \in Session : worker[s].step = "edit" /\ worker'[s].step = "idle"
        => \/ worker[s].late \/ faults' # faults
           \/ s \in fresh /\ draft.state = "unpublished" ]_pubVars

(* A draft that is due gets published, unless its author cancels it or puts it
   off, or the job and its requests fail. *)
DueIsPublished ==
  (draft.at = "due" /\ draft.state = "unpublished")
    ~> (draft.state = "published" \/ draft.at \in {"none", "future"} \/ faults > 0)
=============================================================================
