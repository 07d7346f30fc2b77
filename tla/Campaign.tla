------------------------------- MODULE Campaign -------------------------------
(* One campaign, one author and one article: the application of the author
   (campaign_user) and the entry of the article (campaign_article), of
   connectors/campaignService.ts.  Neither table has a unique constraint: rows are
   looked for and then made, by separate statements. *)
EXTENDS Naturals, FiniteSets

CONSTANTS
  Request,   \* requests of the author and of staff at once
  Stage,     \* stages of the campaign
  None,      \* not a stage: the article is not to be in the campaign
  MaxAsked,  \* how many requests there are
  MaxRows    \* rows there may be of either kind

VARIABLES
  applications, \* states of the author's applications, in order
  entries,      \* entries of the article, in order
  replica,      \* entries as the replica has them
  request,      \* per request: its next statement, stage, and what it read
  asked,        \* how many requests there were
  published,    \* the article is published
  wanted,       \* the stage the author last asked for
  banned,       \* staff took the article out
  troubles      \* not in the code: "overlap", "stale", "stop", "held"

campaignVars == <<applications, entries, replica, request, asked, published,
                  wanted, banned, troubles>>

Idle == [step |-> "idle", stage |-> None, read |-> {}]
Row == 1..MaxRows
NoEntry == [stage |-> None, deleted |-> TRUE, enabled |-> FALSE]
Made(rows, none) == {i \in Row : rows[i] # none}

Init ==
  /\ applications = [i \in Row |-> "none"]
  /\ entries = [i \in Row |-> NoEntry] /\ replica = entries
  /\ request = [r \in Request |-> Idle]
  /\ asked = 0 /\ published = FALSE /\ wanted = None /\ banned = FALSE
  /\ troubles = {}

\* `.first()` without an order: any row there is.
First(rows, none) == Made(rows, none)

Fresh(rows, none) == {i \in Row \ Made(rows, none) :
                       \A j \in 1..(i - 1) : j \in Made(rows, none)}

Begin(r, step, stage, read, stale) ==
  /\ request[r] = Idle /\ asked < MaxAsked
  /\ asked' = asked + 1
  /\ request' = [request EXCEPT ![r] = [step |-> step, stage |-> stage, read |-> read]]
  /\ troubles' = troubles
       \cup IF \E o \in Request \ {r} : request[o] # Idle THEN {"overlap"} ELSE {}
       \cup IF stale THEN {"stale"} ELSE {}

GoOn(r, step, read) ==
  /\ request' = [request EXCEPT ![r].step = step, ![r].read = read]
  /\ UNCHANGED <<asked, troubles>>

End(r) == /\ request' = [request EXCEPT ![r] = Idle]
          /\ UNCHANGED <<asked, troubles>>

-----------------------------------------------------------------------------
(* apply and approve. *)

Apply(r) ==
  /\ First(applications, "none") = {}
  /\ Begin(r, "create", None, {}, FALSE)
  /\ UNCHANGED <<applications, entries, replica, published, wanted, banned>>

CreateApplication_Only(r) ==
  /\ request[r].step = "create"
  /\ \E i \in Fresh(applications, "none") :
       applications' = [applications EXCEPT ![i] = "pending"]
  /\ End(r)
  /\ UNCHANGED <<entries, replica, published, wanted, banned>>

CreateApplication(r) ==
  /\ request[r].step = "create"
  /\ \E i \in Fresh(applications, "none") :
       /\ applications' = [applications EXCEPT ![i] = "pending"]
       /\ GoOn(r, "approve", {i})
  /\ UNCHANGED <<entries, replica, published, wanted, banned>>

Approvable_NotSucceeded(state) == state # "succeeded"

\* What approve goes on with.
Approvable(state) == state \notin {"rejected", "succeeded"}

ReadForApproval(r) ==
  /\ request[r].step = "approve"
  /\ \E i \in request[r].read :
       IF Approvable(applications[i]) THEN GoOn(r, "succeed", {i}) ELSE End(r)
  /\ UNCHANGED <<applications, entries, replica, published, wanted, banned>>

Succeed(r) ==
  /\ request[r].step = "succeed"
  /\ \E i \in request[r].read : applications' = [applications EXCEPT ![i] = "succeeded"]
  /\ End(r)
  /\ UNCHANGED <<entries, replica, published, wanted, banned>>

\* updateCampaignApplicationState: approve, or any other state as it is given.
StaffDecides(r, s) ==
  /\ \E i \in First(applications, "none") :
       Begin(r, IF s = "succeeded" THEN "approve" ELSE s, None, {i}, FALSE)
  /\ UNCHANGED <<applications, entries, replica, published, wanted, banned>>

SetState(r) ==
  /\ request[r].step \in {"pending", "rejected"}
  /\ \E i \in request[r].read :
       applications' = [applications EXCEPT ![i] = request[r].step]
  /\ request' = [request EXCEPT ![r] = Idle]
  /\ troubles' = troubles \cup IF request[r].step = "pending" THEN {"held"} ELSE {}
  /\ UNCHANGED <<asked, entries, replica, published, wanted, banned>>

-----------------------------------------------------------------------------
(* The entry of the article. *)

Participates == \E i \in First(applications, "none") : applications[i] = "succeeded"

\* handleCampaigns on publication: each campaign of the draft is submitted to.
Publish(r, stage) ==
  /\ ~published
  /\ published' = TRUE
  /\ wanted' = IF Participates THEN stage ELSE None
  /\ Begin(r, IF wanted' = None THEN "done" ELSE "find", stage, {}, FALSE)
  /\ UNCHANGED <<applications, entries, replica, banned>>

Listed(rows) == {i \in Row : ~rows[i].deleted}

\* updateArticleCampaigns compares with what the replica has.
Edit(r, stage) ==
  LET there == Listed(replica) IN
  /\ published
  /\ stage # None => Participates
  /\ wanted' = stage
  /\ Begin(r, IF stage = None THEN "detach"
              ELSE IF \E i \in there : replica[i].stage = stage THEN "done"
              ELSE IF there = {} THEN "find" ELSE "move",
            stage, there, replica # entries)
  /\ UNCHANGED <<applications, entries, replica, published, banned>>

Nothing(r) ==
  /\ request[r].step = "done" /\ End(r)
  /\ UNCHANGED <<applications, entries, replica, published, wanted, banned>>

Detached_StageOnly(entry) == [entry EXCEPT !.stage = None]

\* Only the mark is set; the row stays.
Detached(entry) == [entry EXCEPT !.deleted = TRUE]

\* If the replica listed a row.
Detach(r) ==
  /\ request[r].step = "detach"
  /\ entries' = [i \in Row |-> IF request[r].read # {} /\ entries[i] # NoEntry
                               THEN Detached(entries[i]) ELSE entries[i]]
  /\ End(r)
  /\ UNCHANGED <<applications, replica, published, wanted, banned>>

Move(r) ==
  /\ request[r].step = "move"
  /\ entries' = [i \in Row |-> IF entries[i] = NoEntry THEN NoEntry
                               ELSE [entries[i] EXCEPT !.stage = request[r].stage]]
  /\ End(r)
  /\ UNCHANGED <<applications, replica, published, wanted, banned>>

\* upsert: look for a row, then update every one there is, or make one.
FindEntry_Never(r) ==
  /\ request[r].step = "find"
  /\ GoOn(r, "insert", {})
  /\ UNCHANGED <<applications, entries, replica, published, wanted, banned>>

FindEntry(r) ==
  /\ request[r].step = "find"
  /\ GoOn(r, IF Made(entries, NoEntry) = {} THEN "insert" ELSE "update", {})
  /\ UNCHANGED <<applications, entries, replica, published, wanted, banned>>

NewEntry(stage) == [stage |-> stage, deleted |-> FALSE, enabled |-> TRUE]

InsertEntry(r) ==
  /\ request[r].step = "insert"
  /\ \E i \in Fresh(entries, NoEntry) :
       entries' = [entries EXCEPT ![i] = NewEntry(request[r].stage)]
  /\ End(r)
  /\ UNCHANGED <<applications, replica, published, wanted, banned>>

Resubmitted_Anew(entry, stage) == NewEntry(stage)

\* `enabled` stays what it is.
Resubmitted(entry, stage) == [entry EXCEPT !.stage = stage, !.deleted = FALSE]

UpdateEntries(r) ==
  /\ request[r].step = "update"
  /\ entries' = [i \in Row |-> IF entries[i] = NoEntry THEN NoEntry
                               ELSE Resubmitted(entries[i], request[r].stage)]
  /\ End(r)
  /\ UNCHANGED <<applications, replica, published, wanted, banned>>

\* banCampaignArticles counts the rows: one each, or it refuses.
Ban ==
  /\ ~banned
  /\ Cardinality(Made(entries, NoEntry)) = 1
  /\ banned' = TRUE
  /\ entries' = [i \in Row |-> IF entries[i] = NoEntry THEN NoEntry
                               ELSE [entries[i] EXCEPT !.enabled = FALSE]]
  /\ UNCHANGED <<applications, replica, request, asked, published, wanted, troubles>>

Replicate ==
  /\ replica # entries
  /\ replica' = entries
  /\ UNCHANGED <<applications, entries, request, asked, published, wanted, banned, troubles>>

Stop(r) ==
  /\ request[r] # Idle /\ "stop" \notin troubles   \* once is enough
  /\ request' = [request EXCEPT ![r] = Idle]
  /\ troubles' = troubles \cup {"stop"}
  /\ UNCHANGED <<applications, entries, replica, asked, published, wanted, banned>>

Work(r) ==
  \/ CreateApplication(r) \/ ReadForApproval(r) \/ Succeed(r) \/ SetState(r)
  \/ Nothing(r) \/ Detach(r) \/ Move(r) \/ FindEntry(r) \/ InsertEntry(r)
  \/ UpdateEntries(r)

Next ==
  \/ Ban \/ Replicate
  \/ \E r \in Request :
       \/ Apply(r) \/ Work(r) \/ Stop(r)
       \/ \E s \in {"pending", "succeeded", "rejected"} : StaffDecides(r, s)
       \/ \E g \in Stage \cup {None} : Publish(r, g) \/ Edit(r, g)

Spec == Init /\ [][Next]_campaignVars

\* A request goes on until it is over, unless it stops.
Fairness == \A r \in Request : WF_campaignVars(Work(r))

-----------------------------------------------------------------------------
(* States and steps are those of the code. *)
TypeOK ==
  /\ applications \in [Row -> {"none", "pending", "succeeded", "rejected"}]
  /\ \A i \in Row : entries[i].stage \in Stage \cup {None}
  /\ \A r \in Request : request[r].step \in
       {"idle", "create", "approve", "succeed", "pending", "rejected",
        "find", "insert", "update", "move", "detach", "done"}
  /\ asked \in 0..MaxAsked /\ troubles \subseteq {"overlap", "stale", "stop", "held"}

AtRest == \A r \in Request : request[r] = Idle

(* A member applies once, and there is one entry of an article, unless requests
   overlapped: nothing in the tables forbids a second row
   (campaignService.ts:198-214, 422-446; atomService.ts:480-505). *)
OneRowEach ==
  "overlap" \notin troubles =>
    /\ Cardinality(Made(applications, "none")) <= 1
    /\ Cardinality(Made(entries, NoEntry)) <= 1

(* A rejected application becomes an approved one only by way of pending
   (campaignService.ts:513-528), unless the approval was under way when staff
   rejected it. *)
RejectionStands ==
  [ "overlap" \notin troubles =>
      \A i \in Row : applications[i] = "rejected" => applications'[i] # "succeeded"
  ]_campaignVars

(* An article that staff took out is not listed again, whatever its author does
   (banCampaignArticles.ts:73-78, campaignService.ts:432-446), unless requests
   overlapped: then there may be a second row. *)
BannedStaysOut ==
  banned /\ "overlap" \notin troubles =>
    \A i \in Listed(entries) : ~entries[i].enabled

(* When all is over the article is in the stage its author asked for last, or in
   none (campaignService.ts:363-420), unless requests overlapped or stopped, or the
   edit compared with an outdated replica. *)
EntryFollowsAuthor ==
  AtRest /\ published /\ troubles \cap {"overlap", "stale", "stop"} = {} =>
    {entries[i].stage : i \in Listed(entries)} = {wanted} \ {None}

(* An application does not stay pending (campaignService.ts:205-214) unless the
   request stopped before it was approved or staff had it so: nobody takes it up
   again, and the author who applies again is handed the pending one. *)
ApplicationDecided ==
  \A i \in Row :
    applications[i] = "pending" ~>
      applications[i] # "pending" \/ troubles \cap {"stop", "held"} # {}
=============================================================================
