---------------------------- MODULE ReportedComment ----------------------------
(* What reports, the spam detector, the author of the article and staff make of
   one comment on an article (submitReport, tryCollapseComment and
   syncDirectReportModerationCase of connectors/systemService.ts, detectSpam of
   commentService.ts, updateCommentsState.ts, deleteComment.ts).  Each of them reads
   and writes the comment by separate statements.  All reports are for one reason,
   so that there is one case. *)
EXTENDS Naturals, FiniteSets

CONSTANTS
  Reporter,  \* members who may report, and the author of the article
  Author,    \* one of them
  Request,   \* requests at once
  MaxMoves,  \* reports, detections, folds and deletions there may be
  Threshold  \* 3, of tryCollapseComment

VARIABLES
  comment,   \* comment.state
  reports,   \* who has a row in `report`
  outcome,   \* of the moderation case of the reports
  request,   \* per request: its next statement, and who reports
  moves,
  past       \* not in the code: what was done to the comment

reportVars == <<comment, reports, outcome, request, moves, past>>

Idle == [step |-> "idle", by |-> Author]
Event == {"byReports", "opened", "stale", "deleted", "banned", "cut"}

Init ==
  /\ comment = "active" /\ reports = {} /\ outcome = "none"
  /\ request = [r \in Request |-> Idle]
  /\ moves = 0 /\ past = {}

Begin(r, step, by) ==
  /\ request[r] = Idle /\ moves < MaxMoves
  /\ moves' = moves + 1
  /\ request' = [request EXCEPT ![r] = [step |-> step, by |-> by]]

GoOn(r, step) == request' = [request EXCEPT ![r].step = step]

-----------------------------------------------------------------------------
(* A report. *)

Report(r, m) ==
  /\ Begin(r, "look", m)
  /\ reports' = reports \cup {m}
  /\ UNCHANGED <<comment, outcome, past>>

\* Only a collapsed comment is left alone, not a deleted or banned one.
Look(r) ==
  /\ request[r].step = "look"
  /\ GoOn(r, IF comment = "collapsed" THEN "received" ELSE "count")
  /\ UNCHANGED <<comment, reports, outcome, moves, past>>

Enough_Rows(who) == Cardinality(who) > Threshold \/ Author \in who

\* Three members, or the author of the article.
Enough(who) == Cardinality(who) >= Threshold \/ Author \in who

CountReports(r) ==
  /\ request[r].step = "count"
  /\ GoOn(r, IF Enough(reports) THEN "collapse" ELSE "received")
  /\ UNCHANGED <<comment, reports, outcome, moves, past>>

Collapse(r) ==
  /\ request[r].step = "collapse"
  /\ comment' = "collapsed"
  /\ past' = past \cup {"byReports"}
  /\ GoOn(r, "actioned")
  /\ UNCHANGED <<reports, outcome, moves>>

CaseAfter_Last(collapsed) == IF collapsed THEN "content_collapsed" ELSE "received"

\* Found or made; a report without an effect leaves its outcome.
CaseAfter(collapsed) ==
  IF collapsed THEN "content_collapsed" ELSE IF outcome = "none" THEN "received" ELSE outcome

SyncCase(r) ==
  /\ request[r].step \in {"actioned", "received"}
  /\ outcome' = CaseAfter(request[r].step = "actioned")
  /\ request' = [request EXCEPT ![r] = Idle]
  /\ UNCHANGED <<comment, reports, moves, past>>

-----------------------------------------------------------------------------
(* The others. *)

\* _autoCollapseIfSpam, for a score above the threshold.
DetectSpam(r) ==
  /\ comment = "active"
  /\ Begin(r, "spam", Author)
  /\ UNCHANGED <<comment, reports, outcome, past>>

FoldSpam(r) ==
  /\ request[r].step = "spam"
  /\ comment' = "collapsed"
  /\ request' = [request EXCEPT ![r] = Idle]
  /\ UNCHANGED <<reports, outcome, moves, past>>

Foldable_NotBanned(state) == state # "banned"

Foldable(state) == state \in {"active", "collapsed"}

\* updateCommentsState of the author of the article.
Fold(r, s) ==
  /\ Foldable(comment)
  /\ Begin(r, s, Author)
  /\ UNCHANGED <<comment, reports, outcome, past>>

WriteFold(r) ==
  LET s == request[r].step IN
  /\ s \in {"active", "collapsed"}
  /\ comment' = s
  /\ past' = past \cup IF s = "active" THEN {"opened"} ELSE {}
  /\ request' = [request EXCEPT ![r] = Idle]
  /\ UNCHANGED <<reports, outcome, moves>>

Outdated == IF \E r \in Request : request[r].step \in {"spam", "active", "collapsed"}
            THEN {"stale"} ELSE {}

Delete ==
  /\ moves < MaxMoves /\ moves' = moves + 1
  /\ comment' = "archived" /\ past' = past \cup {"deleted"} \cup Outdated
  /\ UNCHANGED <<reports, outcome, request>>

\* updateCommentsState of staff.
Ban ==
  /\ moves < MaxMoves /\ moves' = moves + 1
  /\ comment' = "banned" /\ past' = past \cup {"banned"} \cup Outdated
  /\ UNCHANGED <<reports, outcome, request>>

Stop(r) ==
  /\ request[r] # Idle /\ "cut" \notin past   \* once is enough
  /\ past' = past \cup {"cut"}
  /\ request' = [request EXCEPT ![r] = Idle]
  /\ UNCHANGED <<comment, reports, outcome, moves>>

Next ==
  \/ Delete \/ Ban
  \/ \E r \in Request :
       \/ \E m \in Reporter : Report(r, m)
       \/ Look(r) \/ CountReports(r) \/ Collapse(r) \/ SyncCase(r)
       \/ DetectSpam(r) \/ FoldSpam(r) \/ WriteFold(r) \/ Stop(r)
       \/ \E s \in {"active", "collapsed"} : Fold(r, s)

Spec == Init /\ [][Next]_reportVars

-----------------------------------------------------------------------------
(* States and steps are those of the code. *)
TypeOK ==
  /\ comment \in {"active", "collapsed", "archived", "banned"}
  /\ reports \subseteq Reporter /\ outcome \in {"none", "received", "content_collapsed"}
  /\ \A r \in Request : request[r].step \in {"idle", "look", "count", "collapse",
       "actioned", "received", "spam", "active", "collapsed"}
  /\ past \subseteq Event

AtRest == \A r \in Request : request[r] = Idle

(* Enough reports fold a comment however they overlap, as each is entered before
   they are counted (systemService.ts:676-687, 1164-1210), unless it was opened
   again or a request was cut off. *)
ReportsFold ==
  AtRest /\ past \cap {"opened", "cut"} = {} =>
    (Cardinality(reports) >= Threshold \/ Author \in reports => comment # "active")

(* Fewer reports fold nothing, and once all is over the one case of all reports says
   whether they did, in whatever order they were entered
   (systemService.ts:689-700, 1083-1156), unless one was cut off before. *)
FoldsAreOnRecord ==
  AtRest =>
    /\ "byReports" \in past => Cardinality(reports) >= Threshold \/ Author \in reports
    /\ "cut" \notin past => (outcome = "content_collapsed") = ("byReports" \in past)

(* A comment deleted by its author or banned by staff stays hidden (deleteComment.ts:
   56-62, updateCommentsState.ts:52-64), unless somebody folds or opens it on a state
   read before; or it is reported: a report folds it whatever its state, so that it
   is in the thread again. *)
HiddenStaysHidden ==
  past \cap {"deleted", "banned"} # {} /\ past \cap {"stale", "byReports"} = {} =>
    comment \in {"archived", "banned"}
=============================================================================
