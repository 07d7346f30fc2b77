--------------------------- MODULE CommunityWatch ---------------------------
(* Removing and restoring one comment by Community Watch
   (mutations/comment/communityWatchRemoveComment.ts, the service methods of
   connectors/commentService.ts), beside everything else that writes the
   comment's state: folding by the author of the article, automatic folding of
   spam, deletion, and staff (updateCommentsState.ts, deleteComment.ts).

   Actions on the comment are taken in transactions that lock its row; folding
   reads the state and writes it later.  The moderation case that mirrors an
   action is written after the commit, in a transaction of its own whose errors
   are only logged. *)
EXTENDS Naturals, FiniteSets

CONSTANTS
  Reason,      \* porn_ad, spam_ad: one case per comment and reason
  Request,     \* requests at once
  MaxActions,  \* removals of the comment
  MaxUpdates,  \* updates by staff, folds and deletions
  MaxFaults    \* syncs that fail, requests that stop or overlap

VARIABLES
  comment,     \* comment.state
  actions,     \* community_watch_action, in the order they were taken
  cases,       \* moderation_case of each reason
  request,     \* per request: next step and what it holds
  made,        \* updates and faults so far
  oddities     \* what happened that the properties except (history variable)

watchVars == <<comment, actions, cases, request, made, oddities>>

NoAction == [state |-> "none", original |-> "none", reason |-> "none",
             appeal |-> "none", review |-> "none"]
NoCase == [status |-> "none", outcome |-> "none", notice |-> "none"]
NewCase == [status |-> "received", outcome |-> "none", notice |-> "pending"]
Idle == [step |-> "idle", prev |-> NoAction, action |-> NoAction,
         events |-> {}, seen |-> "none", to |-> "none"]

Active == {a \in DOMAIN actions : actions[a].state = "active"}

Init ==
  /\ comment \in {"active", "collapsed"}
  /\ actions = [a \in 1..MaxActions |-> NoAction]
  /\ cases = [x \in Reason |-> NoCase]
  /\ request = [r \in Request |-> Idle]
  /\ made = [updates |-> 0, faults |-> 0]
  /\ oddities = {}

Free(r, update) == request[r] = Idle /\ made.updates + update <= MaxUpdates

\* A request begins; to do so beside another one is a fault.
Begin(r, first, update) ==
  /\ request' = [request EXCEPT ![r] = first]
  /\ LET beside == \E q \in Request \ {r} : request[q] # Idle IN
     /\ beside => made.faults < MaxFaults
     /\ made' = [updates |-> made.updates + update,
                 faults |-> made.faults + IF beside THEN 1 ELSE 0]
     /\ oddities' = oddities \cup IF beside THEN {"overlap"} ELSE {}

-----------------------------------------------------------------------------
(* communityWatchRemoveComment *)

Removable == comment \in {"active", "collapsed"}

\* One action stands at a time: read first, and kept by a unique index.
Remove(r, reason) ==
  /\ Free(r, 0) /\ Active = {} /\ Removable
  /\ \E a \in DOMAIN actions :
       /\ actions[a] = NoAction /\ \A b \in 1..(a - 1) : actions[b] # NoAction
       /\ actions' = [actions EXCEPT ![a] =
            [state |-> "active", original |-> comment, reason |-> reason,
             appeal |-> "none", review |-> "pending"]]
  /\ comment' = "banned"
  /\ Begin(r, [Idle EXCEPT !.step = "find"], 0)
  /\ UNCHANGED cases

\* findActiveCommunityWatchAction: whatever stands by now.
FindAction(r) ==
  /\ request[r].step = "find"
  /\ request' = [request EXCEPT ![r] =
       IF Active = {} THEN Idle
       ELSE LET act == actions[CHOOSE a \in Active : TRUE]
            IN [Idle EXCEPT !.step = "created", !.prev = act, !.action = act]]
  /\ UNCHANGED <<comment, actions, cases, made, oddities>>

AfterRemoval_OnlyNew(case) ==
  IF case = NoCase
  THEN [NewCase EXCEPT !.status = "action_taken", !.outcome = "content_hidden"]
  ELSE case

\* The case, new or of an earlier removal, says that the comment is hidden.
AfterRemoval(case) ==
  IF case.status = "action_taken" /\ case.outcome = "content_hidden" THEN case
  ELSE [status |-> "action_taken", outcome |-> "content_hidden", notice |-> "pending"]

SyncCreated(r) ==
  LET x == request[r].action.reason IN
  /\ request[r].step = "created"
  /\ cases' = [cases EXCEPT ![x] = AfterRemoval(@)]
  /\ request' = [request EXCEPT ![r].step = "notice"]
  /\ UNCHANGED <<comment, actions, made, oddities>>

-----------------------------------------------------------------------------
(* updateCommunityWatchActionState, by the values that bear on the case *)

\* What staff may set: the appeal, the review (not "reversed"), the reason.
Patched(act, appeal, review, reason) ==
  [act EXCEPT !.appeal = appeal, !.reason = reason,
     !.review = IF review # act.review THEN review
                ELSE IF reason # act.reason THEN "reason_adjusted" ELSE @]

UpdateAction(r, a, appeal, review, reason) ==
  LET act == actions[a]
      new == Patched(act, appeal, review, reason)
  IN
  /\ Free(r, 1)
  /\ act # NoAction
  /\ new # act
  /\ actions' = [actions EXCEPT ![a] = new]
  /\ Begin(r, [Idle EXCEPT !.step = "transition", !.prev = act, !.action = new,
       !.events = (IF appeal # act.appeal /\ appeal = "received" THEN {"appeal_received"} ELSE {})
            \cup (IF appeal # act.appeal /\ appeal = "resolved" THEN {"appeal_resolved"} ELSE {})
            \cup (IF review # act.review /\ review = "upheld" THEN {"review_upheld"} ELSE {})], 1)
  /\ UNCHANGED <<comment, cases>>

\* resolveCommunityWatchModerationCaseForAction: the cases afterwards, with the
\* one of the action under its reason.
Resolved(prev, action) ==
  IF prev.reason = action.reason \/ cases[prev.reason] = NoCase
  THEN [cases EXCEPT ![action.reason] = IF @ = NoCase THEN NewCase ELSE @]
  ELSE IF cases[action.reason] # NoCase THEN cases
  ELSE [cases EXCEPT ![action.reason] = cases[prev.reason], ![prev.reason] = NoCase]

\* The appeal is entered first, the review after it.
AfterUpdate(case, events) ==
  [case EXCEPT
     !.status = IF events \cap {"appeal_resolved", "review_upheld"} # {} THEN "resolved"
                ELSE IF "appeal_received" \in events THEN "appealed" ELSE @,
     !.outcome = IF "review_upheld" \in events THEN "upheld" ELSE @]

\* Without an event that bears on the case nothing is written.
SyncTransition(r) ==
  LET q == request[r]  x == q.action.reason IN
  /\ q.step = "transition"
  /\ cases' = IF q.events = {} /\ q.prev.reason = x THEN cases
              ELSE [Resolved(q.prev, q.action) EXCEPT ![x] = AfterUpdate(@, q.events)]
  /\ oddities' = oddities
       \cup (IF q.prev.reason # x /\ NoCase \notin {cases[x], cases[q.prev.reason]}
               THEN {"merged"} ELSE {})
       \cup (IF q.action.state = "restored" THEN {"late"} ELSE {})
  /\ request' = [request EXCEPT ![r] = Idle]
  /\ UNCHANGED <<comment, actions, made>>

-----------------------------------------------------------------------------
(* restoreCommunityWatchComment *)

Restorable_Any(a) == actions[a].state = "active"

Restorable(a) == actions[a].state = "active" /\ comment = "banned"

Restore(r, a) ==
  /\ Free(r, 0) /\ Restorable(a)
  /\ comment' = actions[a].original
  /\ actions' = [actions EXCEPT ![a].state = "restored", ![a].appeal = "resolved",
                                ![a].review = "reversed"]
  /\ Begin(r, [Idle EXCEPT !.step = "restored", !.prev = actions[a],
                           !.action = actions'[a]], 0)
  /\ UNCHANGED cases

SyncRestored(r) ==
  LET q == request[r] IN
  /\ q.step = "restored"
  /\ cases' = [Resolved(q.prev, q.action) EXCEPT
       ![q.action.reason].status = "resolved", ![q.action.reason].outcome = "restored"]
  /\ request' = [request EXCEPT ![r].step = "notice"]
  /\ UNCHANGED <<comment, actions, made, oddities>>

\* The author is told of the removal or the restoration.
SyncNoticeSent(r) ==
  LET x == request[r].action.reason IN
  /\ request[r].step = "notice"
  /\ cases' = [Resolved(request[r].action, request[r].action) EXCEPT ![x].notice = "sent"]
  /\ request' = [request EXCEPT ![r] = Idle]
  /\ UNCHANGED <<comment, actions, made, oddities>>

-----------------------------------------------------------------------------
(* Everybody else. *)

FoldableFrom_Any(to) == {"active", "collapsed", "banned", "archived"}

\* From which states the author of the article folds and unfolds; what is taken
\* for spam is folded from "active" only.
FoldableFrom(to) == {"active", "collapsed"}

ReadToFold(r, to) ==
  /\ Free(r, 1) /\ comment \in FoldableFrom(to)
  /\ Begin(r, [Idle EXCEPT !.step = "fold", !.seen = comment, !.to = to], 1)
  /\ UNCHANGED <<comment, actions, cases>>

Fold(r) ==
  /\ request[r].step = "fold"
  /\ comment' = request[r].to
  /\ oddities' = IF comment # request[r].seen THEN oddities \cup {"stale"} ELSE oddities
  /\ request' = [request EXCEPT ![r] = Idle]
  /\ UNCHANGED <<actions, cases, made>>

\* Deletion and staff look at nothing.
SetState(state) ==
  /\ made.updates < MaxUpdates
  /\ made' = [made EXCEPT !.updates = @ + 1]
  /\ comment' = state
  /\ oddities' = oddities \cup {IF state = "archived" THEN "deleted" ELSE "staff"}
  /\ UNCHANGED <<actions, cases, request>>

\* A sync fails and is logged, or the request ends here.
Cut(r) ==
  /\ made.faults < MaxFaults
  /\ request[r] # Idle
  /\ \E step \in {"notice", "idle"} :
       request' = [request EXCEPT ![r] =
         IF step = "idle" \/ @.step \notin {"created", "restored"} THEN Idle
         ELSE [@ EXCEPT !.step = step]]
  /\ made' = [made EXCEPT !.faults = @ + 1]
  /\ oddities' = oddities \cup {"cut"}
  /\ UNCHANGED <<comment, actions, cases>>

-----------------------------------------------------------------------------
Next ==
  \/ \E r \in Request :
       \/ \E x \in Reason : Remove(r, x)
       \/ FindAction(r) \/ SyncCreated(r) \/ SyncTransition(r)
       \/ SyncRestored(r) \/ SyncNoticeSent(r) \/ Fold(r) \/ Cut(r)
       \/ \E a \in DOMAIN actions :
            \/ Restore(r, a)
            \/ \E appeal \in {actions[a].appeal, "received", "resolved"}, x \in Reason,
                  review \in {actions[a].review, "upheld"} :
                 UpdateAction(r, a, appeal, review, x)
       \/ \E to \in {"active", "collapsed"} : ReadToFold(r, to)
  \/ \E state \in {"active", "collapsed", "banned", "archived"} : SetState(state)

Spec == Init /\ [][Next]_watchVars

-----------------------------------------------------------------------------
(* One action stands at most; cases and actions keep their types. *)
TypeOK ==
  /\ comment \in {"active", "collapsed", "banned", "archived"}
  /\ Cardinality(Active) <= 1
  /\ \A x \in Reason : cases[x] \in
       [status : {"none", "received", "action_taken", "appealed", "resolved"},
        outcome : {"none", "content_hidden", "upheld", "restored"},
        notice : {"none", "pending", "sent"}]

(* A comment whose removal stands is hidden and can be restored - unless a fold
   began before the removal and wrote after it, the comment was deleted, or staff
   set its state: then the action stays for ever, as restoring refuses and a
   new removal finds it (communityWatchRemoveComment.ts:90-106, commentService.ts:
   345-357). *)
StandingRemovalHides ==
  (Active # {} /\ oddities \cap {"stale", "deleted", "staff"} = {}) => comment = "banned"

(* When nobody is at work, the case of an action that stands says the comment is
   hidden, and of one that was restored last that it is back; the author was
   told.  Excepted: requests at once, a sync that failed, a change of the reason
   to that of an earlier case, a review of an action already restored
   (commentService.ts:516-745, 750-794). *)
CaseTellsDecision ==
  ((\A r \in Request : request[r] = Idle)
      /\ oddities \cap {"overlap", "cut", "merged", "late"} = {}) =>
    \A a \in DOMAIN actions :
      /\ actions[a].state = "active" =>
           /\ cases[actions[a].reason].outcome \in {"content_hidden", "upheld"}
           /\ cases[actions[a].reason].notice = "sent"
      /\ (actions[a].state = "restored" /\ \A b \in DOMAIN actions : b > a => actions[b] = NoAction) =>
           cases[actions[a].reason].outcome = "restored"

(* A comment that was deleted comes back by staff alone, or by a fold that began
   before: restoring it asks for "banned" (commentService.ts:355-357). *)
DeletedStaysDeleted ==
  [ (comment = "archived" /\ comment' # "archived")
      => oddities' \cap {"staff", "stale"} # {} ]_watchVars
=============================================================================
