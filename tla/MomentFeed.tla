----------------------------- MODULE MomentFeed -----------------------------
(* Applications to the moment feed (connectors/momentService.ts): a member
   applies once, staff approve, reject and revoke, and a scheduled job
   (handlers/momentFeedAutoReview.ts) approves what nobody looked at in time.

   A review reads the application, checks the transition and updates the row by
   its id in a later statement; the job reads its list from the replica, which
   may lag, and works through it one row after another.  Every one of these
   steps is an action.  The applicants are active members for whom the feature
   is on; while the flag is off the job does nothing and nobody applies. *)
EXTENDS Naturals, FiniteSets

CONSTANTS
  Member,     \* active members
  Reviewer,   \* staff requests under way at once
  MaxStops    \* how often the job may be cut off

VARIABLES
  feed,       \* moment_feed_user rows: state and reviewed_by
  replica,    \* the same table as the read replica has it
  expired,    \* members whose application is older than the limit
  review,     \* per reviewer: the request under way
  batch,      \* rows the job read and has not updated yet
  told,       \* members told of the approval they have now
  overtaken,  \* members decided by staff since the job's list was read
  stops

feedVars == <<feed, replica, expired, review, batch, told, overtaken, stops>>

State == {"pending", "approved", "rejected", "revoked"}
NoRow == [state |-> "none", by |-> "nobody"]
NoReview == [of |-> "nobody", from |-> "none", to |-> "none"]

Init ==
  /\ feed = [m \in Member |-> NoRow]
  /\ replica = feed
  /\ expired = {}
  /\ review = [r \in Reviewer |-> NoReview]
  /\ batch = {}
  /\ told = {}
  /\ overtaken = {}
  /\ stops = 0

\* allowedTransitions
Allowed(from, to) ==
  \/ from = "pending" /\ to \in {"approved", "rejected"}
  \/ from \in {"rejected", "revoked"} /\ to = "approved"
  \/ from = "approved" /\ to \in {"approved", "revoked"}

\* applyMomentFeed: a row there already, or one inserted meanwhile, is an error.
ApplyMomentFeed(m) ==
  /\ feed[m] = NoRow
  /\ feed' = [feed EXCEPT ![m] = [state |-> "pending", by |-> "nobody"]]
  /\ UNCHANGED <<replica, expired, review, batch, told, overtaken, stops>>

\* The application passes the age limit of the automatic review.
Expire(m) ==
  /\ feed[m] # NoRow
  /\ m \notin expired
  /\ expired' = expired \cup {m}
  /\ UNCHANGED <<feed, replica, review, batch, told, overtaken, stops>>

Replicate(m) ==
  /\ replica[m] # feed[m]
  /\ replica' = [replica EXCEPT ![m] = feed[m]]
  /\ UNCHANGED <<feed, expired, review, batch, told, overtaken, stops>>

\* reviewMomentFeedApplication, up to the check of the transition
ReadApplication(r, m, to) ==
  /\ review[r] = NoReview
  /\ Allowed(feed[m].state, to)
  /\ review' = [review EXCEPT ![r] = [of |-> m, from |-> feed[m].state, to |-> to]]
  /\ UNCHANGED <<feed, replica, expired, batch, told, overtaken, stops>>

\* The row is updated by its id; a new approval is notified.
Decide(r) ==
  LET m == review[r].of  to == review[r].to IN
  /\ review[r] # NoReview
  /\ feed' = [feed EXCEPT ![m] = [state |-> to, by |-> "admin"]]
  /\ told' = IF to # "approved" THEN told \ {m}
             ELSE IF review[r].from # "approved" THEN told \cup {m} ELSE told
  /\ overtaken' = overtaken \cup {m}
  /\ review' = [review EXCEPT ![r] = NoReview]
  /\ UNCHANGED <<replica, expired, batch, stops>>

Due_Rejected == {m \in expired : replica[m].state \in {"pending", "rejected"}}

Due_Fresh == {m \in Member \ expired : replica[m].state = "pending"}

\* Rows the job selects: pending and past the limit, on the replica.
Due == {m \in expired : replica[m].state = "pending"}

\* autoApproveExpiredMomentFeedApplications: the list
ReadDue ==
  /\ batch = {} /\ Due # {}
  /\ batch' = Due
  /\ overtaken' = {m \in Due : feed[m] # replica[m]}
  /\ UNCHANGED <<feed, replica, expired, review, told, stops>>

AutoApprove_Silent(m) ==
  /\ m \in batch
  /\ feed' = [feed EXCEPT ![m] = [state |-> "approved", by |-> "system"]]
  /\ batch' = batch \ {m}
  /\ UNCHANGED <<replica, expired, review, told, overtaken, stops>>

\* ... and one row of it, updated by its id and notified.
AutoApprove(m) ==
  /\ m \in batch
  /\ feed' = [feed EXCEPT ![m] = [state |-> "approved", by |-> "system"]]
  /\ told' = told \cup {m}
  /\ batch' = batch \ {m}
  /\ UNCHANGED <<replica, expired, review, overtaken, stops>>

\* The job runs into its time limit or throws.
JobStops ==
  /\ batch # {} /\ stops < MaxStops
  /\ batch' = {}
  /\ stops' = stops + 1
  /\ UNCHANGED <<feed, replica, expired, review, told, overtaken>>

Next ==
  \/ \E m \in Member :
       ApplyMomentFeed(m) \/ Expire(m) \/ Replicate(m) \/ AutoApprove(m)
  \/ \E r \in Reviewer :
       \/ \E m \in Member, to \in State : ReadApplication(r, m, to)
       \/ Decide(r)
  \/ ReadDue \/ JobStops

Fairness ==
  /\ \A m \in Member :
       /\ WF_feedVars(Expire(m))
       /\ WF_feedVars(Replicate(m))
       /\ WF_feedVars(AutoApprove(m))
  /\ WF_feedVars(ReadDue)
  /\ \A r \in Reviewer : WF_feedVars(Decide(r))

Spec == Init /\ [][Next]_feedVars /\ Fairness

-----------------------------------------------------------------------------
(* Every row has a state and a reviewer of the enumerations, and only an
   undecided row has no reviewer. *)
TypeOK ==
  /\ \A m \in Member :
       \/ feed[m] = NoRow
       \/ feed[m].state = "pending" /\ feed[m].by = "nobody"
       \/ feed[m].state = "approved" /\ feed[m].by \in {"admin", "system"}
       \/ feed[m].state \in {"rejected", "revoked"} /\ feed[m].by = "admin"
  /\ \A r \in Reviewer : review[r] = NoReview \/ review[r].of \in Member
  /\ batch \cup told \cup overtaken \cup expired \subseteq Member

(* The job overrules staff (momentService.ts:186-202) only by an outdated list:
   a decision it replaces was taken after the list was read, or had not reached
   the replica. *)
StaffOverruledByOldListOnly ==
  [ \A m \in Member :
        feed[m].by = "admin" /\ feed'[m].by = "system" => m \in overtaken ]_feedVars

(* Nobody is in the feed without having been told of it, except by two staff
   requests of which one re-approved what the other revoked meanwhile: the
   notice goes by the state read before (momentService.ts:147-155). *)
ApprovedWereTold ==
  \A m \in Member :
    feed[m].state = "approved" /\ m \notin told =>
      Cardinality(Reviewer) > 1 /\ feed[m].by = "admin"

(* An application is decided in the end, by staff or by the job, although the
   job may be cut off. *)
ApplicationsDecided ==
  \A m \in Member : (feed[m].state = "pending") ~> (feed[m].state # "pending")
=============================================================================
