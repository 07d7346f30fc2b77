------------------------------ MODULE UserState ------------------------------
(***************************************************************************)
(* Moderation of accounts: updateUserState loads a user, decides by the    *)
(* state it saw which writes to make, and makes them one after the other   *)
(* without a transaction; the daily job ends timed bans by what it read    *)
(* at its start; the Stripe webhook bans.  All of them meet in the tables  *)
(* user, punish_record, user_restriction and the is_spam marks.            *)
(* One mark stands for a user's articles, comments and moments.  The       *)
(* bypassSpamDetection flag and the moderation cases are left out.         *)
(***************************************************************************)
EXTENDS Integers, FiniteSets, Sequences

CONSTANTS User,     \* the accounts moderated
          NoUser,   \* no account
          Staff,    \* updateUserState requests under way at once
          Failures  \* whether a request may stop before its last write

ASSUME UserStateAssumption == NoUser \notin User /\ Failures \in BOOLEAN

VARIABLES account,  \* User -> state, is_spam of the content, `frozen` row
          record,   \* User -> its punish records: "running" or "due"
          staff,    \* Staff -> where an updateUserState stands
          job,      \* where the unbanUsers job stands
          judged    \* not in the code: the last verdict of setSpamStatus

vars == <<account, record, staff, job, judged>>

State == {"active", "banned", "frozen", "archived"}

Account == [state : State, content : {"unjudged", "spam", "ham"},
            hidden : BOOLEAN]

\* One write each: a statement, or archive's whole transaction.
Step == {"revertMarks", "addRecord", "archiveRecords", "mark", "hide",
         "unhide"} \cup State

MaxTodo == 4

Done == [user |-> NoUser, todo |-> <<>>]

NoJob == [pc |-> "waiting", batch |-> {}, activated |-> {}]

TypeOK ==
  /\ account \in [User -> Account]
  /\ record \in [User -> SUBSET {"running", "due"}]
  /\ staff \in [Staff -> [user : User \cup {NoUser}, todo : Seq(Step)]]
  /\ \A p \in Staff : Len(staff[p].todo) <= MaxTodo
  /\ job \in [pc : {"waiting", "running"}, batch : SUBSET User,
              activated : SUBSET User]
  /\ judged \in [User -> {"none", "spam", "ham"}]

Init ==
  /\ account = [u \in User |->
                  [state |-> "active", content |-> "unjudged", hidden |-> FALSE]]
  /\ record = [u \in User |-> {}]
  /\ staff = [p \in Staff |-> Done]
  /\ job = NoJob
  /\ judged = [u \in User |-> "none"]

-----------------------------------------------------------------------------
(* updateUserState.                                                        *)

\* What validateUserState lets through; archiving is never validated.
Allowed(seen, target) ==
  \/ target = "archived"
  \/ /\ seen # "archived"
     /\ ~(target = "banned" /\ seen = "banned")

BanPlan(seen, timed) ==
  (IF seen = "frozen" THEN <<"revertMarks">> ELSE <<>>)
    \o (IF timed THEN <<"addRecord">> ELSE <<>>) \o <<"banned">>

FreezePlan(seen) ==
  (IF seen = "banned" THEN <<"archiveRecords">> ELSE <<>>)
    \o <<"mark", "hide", "frozen">>

ActivePlan(seen) ==
  CASE seen = "banned" -> <<"archiveRecords", "active">>
    [] seen = "frozen" -> <<"revertMarks", "unhide", "active">>
    [] OTHER           -> <<"active">>

\* The writes handleUpdateUserState will make, chosen by the state it saw.
Plan(seen, target, timed) ==
  CASE target = "banned"   -> BanPlan(seen, timed)
    [] target = "frozen"   -> FreezePlan(seen)
    [] target = "active"   -> ActivePlan(seen)
    [] target = "archived" -> <<"archived">>

Load(p) ==
  /\ staff[p].todo = <<>>
  /\ \E u \in User, target \in State, timed \in BOOLEAN :
       LET seen == account[u].state IN
       /\ Allowed(seen, target)
       /\ staff' = [staff EXCEPT ![p] = [user |-> u,
                                         todo |-> Plan(seen, target, timed)]]
  /\ UNCHANGED <<account, record, job, judged>>

\* Only NULL rows are marked ...
Marked_Overwrites(a) == [a EXCEPT !.content = "spam"]

Marked(a) == [a EXCEPT !.content = IF @ = "unjudged" THEN "spam" ELSE @]

\* ... and every true row is set back to NULL.
Reverted(a) == [a EXCEPT !.content = IF @ = "spam" THEN "unjudged" ELSE @]

\* As if every step that is no other were a state to write.
Written_StateVerbatim(a, step) ==
  CASE step = "mark"        -> Marked(a)
    [] step = "revertMarks" -> Reverted(a)
    [] OTHER                -> [a EXCEPT !.state = step]

Written(a, step) ==
  CASE step = "mark"        -> Marked(a)
    [] step = "revertMarks" -> Reverted(a)
    [] step = "hide"        -> [a EXCEPT !.hidden = TRUE]
    [] step = "unhide"      -> [a EXCEPT !.hidden = FALSE]
    [] step \in State       -> [a EXCEPT !.state = step]
    [] OTHER                -> a

RecordsAfter(records, step) ==
  CASE step = "addRecord"      -> records \cup {"running"}
    [] step = "archiveRecords" -> {}
    [] OTHER                   -> records

\* The next statement of the mutation takes effect.
Write(p) ==
  LET u == staff[p].user
      step == Head(staff[p].todo)
  IN /\ staff[p].todo # <<>>
     /\ account' = [account EXCEPT ![u] = Written(@, step)]
     /\ record' = [record EXCEPT ![u] = RecordsAfter(@, step)]
     /\ staff' = [staff EXCEPT ![p] =
                    IF Len(@.todo) = 1 THEN Done
                    ELSE [user |-> u, todo |-> Tail(@.todo)]]
     /\ UNCHANGED <<job, judged>>

\* A statement throws or the server stops: the rest is never written.
Drop(p) ==
  /\ Failures
  /\ staff[p].todo # <<>>
  /\ staff' = [staff EXCEPT ![p] = Done]
  /\ UNCHANGED <<account, record, job, judged>>

-----------------------------------------------------------------------------
(* setSpamStatus, the Stripe webhook's banUser, and time.                  *)

JudgeContent(u, verdict) ==
  /\ account' = [account EXCEPT ![u].content = verdict]
  /\ judged' = [judged EXCEPT ![u] = verdict]
  /\ UNCHANGED <<record, staff, job>>

\* A high-risk charge or a reversed payout: no days, no look at the state.
BanForPayment(u) ==
  /\ account' = [account EXCEPT ![u].state = "banned"]
  /\ UNCHANGED <<record, staff, job, judged>>

Untouched(u) == \A p \in Staff : staff[p].user # u

\* The last of a user's records passes its expired_at: days later, when the
\* request that wrote it is over.
BanExpires(u) ==
  /\ "running" \in record[u]
  /\ Untouched(u)
  /\ record' = [record EXCEPT ![u] = {"due"}]
  /\ UNCHANGED <<account, staff, job, judged>>

-----------------------------------------------------------------------------
(* The unbanUsers job, once a day on one worker.                           *)

StartUnban ==
  /\ job.pc = "waiting"
  /\ \E u \in User : "due" \in record[u]
  /\ job' = [pc |-> "running", batch |-> {u \in User : "due" \in record[u]},
             activated |-> {}]
  /\ UNCHANGED <<account, record, staff, judged>>

\* UPDATE "user" SET state = 'active': no look at the state it has now.
Activate(u) ==
  /\ u \in job.batch \ job.activated
  /\ account' = [account EXCEPT ![u].state = "active"]
  /\ job' = [job EXCEPT !.activated = @ \cup {u}]
  /\ UNCHANGED <<record, staff, judged>>

Archived_Nothing(records) == records

Archived(records) == records \ {"due"}

ArchiveRecord(u) ==
  /\ u \in job.activated
  /\ record' = [record EXCEPT ![u] = Archived(@)]
  /\ job' = [job EXCEPT !.batch = @ \ {u}, !.activated = @ \ {u}]
  /\ UNCHANGED <<account, staff, judged>>

\* An update of one record throws: logged, the others go on.
SkipRecord(u) ==
  /\ u \in job.batch
  /\ job' = [job EXCEPT !.batch = @ \ {u}, !.activated = @ \ {u}]
  /\ UNCHANGED <<account, record, staff, judged>>

FinishUnban ==
  /\ job.pc = "running" /\ job.batch = {}
  /\ job' = NoJob
  /\ UNCHANGED <<account, record, staff, judged>>

UnbanStep == \/ StartUnban \/ FinishUnban
             \/ \E u \in User : Activate(u) \/ ArchiveRecord(u)

Next ==
  \/ \E p \in Staff : Load(p) \/ Write(p) \/ Drop(p)
  \/ \E u \in User : \/ \E verdict \in {"spam", "ham"} : JudgeContent(u, verdict)
                     \/ BanForPayment(u)
                     \/ BanExpires(u)
                     \/ SkipRecord(u)
  \/ UnbanStep

Spec == Init /\ [][Next]_vars

\* Bans expire, Bull runs the job every day, and the update of one record
\* that fails today is tried again tomorrow: it does not fail for ever.
FairSpec ==
  /\ Spec
  /\ WF_vars(UnbanStep)
  /\ \A u \in User : /\ WF_vars(BanExpires(u))
                     /\ SF_vars(Activate(u))
                     /\ SF_vars(ArchiveRecord(u))

-----------------------------------------------------------------------------
(* Properties.                                                             *)

\* Whatever freezes, bans and unbans do to an account, at whatever moment of
\* one another, content that staff judged to be no spam keeps that verdict
\* (userService.ts:2053, 2158).
HamVerdictKept == \A u \in User : judged[u] = "ham" => account[u].content = "ham"

\* A timed ban does not outlive its record: the record is archived in the end,
\* although the job skips records that throw and moderators interfere.
TimedBanEnds == \A u \in User : record[u] # {} ~> "due" \notin record[u]

\* updateUserState.ts:138 "check to prevent unarchiving user": no archived
\* account is active again.  (archive leaves the punish records to the job.)
ArchivedNotRevived ==
  [][\A u \in User :
       account[u].state = "archived" => account'[u].state # "active"]_vars
=============================================================================
