------------------------------ MODULE Retention -----------------------------
(* Winning back one silent member (connectors/userRetentionService.ts, the Lambdas
   handlers/userRetention.ts and handlers/userRetentionSendmail.ts).

   The history is append-only and its latest row is the member's state.  A daily
   run marks new, active, returned and inactive members and, for one silent long
   enough, sends a message each day until the mail was sent; the mailer reads the
   state from the replica, sends the mail and marks ALERT.  Time is abstracted to
   whether the member was seen since the latest mark, did enough since, and
   whether the interval has passed. *)
EXTENDS Naturals, FiniteSets

CONSTANTS
  Mailer,      \* invocations of the mailing Lambda at once
  MaxVisits,   \* how often the member comes back
  MaxTroubles  \* failed invocations and lost messages

VARIABLES
  mark,     \* latest state of the history, "none" before the first
  seen,     \* last_seen is later than the mark
  engaged,  \* read or wrote enough since the mark
  silent,   \* the interval has passed since the mark
  known,    \* mark, as the replica has it
  run,      \* the daily run: its step and the row it read
  mails,    \* messages in the queue, by the state they were sent for
  mailer,   \* per invocation: type and whether the mail was sent
  mailed,   \* mails (0, 1, more) since the member was marked NEWUSER or ACTIVE
  stale,    \* a mark was made on something outdated since then
  visits, troubles

retVars == <<mark, seen, engaged, silent, known, run, mails, mailer, mailed,
             stale, visits, troubles>>

Off == [step |-> "off", mark |-> "none", seen |-> FALSE]
Free == [step |-> "idle", type |-> "none"]
ToMail == {"NEWUSER", "ACTIVE"}
MaxMails == 2

Init ==
  /\ mark = "none" /\ known = "none"
  /\ seen = FALSE /\ engaged = FALSE /\ silent = FALSE
  /\ run = Off
  /\ mails = [t \in ToMail |-> 0]
  /\ mailer = [m \in Mailer |-> Free]
  /\ mailed = 0 /\ stale = FALSE
  /\ visits = 0 /\ troubles = 0

\* A row is added: nothing has happened since.
Marks(state) ==
  /\ mark' = state
  /\ seen' = FALSE /\ engaged' = FALSE /\ silent' = FALSE

Trouble == troubles < MaxTroubles /\ troubles' = troubles + 1

-----------------------------------------------------------------------------
(* The member and time *)

Visit ==
  /\ mark # "none" /\ visits < MaxVisits
  /\ visits' = visits + 1
  /\ seen' = TRUE
  /\ engaged' \in {engaged, TRUE}
  /\ UNCHANGED <<mark, silent, known, run, mails, mailer, mailed, stale, troubles>>

IntervalPasses ==
  /\ mark \in ToMail \cup {"ALERT"} /\ ~silent
  /\ silent' = TRUE
  /\ UNCHANGED <<mark, seen, engaged, known, run, mails, mailer, mailed, stale, visits, troubles>>

Replicate ==
  /\ known # mark
  /\ known' = mark
  /\ UNCHANGED <<mark, seen, engaged, silent, run, mails, mailer, mailed, stale, visits, troubles>>

-----------------------------------------------------------------------------
(* The daily run *)

\* markNewUsers, and markActiveUsers for those never marked
StartRun ==
  /\ run = Off
  /\ run' = [Off EXCEPT !.step = "active"]
  /\ IF mark = "none"
       THEN \E s \in {"NEWUSER", "ACTIVE"} : Marks(s)
       ELSE UNCHANGED <<mark, seen, engaged, silent>>
  /\ UNCHANGED <<known, mails, mailer, mailed, stale, visits, troubles>>

\* markActiveUsers, from NORMAL and INACTIVE
Reactivated == mark \in {"NORMAL", "INACTIVE"} /\ engaged

MarkActive ==
  /\ run.step = "active"
  /\ run' = [run EXCEPT !.step = "fetch"]
  /\ IF Reactivated
       THEN /\ Marks("ACTIVE") /\ mailed' = 0
            /\ stale' = \E m \in Mailer : mailer[m] # Free
       ELSE UNCHANGED <<mark, seen, engaged, silent, mailed, stale>>
  /\ UNCHANGED <<known, mails, mailer, visits, troubles>>

\* fetchUsersData, from the replica: last_seen belongs to the latest mark
\* when the replica has that mark.
FetchUser ==
  /\ run.step = "fetch"
  /\ run' = IF known \in ToMail \cup {"ALERT"}
              THEN [step |-> "judge", mark |-> known, seen |-> seen]
              ELSE Off
  /\ UNCHANGED <<mark, seen, engaged, silent, known, mails, mailer, mailed, stale, visits, troubles>>

Returned_Never == FALSE

\* lastSeen > stateUpdatedAt
Returned == run.seen

\* markUserState(NORMAL), sendmail, markUserState(INACTIVE) or nothing
Judge ==
  /\ run.step = "judge"
  /\ run' = Off
  /\ \/ /\ Returned
        /\ Marks("NORMAL")
        /\ stale' = (stale \/ mark # run.mark)
        /\ UNCHANGED mails
     \/ /\ ~Returned /\ silent /\ run.mark = "ALERT"
        /\ Marks("INACTIVE")
        /\ stale' = (stale \/ mark # run.mark \/ seen # run.seen)
        /\ UNCHANGED mails
     \/ /\ ~Returned /\ silent /\ run.mark \in ToMail
        /\ mails' = [mails EXCEPT ![run.mark] = IF @ < MaxMails THEN @ + 1 ELSE @]
        /\ UNCHANGED <<mark, seen, engaged, silent, stale>>
     \/ /\ ~Returned /\ ~silent
        /\ UNCHANGED <<mark, seen, engaged, silent, mails, stale>>
  /\ UNCHANGED <<known, mailer, mailed, visits, troubles>>

\* The send is caught, the next day tries again; or the run stops.
LoseRun ==
  /\ run # Off /\ Trouble
  /\ run' = Off
  /\ UNCHANGED <<mark, seen, engaged, silent, known, mails, mailer, mailed, stale, visits>>

-----------------------------------------------------------------------------
(* The mailer *)

Awaits_Any(type) == TRUE

Awaits_NewUser(type) == known = type /\ type = "NEWUSER"

\* sendmail: the state, from the replica, is still the one of the message.
Awaits(type) == known = type

Receive(m, type) ==
  /\ mailer[m] = Free /\ mails[type] > 0
  /\ mails' = [mails EXCEPT ![type] = @ - 1]
  /\ mailer' = [mailer EXCEPT ![m] = IF Awaits(type) THEN [step |-> "send", type |-> type] ELSE Free]
  /\ stale' = (stale \/ (Awaits(type) /\ (mark # known \/ \E o \in Mailer : mailer[o] # Free)))
  /\ UNCHANGED <<mark, seen, engaged, silent, known, run, mailed, visits, troubles>>

SendMail(m) ==
  /\ mailer[m].step = "send"
  /\ mailed' = IF mailed < 2 THEN mailed + 1 ELSE mailed
  /\ mailer' = [mailer EXCEPT ![m].step = "mark"]
  /\ UNCHANGED <<mark, seen, engaged, silent, known, run, mails, stale, visits, troubles>>

MarkAlert(m) ==
  /\ mailer[m].step = "mark"
  /\ Marks("ALERT")
  /\ stale' = (stale \/ mark # mailer[m].type)
  /\ mailer' = [mailer EXCEPT ![m] = Free]
  /\ UNCHANGED <<known, run, mails, mailed, visits, troubles>>

\* The invocation fails: the message comes again, a mail sent or not.
FailMail(m) ==
  /\ mailer[m] # Free /\ Trouble
  /\ mails' = [mails EXCEPT ![mailer[m].type] = @ + 1]
  /\ mailer' = [mailer EXCEPT ![m] = Free]
  /\ UNCHANGED <<mark, seen, engaged, silent, known, run, mailed, stale, visits>>

Next ==
  \/ Visit \/ IntervalPasses \/ Replicate
  \/ StartRun \/ MarkActive \/ FetchUser \/ Judge \/ LoseRun
  \/ \E m \in Mailer :
       \/ \E t \in ToMail : Receive(m, t)
       \/ SendMail(m) \/ MarkAlert(m) \/ FailMail(m)

Fairness ==
  /\ WF_retVars(IntervalPasses) /\ WF_retVars(Replicate)
  /\ WF_retVars(StartRun) /\ WF_retVars(MarkActive)
  /\ WF_retVars(FetchUser) /\ WF_retVars(Judge)
  /\ WF_retVars(\E m \in Mailer, t \in ToMail : Receive(m, t))
  /\ \A m \in Mailer : WF_retVars(SendMail(m) \/ MarkAlert(m))

Spec == Init /\ [][Next]_retVars /\ Fairness

-----------------------------------------------------------------------------
(* States are those of the history, and queues are bounded. *)
TypeOK ==
  /\ {mark, known} \subseteq {"none", "NEWUSER", "ACTIVE", "NORMAL", "ALERT", "INACTIVE"}
  /\ \A t \in ToMail : mails[t] \in 0..MaxMails + Cardinality(Mailer)
  /\ run.step \in {"off", "active", "fetch", "judge"}

(* One spell of silence brings one mail, though a message is sent every day until
   the mail was (userRetentionService.ts:75-96, 222-300) - unless the replica
   lagged, two mailers worked at once, or one failed after sending. *)
OneMailPerSpell == ~stale /\ troubles = 0 => mailed <= 1

(* A member is given up only after a mail of this spell, and not if seen since it
   (userRetentionService.ts:77-91), unless a mark was made on outdated data. *)
GivenUpAfterMail ==
  [ mark' = "INACTIVE" /\ mark # "INACTIVE" /\ ~stale'
        => mailed > 0 /\ mark = "ALERT" /\ ~seen ]_retVars

(* A member who never comes back is mailed and given up in the end. *)
SilentIsGivenUp ==
  (mark \in ToMail \cup {"ALERT"}) ~> (mark = "INACTIVE" \/ mark = "NORMAL")
=============================================================================
