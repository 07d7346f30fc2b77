----------------------------- MODULE Federation -----------------------------
(* Export of one article to the fediverse (connectors/article/
   federationExportService.ts, trigger mode "sqs").

   Publishing, revising, archiving and the settings record an event with the
   decision of the gate and, if something is to be done, send a message to a FIFO
   queue whose consumer lives outside this repository and keeps a remote copy.
   The settings are written first, the decision reads the primary database later,
   the message goes last.  Turning the author off looks for past exports on the
   replica. *)
EXTENDS Naturals, Sequences, SequencesExt

CONSTANTS
  Request,      \* requests and jobs under way at once
  MaxRequests,  \* how many there are
  MaxFaults     \* errors of the queue and stops

VARIABLES
  article,  \* state, public access, own setting
  author,   \* opted in, account archived
  request,  \* per request: step, action, decision
  events,   \* federation_export_event rows: action and status
  copied,   \* how many of them the replica has
  queue,    \* actions sent and not consumed
  remote,   \* there is a remote copy
  requests, \* bounded by MaxRequests
  muddled,  \* requests overlapped or were cut off, or the replica lagged
  silent    \* eligibility was lost in a way that triggers nothing

fedVars == <<article, author, request, events, copied, queue, remote, requests,
             muddled, silent>>

Done == [step |-> "idle", action |-> "none", eligible |-> FALSE]
OfAuthor == "delete if exported"

Init ==
  /\ article = [state |-> "draft", public |-> TRUE, setting |-> "inherit"]
  /\ \E on \in BOOLEAN : author = [on |-> on, archived |-> FALSE]
  /\ request = [r \in Request |-> Done]
  /\ events = <<>>
  /\ copied = 0
  /\ queue = <<>>
  /\ remote = FALSE
  /\ requests = 0
  /\ muddled = FALSE /\ silent = FALSE

IsPublic_AnyState == article.state # "draft" /\ article.public /\ ~author.archived

\* isFederationPublicArticleRow
IsPublic == article.state = "active" /\ article.public /\ ~author.archived

\* resolveFederationExportGate
Eligible == IsPublic /\ article.setting # "disabled" /\ author.on

Busy == \E r \in Request : request[r].step # "idle"

\* A request changed a and o and goes on to record action, if it triggers at all.
Trigger(r, action) ==
  /\ request[r].step = "idle" /\ requests < MaxRequests
  /\ requests' = requests + 1
  /\ request' = [request EXCEPT ![r] =
       IF action = "none" THEN Done ELSE [Done EXCEPT !.step = "decide", !.action = action]]
  /\ muddled' = (muddled \/ Busy)
  /\ UNCHANGED <<events, copied, queue, remote>>

\* publishArticle, once the article is made
Publish(r) ==
  /\ article.state = "draft"
  /\ article' = [article EXCEPT !.state = "active"]
  /\ Trigger(r, "create") /\ UNCHANGED <<author, silent>>

\* editArticle: a revision
Revise(r) ==
  /\ article.state = "active"
  /\ Trigger(r, "update") /\ UNCHANGED <<article, author, silent>>

ArchiveArticle(r) ==
  /\ article.state = "active"
  /\ article' = [article EXCEPT !.state = "archived"]
  /\ Trigger(r, "delete") /\ UNCHANGED <<author, silent>>

\* editArticle: accessType alone is no revision and triggers nothing.
ChangeAccess(r) ==
  /\ article.state = "active"
  /\ article' = [article EXCEPT !.public = ~@]
  /\ silent' = TRUE
  /\ Trigger(r, "none") /\ UNCHANGED author

\* setArticleFederationSetting, for an article in any state
SetArticle(r, setting) ==
  /\ article.state # "draft"
  /\ article' = [article EXCEPT !.setting = setting]
  /\ Trigger(r, IF setting = "disabled" THEN "delete" ELSE "update")
  /\ UNCHANGED <<author, silent>>

\* setViewerFederationSetting: opting in triggers nothing.
SetAuthor(r, on) ==
  /\ ~author.archived
  /\ author' = [author EXCEPT !.on = on]
  /\ Trigger(r, IF on THEN "none" ELSE OfAuthor)
  /\ UNCHANGED <<article, silent>>

\* put*FederationSetting of the staff, and archiving the account
ChangeSilently(r) ==
  /\ \/ author' = [author EXCEPT !.on = ~@] /\ UNCHANGED article
     \/ author' = [author EXCEPT !.archived = TRUE] /\ UNCHANGED article
     \/ \E s \in {"inherit", "disabled"} :
          article' = [article EXCEPT !.setting = s] /\ UNCHANGED author
  /\ silent' = TRUE
  /\ Trigger(r, "none")

\* recordAuthorDisableTriggers: articles exported as far as the replica knows
FindExports(r) ==
  LET known == \E i \in 1..copied :
                 events[i].action # "delete" /\ events[i].status = "queued" IN
  /\ request[r].step = "decide" /\ request[r].action = OfAuthor
  /\ request' = [request EXCEPT ![r] = IF known THEN [@ EXCEPT !.action = "delete"] ELSE Done]
  /\ muddled' = (muddled \/ copied < Len(events))
  /\ UNCHANGED <<article, author, events, copied, queue, remote, requests, silent>>

Decide(r) ==
  /\ request[r].step = "decide" /\ request[r].action # OfAuthor
  /\ request' = [request EXCEPT ![r].step = "insert", ![r].eligible = Eligible]
  /\ UNCHANGED <<article, author, events, copied, queue, remote, requests, muddled, silent>>

ShouldQueue_EligibleOnly(d) == d.eligible

ShouldQueue(d) == d.eligible \/ d.action = "delete"

InsertEvent(r) ==
  LET d == request[r] IN
  /\ d.step = "insert"
  /\ events' = Append(events, [action |-> d.action,
                               status |-> IF ShouldQueue(d) THEN "queued" ELSE "skipped"])
  /\ request' = [request EXCEPT ![r] = IF ShouldQueue(d) THEN [@ EXCEPT !.step = "send"] ELSE Done]
  /\ UNCHANGED <<article, author, copied, queue, remote, requests, muddled, silent>>

SendMessage(r) ==
  /\ request[r].step = "send"
  /\ queue' = Append(queue, request[r].action)
  /\ request' = [request EXCEPT ![r] = Done]
  /\ UNCHANGED <<article, author, events, copied, remote, requests, muddled, silent>>

\* The send fails and the event with it, or the server stops: the event stays
\* "queued" then, as if it had been sent.
CutOff(r) ==
  /\ request[r].step # "idle" /\ MaxFaults > 0
  /\ request' = [request EXCEPT ![r] = Done]
  /\ \/ UNCHANGED events
     \/ \E i \in DOMAIN events :
          /\ request[r].step = "send" /\ i = Len(events)
          /\ events' = [events EXCEPT ![i].status = "failed"]
  /\ muddled' = TRUE
  /\ UNCHANGED <<article, author, copied, queue, remote, requests, silent>>

Replicate ==
  /\ copied < Len(events)
  /\ copied' = Len(events)
  /\ UNCHANGED <<article, author, request, events, queue, remote, requests, muddled, silent>>

\* The consumer, outside this repository: one message group per article, in order
Consume ==
  /\ queue # <<>>
  /\ remote' = (Head(queue) # "delete")
  /\ queue' = Tail(queue)
  /\ UNCHANGED <<article, author, request, events, copied, requests, muddled, silent>>

Next ==
  \/ \E r \in Request :
       \/ Publish(r) \/ Revise(r) \/ ArchiveArticle(r) \/ ChangeAccess(r) \/ ChangeSilently(r)
       \/ \E s \in {"inherit", "enabled", "disabled"} : SetArticle(r, s)
       \/ \E on \in BOOLEAN : SetAuthor(r, on)
       \/ FindExports(r) \/ Decide(r) \/ InsertEvent(r) \/ SendMessage(r) \/ CutOff(r)
  \/ Replicate \/ Consume

Fairness ==
  /\ WF_fedVars(Consume)
  /\ \A r \in Request :
       WF_fedVars(FindExports(r) \/ Decide(r) \/ InsertEvent(r) \/ SendMessage(r))

Spec == Init /\ [][Next]_fedVars /\ Fairness

-----------------------------------------------------------------------------
(* The replica never has more events than there are, and only decided actions
   are recorded or sent. *)
TypeOK ==
  /\ copied \in 0..Len(events)
  /\ \A i \in DOMAIN queue : queue[i] \in {"create", "update", "delete"}
  /\ \A i \in DOMAIN events : events[i].status \in {"queued", "skipped", "failed"}

(* When every request and message is done, a remote copy is one the gate still
   allows (docs/Federation-Export.md, "Eligibility gate";
   federationExportService.ts:743-845), unless requests overlapped or were cut
   off, the replica lagged, or the right was lost without a trigger. *)
CopyIsEligible ==
  queue = <<>> /\ ~Busy /\ ~muddled /\ ~silent => (remote => Eligible)

(* Nothing but its removal is sent for an archived article, though its settings
   can still be changed (setArticleFederationSetting.ts:37-80), unless requests
   overlapped. *)
OnlyRemovalAfterArchive ==
  [ article.state = "archived" /\ ~muddled /\ Len(queue') > Len(queue)
        => Last(queue') = "delete" ]_fedVars

(* Archiving an article that nothing else touches removes its copy. *)
ArchivedIsRemoved ==
  article.state = "archived" ~> (~remote \/ muddled)
=============================================================================
