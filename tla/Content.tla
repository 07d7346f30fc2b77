------------------------------- MODULE Content -------------------------------
(* What becomes of a draft, an article, a like and an application for the
   moment feed.  Each behaviour follows one part, which
   focus names; what the others do to its state is among its own actions, so that
   nothing is lost by looking at one at a time.  *)
EXTENDS Naturals, FiniteSets, TLC

CONSTANTS
  Session,      \* requests of one member at once
  Request,      \* requests and jobs that bear on federation
  Editing,      \* edits of one article at once
  Person,       \* people a content may mention
  Title,        \* titles
  Member,       \* members who apply for the feed
  Reviewer,     \* staff requests at once
  Lambda,       \* invocations at once
  MaxRevisions, \* MAX_ARTICLE_REVISION_COUNT
  MaxEdits,     \* how many edits are tried
  MaxRequests,  \* requests on the draft, or on federation
  MaxLikes,     \* likes and unlikes
  MaxVersions,  \* versions sent to IPFS
  MaxFaults     \* errors, stops, lost and repeated messages

\* Staff and invocations are finitely many, and there is a first version.
ASSUME ContentAssumption ==
  /\ IsFiniteSet(Reviewer) /\ IsFiniteSet(Lambda)
  /\ MaxVersions \in Nat \ {0} /\ MaxRevisions \in Nat

VARIABLES
  focus,  \* the part this behaviour is about
  draft, replica, fresh, worker, articles, requests, faults, raced,
  article, versions, editing, published, noticed, edits, muddled,
  post, author, request, events, copied, queue, remote, toggles, twisted,
  silent,
  feed, feedReplica, expired, review, batch, told, overtaken, stops,
  liked, session, sent, lambda, skip, lock, hash, recorded, made, shown, aged,
  likes, troubles, crossed, slipped, paired,
  copies, lastCopy, paywall, secret, uploads, queued, uploader, ipfsFaults,
  ipfsPast

Pub == INSTANCE Publication
Rev == INSTANCE Revision
Fed == INSTANCE Federation
  WITH   article <- post, requests <- toggles, muddled <- twisted
Feed == INSTANCE MomentFeed
  WITH   MaxStops <- MaxFaults, replica <- feedReplica
Note == INSTANCE Notice
  WITH   MaxTroubles <- MaxFaults
Ipfs == INSTANCE IpfsPublication
  WITH   Worker <- Lambda, versions <- copies, last <- lastCopy, worker <-
         uploader, faults <- ipfsFaults, past <- ipfsPast

pubVars == <<draft, replica, fresh, worker, articles, requests, faults, raced>>
revVars == <<article, versions, editing, published, noticed, edits, muddled>>
fedVars == <<post, author, request, events, copied, queue, remote, toggles,
             twisted, silent>>
feedVars == <<feed, feedReplica, expired, review, batch, told, overtaken,
              stops>>
noticeVars == <<liked, session, sent, lambda, skip, lock, hash, recorded,
                made, shown, aged, likes, troubles, crossed, slipped, paired>>
ipfsVars == <<copies, lastCopy, paywall, secret, uploads, queued, uploader,
              ipfsFaults, ipfsPast>>

vars == <<focus,
          pubVars, revVars, fedVars, feedVars, noticeVars, ipfsVars>>

\* A part that is not looked at starts in one fixed way.
Init ==
  /\ focus \in {"publication", "revision", "federation", "feed", "notice", "ipfs"}
  /\ Pub!Init
  /\ Rev!Init
  /\ Fed!Init
  /\ Feed!Init
  /\ Note!Init
  /\ Ipfs!Init
  /\ focus = "revision" \/ versions[1].title = CHOOSE t \in Title : TRUE
  /\ focus = "federation" \/ author.on
  /\ focus = "ipfs" \/ paywall

PubStep ==
  /\ focus = "publication" /\ Pub!Next
  /\ UNCHANGED <<focus, revVars, fedVars, feedVars, noticeVars, ipfsVars>>

RevStep ==
  /\ focus = "revision" /\ Rev!Next
  /\ UNCHANGED <<focus, pubVars, fedVars, feedVars, noticeVars, ipfsVars>>

FedStep ==
  /\ focus = "federation" /\ Fed!Next
  /\ UNCHANGED <<focus, pubVars, revVars, feedVars, noticeVars, ipfsVars>>

FeedStep ==
  /\ focus = "feed" /\ Feed!Next
  /\ UNCHANGED <<focus, pubVars, revVars, fedVars, noticeVars, ipfsVars>>

NoteStep ==
  /\ focus = "notice" /\ Note!Next
  /\ UNCHANGED <<focus, pubVars, revVars, fedVars, feedVars, ipfsVars>>

IpfsStep ==
  /\ focus = "ipfs" /\ Ipfs!Next
  /\ UNCHANGED <<focus, pubVars, revVars, fedVars, feedVars, noticeVars>>

Next == PubStep \/ RevStep \/ FedStep \/ FeedStep \/ NoteStep \/ IpfsStep

Spec == Init /\ [][Next]_vars

------------------------------------------------------------------------------
(* Each property joins what the named modules say of their parts, which has its
   words and its sources there. *)

(* The state of every part keeps its type. *)
TypeOK ==
  /\ focus = "publication" => Pub!TypeOK
  /\ focus = "federation" => Fed!TypeOK
  /\ focus = "feed" => Feed!TypeOK
  /\ focus = "notice" => Note!TypeOK
  /\ focus = "ipfs" => Ipfs!TypeOK

(* One draft makes one article, and is pending only while somebody works on it
   (publicationService.ts:92-113, 725-750), with the exceptions Publication
   names. *)
DraftsPublishedOnce ==
  /\ focus = "publication" => Pub!PublishedOnce /\ Pub!PendingIsWorkedOn

(* An edit is written over what its author saw and brings nothing older back,
   revisions stay within the limit, and a new mention is told once
   (putDraft.ts:183-220, editArticle.ts:190-266, revision.ts:165-196), unless
   edits overlapped. *)
EditsLoseNothing ==
  [][ /\ focus = "publication" => Pub!EditsOnLatestDraft
      /\ focus = "revision" =>
           Rev!NothingReverted /\ Rev!RevisionsLimited' /\ Rev!MentionsToldOnce' ]_vars

(* What is exported is what the gate allows, and of an archived article
   nothing but its removal is sent (federationExportService.ts:733-879); what
   a version has on IPFS is its own content, readable with the key of the
   article (ipfsPublicationService.ts:258-378) - with the exceptions
   Federation and IpfsPublication name. *)
CopiesFollowSettings ==
  [][ /\ focus = "federation" =>
           Fed!CopyIsEligible' /\ Fed!OnlyRemovalAfterArchive
      /\ focus = "ipfs" => Ipfs!HashIsOfContent' /\ Ipfs!KeyOpensLatest' ]_vars

(* A decision of staff on the moment feed is overruled by an outdated list
   alone, and nobody is in the feed without having been told
   (momentService.ts:122-218). *)
ReviewsStand ==
  [][ /\ focus = "feed" =>
           Feed!StaffOverruledByOldListOnly /\ Feed!ApprovedWereTold' ]_vars

(* When all has come to rest there is one notice for a like that stands and
   none for one taken back (notificationService.ts:77-128, notify.ts:19-83),
   with the exceptions Notice names. *)
NoticesFollowLikes ==
  /\ focus = "notice" =>
       Note!WithdrawnLeavesNothing /\ Note!LikeIsTold /\ Note!ToldOnce

(* What is under way comes to its end: a due draft is published, a mention
   told, an archived copy removed, an application decided, a withdrawal over -
   each under the fairness of its module, whose faults are bounded. *)
WorkGetsDone ==
  /\ focus = "publication" => (Pub!Fairness => Pub!DueIsPublished)
  /\ focus = "revision" => (Rev!Fairness => Rev!MentionsTold)
  /\ focus = "federation" => (Fed!Fairness => Fed!ArchivedIsRemoved)
  /\ focus = "feed" => (Feed!Fairness => Feed!ApplicationsDecided)
  /\ focus = "notice" => (Note!Fairness => Note!WithdrawalEnds)
  /\ focus = "ipfs" => (Ipfs!Fairness => Ipfs!VersionsGetHash)

==============================================================================
