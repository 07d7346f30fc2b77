------------------------------ MODULE Community ------------------------------
(* Where articles and comments are put, what staff decide about them, and money
   that a provider settles: channels, collections, pinned works, the community
   watch, circles, the curation vault and Like Pay.  Each behaviour follows one part, which
   focus names; what the others do to its state is among its own actions, so that
   nothing is lost by looking at one at a time.  *)
EXTENDS Naturals, FiniteSets, TLC

CONSTANTS
  Request,      \* requests of members, staff or providers at once
  Pinnable,     \* articles that may be pinned in a channel
  Channel,      \* topic channels
  Article,      \* articles of the author of a collection
  Paper,        \* articles an author may pin
  Shelf,        \* collections an author may pin
  Reason,       \* reasons for a removal
  Circle,       \* circles of one subscriber
  Subscribed,   \* subscriptions there may ever be
  PinAmount,    \* pin_amount of a curation channel
  TopicLimit,   \* TOPIC_CHANNEL_PIN_LIMIT
  MaxJobs,      \* classifications asked for
  MaxTasks,     \* requests on the channels of an article
  Limit,        \* MAX_ARTICLES_PER_COLLECTION_LIMIT
  Unit,         \* units in 1: how often a gap of orders halves
  MaxAsked,     \* requests on a collection
  PinLimit,     \* MAX_PINNED_WORKS_LIMIT
  MaxWrites,    \* requests on pinned works
  MaxActions,   \* removals of a comment
  MaxUpdates,   \* updates, folds and deletions of a comment
  MaxDonations, \* donations of 1 to the vault
  MaxRows,      \* withdrawals there may be
  MaxSlips,     \* faults on pinned works, in the vault, at Like Pay
  MaxFaults     \* faults, moves and leaves elsewhere

\* Sets of articles, collections and circles are finite, no article is a
\* collection, and limits are numbers.
ASSUME CommunityAssumption ==
  /\ IsFiniteSet(Pinnable) /\ IsFiniteSet(Article)
  /\ IsFiniteSet(Paper) /\ IsFiniteSet(Shelf) /\ Paper \cap Shelf = {}
  /\ IsFiniteSet(Circle)
  /\ PinAmount \in Nat /\ TopicLimit \in Nat
  /\ Limit \in Nat /\ Unit \in Nat \ {0} /\ PinLimit \in Nat
  /\ MaxActions \in Nat /\ MaxRows \in Nat

VARIABLES
  focus,  \* the part this behaviour is about
  kind, listed, pinned, older, topic, pinsAsked, strained,
  rows, jobs, sync, feedback, task, requested,
  orders, replica, active, ordering, ordered, slips,
  works, writer, written, workSlips,
  comment, actions, cases, moderation, removals, oddities,
  stripeSub, subscriptionRow, item, invite, sent, acked, invoiced, process,
  counts, troubles,
  vault, paid, donations, operation, withdrawal, payee, mishaps, mishap,
  likePay, wholeSum, record, posted, answered, visit, told, lapses

Pin == INSTANCE Pins
  WITH   Article <- Pinnable, Editor <- Request, asked <- pinsAsked
Chan == INSTANCE ArticleChannel
  WITH   Task <- Request, made <- requested
Coll == INSTANCE Collection
  WITH   request <- ordering, asked <- ordered
Work == INSTANCE PinnedWorks
  WITH   Writer <- Request, MaxAsked <- MaxWrites, MaxFaults <- MaxSlips,
         slips <- workSlips, asked <- written
Watch == INSTANCE CommunityWatch
  WITH   request <- moderation, made <- removals
Sub == INSTANCE Subscription
  WITH   Sub <- Subscribed, Process <- Request, MaxMoves <- MaxFaults,
         MaxLeaves <- MaxFaults, row <- subscriptionRow
Vault == INSTANCE VaultWithdrawal
  WITH   Payee <- Request, MaxFaults <- MaxSlips
Like == INSTANCE LikePay
  WITH   Visit <- Request, MaxFaults <- MaxSlips

pinVars == <<kind, listed, pinned, older, topic, pinsAsked, strained>>
chanVars == <<rows, jobs, sync, feedback, task, requested>>
collectionVars == <<orders, replica, active, ordering, ordered, slips>>
pinnedVars == <<works, writer, written, workSlips>>
watchVars == <<comment, actions, cases, moderation, removals, oddities>>
subVars == <<stripeSub, subscriptionRow, item, invite, sent, acked, invoiced,
             process, counts, troubles>>
vaultVars == <<vault, paid, donations, operation, withdrawal, payee, mishaps,
               mishap>>
likePayVars == <<likePay, wholeSum, record, posted, answered, visit, told,
                 lapses>>

vars == <<focus,
          pinVars, chanVars, collectionVars, pinnedVars, watchVars, subVars,
          vaultVars, likePayVars>>

\* A part that is not looked at starts in one fixed way.
Init ==
  /\ focus \in {"pins", "channel", "collection", "works", "watch", "subscription", "vault", "like"}
  /\ Pin!Init
  /\ Chan!Init
  /\ Coll!Init
  /\ Work!Init
  /\ Watch!Init
  /\ Sub!Init
  /\ Vault!Init
  /\ Like!Init
  /\ focus = "pins" \/ kind = "curation"
  /\ focus = "collection" \/ DOMAIN orders = {}
  /\ focus = "watch" \/ comment = "active"
  /\ focus = "subscription" \/ \A c \in Circle : invite[c] = "none"
  /\ focus = "vault" \/ vault = 0
  /\ focus = "like" \/ wholeSum

PinStep ==
  /\ focus = "pins" /\ Pin!Next
  /\ UNCHANGED <<focus, chanVars, collectionVars, pinnedVars, watchVars, subVars,
                   vaultVars, likePayVars>>

ChanStep ==
  /\ focus = "channel" /\ Chan!Next
  /\ UNCHANGED <<focus, pinVars, collectionVars, pinnedVars, watchVars, subVars,
                   vaultVars, likePayVars>>

CollStep ==
  /\ focus = "collection" /\ Coll!Next
  /\ UNCHANGED <<focus, pinVars, chanVars, pinnedVars, watchVars, subVars,
                   vaultVars, likePayVars>>

WorkStep ==
  /\ focus = "works" /\ Work!Next
  /\ UNCHANGED <<focus, pinVars, chanVars, collectionVars, watchVars, subVars,
                   vaultVars, likePayVars>>

WatchStep ==
  /\ focus = "watch" /\ Watch!Next
  /\ UNCHANGED <<focus, pinVars, chanVars, collectionVars, pinnedVars, subVars,
                   vaultVars, likePayVars>>

SubStep ==
  /\ focus = "subscription" /\ Sub!Next
  /\ UNCHANGED <<focus, pinVars, chanVars, collectionVars, pinnedVars, watchVars,
                   vaultVars, likePayVars>>

VaultStep ==
  /\ focus = "vault" /\ Vault!Next
  /\ UNCHANGED <<focus, pinVars, chanVars, collectionVars, pinnedVars, watchVars,
                   subVars, likePayVars>>

LikeStep ==
  /\ focus = "like" /\ Like!Next
  /\ UNCHANGED <<focus, pinVars, chanVars, collectionVars, pinnedVars, watchVars,
                   subVars, vaultVars>>

Next == PinStep \/ ChanStep \/ CollStep \/ WorkStep \/ WatchStep \/ SubStep \/ VaultStep \/ LikeStep

Spec == Init /\ [][Next]_vars

Symmetry == Permutations(Request)

------------------------------------------------------------------------------
(* Each property joins what the named modules say of their parts, which has its
   words and its sources there. *)

(* The state of every part keeps its type. *)
TypeOK ==
  /\ focus = "pins" => Pin!TypeOK
  /\ focus = "channel" => Chan!TypeOK
  /\ focus = "collection" => Coll!TypeOK
  /\ focus = "works" => Work!TypeOK
  /\ focus = "watch" => Watch!TypeOK
  /\ focus = "subscription" => Sub!TypeOK
  /\ focus = "vault" => Vault!TypeOK
  /\ focus = "like" => Like!TypeOK

(* Pins stay within their limit and room is made at the expense of the oldest,
   a collection keeps its capacity and the order that was asked for, an
   author's pinned works their limit (channelService.ts:834-1013,
   collectionService.ts:35-361, userWorkService.ts:37-49), with the exceptions
   the modules name. *)
PlacesKept ==
  [][ /\ focus = "pins" => Pin!PinsBounded' /\ Pin!OldestGoFirst
      /\ focus = "collection" =>
           Coll!ReorderedAsAsked' /\ Coll!WithinCapacity'
      /\ focus = "works" => Work!PinnedWithinLimit' ]_vars

(* What staff decided on an article's channels stands against the classifier
   and the automatic verdict, and a comment that was removed or deleted stays
   hidden until somebody may restore it, its case telling so
   (channelService.ts:303-365, 1262-1340, commentService.ts:186-828), unless
   requests overlapped. *)
StaffDecisionsStand ==
  [][ /\ focus = "channel" =>
           Chan!LabelsStand /\ Chan!AutoKeepsLabels /\ Chan!VerdictStands
      /\ focus = "watch" =>
           Watch!StandingRemovalHides' /\ Watch!CaseTellsDecision' /\ Watch!DeletedStaysDeleted ]_vars

(* Whom Stripe bills is a member and the other way round, an invoice is split
   once, a withdrawal is recorded as what the chain paid, a donation through
   Like Pay once (circle.ts:46-380, withdrawLockedTokens.ts:58-182,
   likecoin.ts:54-305), with the exceptions the modules name. *)
PaymentsMatchProviders ==
  [][ /\ focus = "subscription" =>
           Sub!BilledIsMember' /\ Sub!InvoiceSplitOnce' /\ Sub!MembersStay
      /\ focus = "vault" => Vault!ClaimedWasPaid' /\ Vault!RowTellsPayment'
      /\ focus = "like" => Like!LikeRecordedOnce' /\ Like!PaidIsSettled' ]_vars

==============================================================================
