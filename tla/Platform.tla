------------------------------ MODULE Platform -------------------------------
(* Services that keep a state of their own, and what staff and members do to
   accounts, campaigns, tags, comments, topics and appreciations.  Each behaviour follows one part, which
   focus names; what the others do to its state is among its own actions, so that
   nothing is lost by looking at one at a time.  *)
EXTENDS TLC

CONSTANTS
  Mailer,       \* invocations of the mailing Lambda at once
  Reader,       \* requests at once
  Job,          \* the scheduled job
  Stage,        \* stages of a campaign
  None,         \* no stage
  Tag,          \* tags
  New,          \* the tag others are merged into
  Article,      \* articles with tags
  Member,       \* who follows tags
  Author,       \* the author of an article, who also reports
  Reporter,     \* who reports
  Topic,        \* topics
  Picked,       \* articles of the topics
  Person,       \* who a comment may concern
  NoPerson,     \* undefined in the code
  PinAmount,    \* articles a topic needs
  Threshold,    \* reports that fold a comment; appreciations of one article
  MaxVisits,    \* how often the member comes back
  MaxTime,      \* how often the source of rates changes
  MaxCode,      \* how many codes are sent
  MaxAsked,     \* requests on a campaign or on topics
  MaxMerges,    \* merges and edits of tags
  MaxGifts,     \* appreciations, and rows of them
  MaxMoves,     \* moves on an account or a comment
  MaxRows,      \* rows of one campaign
  MaxEdits,     \* edits of a comment
  MaxStops      \* invocations that fail

VARIABLES
  focus,  \* the part this behaviour is about
  mark, seen, engaged, silent, known, run, mails, mailer, mailed, stale,
  visits, troubles,
  ranking, lock, warmer, expired, asked, stops,
  now, rate, reader, outrun,
  purpose, codes, aged, request, uses, crossed, codeStops,
  account, cases, newest, actor, caseMoves, caseHistory,
  applications, entries, entryReplica, campaignRequest, campaignAsked,
  published, wanted, banned, campaignTroubles,
  tags, onMoments, articleTag, follows, merge, edit, tagsAsked, first,
  tagsWanted, excuses,
  comment, reports, outcome, reportRequest, moves, past,
  amount, old, gift, given, likeCoinTold, overlap,
  topics, choice, editor, topicsAsked, topicsOverlap, topicsCut,
  thread, mentioned, edits, commentTold

Ret == INSTANCE Retention
  WITH   MaxTroubles <- MaxStops
Warm == INSTANCE WarmCache
Rate == INSTANCE RateCache
Code == INSTANCE VerificationCode
  WITH   Request <- Reader, stops <- codeStops
Case == INSTANCE AccountCase
  WITH   Actor <- Reader, history <- caseHistory, moves <- caseMoves
Camp == INSTANCE Campaign
  WITH   Request <- Reader, asked <- campaignAsked, request <-
         campaignRequest, troubles <- campaignTroubles, replica <-
         entryReplica
Tags == INSTANCE TagMerge
  WITH   MaxAsked <- MaxMerges, asked <- tagsAsked, wanted <- tagsWanted
Report == INSTANCE ReportedComment
  WITH   Request <- Reader, request <- reportRequest
Appreciate == INSTANCE Appreciation
  WITH   Request <- Reader, MaxRows <- MaxGifts, MaxAsked <- MaxGifts, Limit
         <- Threshold, request <- gift, asked <- given, told <- likeCoinTold
Topics == INSTANCE IcymiTopic
  WITH   Editor <- Reader, Article <- Picked, asked <- topicsAsked, overlap <-
         topicsOverlap, cut <- topicsCut
Tell == INSTANCE CommentNotice
  WITH   told <- commentTold

retVars == <<mark, seen, engaged, silent, known, run, mails, mailer, mailed,
             stale, visits, troubles>>
warmVars == <<ranking, lock, warmer, expired, asked, stops>>
rateVars == <<now, rate, reader, outrun>>
codeVars == <<purpose, codes, aged, request, uses, crossed, codeStops>>
caseVars == <<account, cases, newest, actor, caseMoves, caseHistory>>
campaignVars == <<applications, entries, entryReplica, campaignRequest,
                  campaignAsked, published, wanted, banned, campaignTroubles>>
tagVars == <<tags, onMoments, articleTag, follows, merge, edit, tagsAsked,
             first, tagsWanted, excuses>>
reportVars == <<comment, reports, outcome, reportRequest, moves, past>>
appreciationVars == <<amount, old, gift, given, likeCoinTold, overlap>>
topicVars == <<topics, choice, editor, topicsAsked, topicsOverlap, topicsCut>>
commentNoticeVars == <<thread, mentioned, edits, commentTold>>

vars == <<focus,
          retVars, warmVars, rateVars, codeVars, caseVars, campaignVars,
          tagVars, reportVars, appreciationVars, topicVars, commentNoticeVars>>

\* A part that is not looked at starts in one fixed way.
Init ==
  /\ focus \in {"retention", "warm", "rate", "code", "case", "campaign", "tags", "reports", "appreciation", "topics", "comments"}
  /\ Ret!Init
  /\ Warm!Init
  /\ Rate!Init
  /\ Code!Init
  /\ Case!Init
  /\ Camp!Init
  /\ Tags!Init
  /\ Report!Init
  /\ Appreciate!Init
  /\ Topics!Init
  /\ Tell!Init
  /\ focus = "code" \/ purpose = "verify"
  /\ focus = "tags" \/ onMoments = {}
  /\ focus = "tags" \/ follows = {}
  /\ focus = "tags" \/ tagsWanted = [a \in Article |-> {New}]
  /\ focus = "comments" \/ thread = CHOOSE x \in Tell!Thread : Tell!Fitting(x)

RetStep ==
  /\ focus = "retention" /\ Ret!Next
  /\ UNCHANGED <<focus, warmVars, rateVars, codeVars, caseVars, campaignVars,
                   tagVars, reportVars, appreciationVars, topicVars,
                   commentNoticeVars>>

WarmStep ==
  /\ focus = "warm" /\ Warm!Next
  /\ UNCHANGED <<focus, retVars, rateVars, codeVars, caseVars, campaignVars,
                   tagVars, reportVars, appreciationVars, topicVars,
                   commentNoticeVars>>

RateStep ==
  /\ focus = "rate" /\ Rate!Next
  /\ UNCHANGED <<focus, retVars, warmVars, codeVars, caseVars, campaignVars,
                   tagVars, reportVars, appreciationVars, topicVars,
                   commentNoticeVars>>

CodeStep ==
  /\ focus = "code" /\ Code!Next
  /\ UNCHANGED <<focus, retVars, warmVars, rateVars, caseVars, campaignVars,
                   tagVars, reportVars, appreciationVars, topicVars,
                   commentNoticeVars>>

CaseStep ==
  /\ focus = "case" /\ Case!Next
  /\ UNCHANGED <<focus, retVars, warmVars, rateVars, codeVars, campaignVars,
                   tagVars, reportVars, appreciationVars, topicVars,
                   commentNoticeVars>>

CampStep ==
  /\ focus = "campaign" /\ Camp!Next
  /\ UNCHANGED <<focus, retVars, warmVars, rateVars, codeVars, caseVars, tagVars,
                   reportVars, appreciationVars, topicVars, commentNoticeVars>>

TagsStep ==
  /\ focus = "tags" /\ Tags!Next
  /\ UNCHANGED <<focus, retVars, warmVars, rateVars, codeVars, caseVars,
                   campaignVars, reportVars, appreciationVars, topicVars,
                   commentNoticeVars>>

ReportStep ==
  /\ focus = "reports" /\ Report!Next
  /\ UNCHANGED <<focus, retVars, warmVars, rateVars, codeVars, caseVars,
                   campaignVars, tagVars, appreciationVars, topicVars,
                   commentNoticeVars>>

AppreciateStep ==
  /\ focus = "appreciation" /\ Appreciate!Next
  /\ UNCHANGED <<focus, retVars, warmVars, rateVars, codeVars, caseVars,
                   campaignVars, tagVars, reportVars, topicVars,
                   commentNoticeVars>>

TopicsStep ==
  /\ focus = "topics" /\ Topics!Next
  /\ UNCHANGED <<focus, retVars, warmVars, rateVars, codeVars, caseVars,
                   campaignVars, tagVars, reportVars, appreciationVars,
                   commentNoticeVars>>

TellStep ==
  /\ focus = "comments" /\ Tell!Next
  /\ UNCHANGED <<focus, retVars, warmVars, rateVars, codeVars, caseVars,
                   campaignVars, tagVars, reportVars, appreciationVars,
                   topicVars>>

Next == RetStep \/ WarmStep \/ RateStep \/ CodeStep \/ CaseStep \/ CampStep \/ TagsStep \/ ReportStep \/ AppreciateStep \/ TopicsStep \/ TellStep

Spec == Init /\ [][Next]_vars

------------------------------------------------------------------------------
(* Each property joins what the named modules say of their parts, which has its
   words and its sources there. *)

(* The state of every part keeps its type. *)
TypeOK ==
  /\ focus = "retention" => Ret!TypeOK
  /\ focus = "warm" => Warm!TypeOK
  /\ focus = "rate" => Rate!TypeOK
  /\ focus = "code" => Code!TypeOK
  /\ focus = "case" => Case!TypeOK
  /\ focus = "campaign" => Camp!TypeOK
  /\ focus = "tags" => Tags!TypeOK
  /\ focus = "reports" => Report!TypeOK
  /\ focus = "appreciation" => Appreciate!TypeOK
  /\ focus = "topics" => Topics!TypeOK
  /\ focus = "comments" => Tell!TypeOK

(* One spell of silence brings one mail, and a member is given up only after
   it (userRetentionService.ts:57-319); a new comment is told once to
   everybody it concerns, an edited one to those mentioned
   (putComment.ts:411-582) - with the exceptions the modules name. *)
MembersToldOnce ==
  [][ /\ focus = "retention" => Ret!OneMailPerSpell' /\ Ret!GivenUpAfterMail
      /\ focus = "comments" =>
           Tell!ConcernedAreToldOnce' /\ Tell!EditsToldToMentioned ]_vars

(* Content is hidden for a frozen account alone and the case tells whether it
   is (userService.ts:2019-2141), a rejected applicant and a banned article
   stay out of a campaign (campaignService.ts:422-560), what was reported
   often is folded and what was removed stays so (systemService.ts:648-705),
   one topic is shown (recommendationService.ts:759-895) - with the exceptions
   the modules name. *)
DecisionsStand ==
  [][ /\ focus = "case" => Case!HiddenIsFrozen' /\ Case!CaseTellsFreeze'
      /\ focus = "campaign" =>
           Camp!RejectionStands /\ Camp!BannedStaysOut' /\ Camp!EntryFollowsAuthor'
      /\ focus = "reports" =>
           Report!ReportsFold' /\ Report!FoldsAreOnRecord' /\ Report!HiddenStaysHidden'
      /\ focus = "topics" =>
           Topics!OneTopicShown' /\ Topics!ArchivedStaysArchived ]_vars

(* What several requests do to the same rows comes out as if done one at a
   time: a code works once (userService.ts:1361-1480), one request alone
   recomputes a ranking and a rate goes back only by a writer another one
   outran (cache/index.ts:74-187, exchangeRate/index.ts:104-112), a merge of
   tags takes none from an article or a follower (tagService.ts:686-720), a
   member applies once (campaignService.ts:198-214) and appreciates within the
   limit (articleService.ts:704-783) - with the exceptions the modules name.
   *)
SharedRowsHold ==
  [][ /\ focus = "code" => Code!CodeWorksOnce' /\ Code!OlderCodesAreRetired'
      /\ focus = "warm" => Warm!SingleFlight'
      /\ focus = "rate" => Rate!RateGoesBackOnlyOutrun
      /\ focus = "tags" =>
           Tags!NobodyLosesTags' /\ Tags!MergeIsComplete /\ Tags!EditHolds
      /\ focus = "campaign" => Camp!OneRowEach'
      /\ focus = "appreciation" => Appreciate!GivenWithinLimit' ]_vars

(* A member who never comes back is mailed and given up, a ranking somebody
   asked for is there in the end, an application is decided, each under the
   fairness of its module. *)
ServicesGetDone ==
  /\ focus = "retention" => (Ret!Fairness => Ret!SilentIsGivenUp)
  /\ focus = "warm" => (Warm!Fairness => Warm!RankingIsWarmed)
  /\ focus = "campaign" => (Camp!Fairness => Camp!ApplicationDecided)

==============================================================================
