------------------------------ MODULE IcymiTopic ------------------------------
(* Topics of the editors' choice: written, published one at a time, archived
   (putIcymiTopic.ts; publishIcymiTopic, updateIcymiTopic, archiveIcymiTopic of
   connectors/recommendationService.ts).  An archived topic leaves its articles
   among the choices.  Every request reads states first and writes later. *)
EXTENDS Naturals, FiniteSets

CONSTANTS
  Topic, Article,
  Editor,     \* requests of editors at once
  PinAmount,  \* articles a topic needs
  MaxAsked    \* requests there are

VARIABLES
  topics,  \* per topic: its state and its articles
  choice,  \* articles in table matters_choice
  editor,  \* per request: its next statement, topic, the topics to archive first
  asked, overlap, cut

topicVars == <<topics, choice, editor, asked, overlap, cut>>

NoTopic == [state |-> "none", articles |-> {}]
Idle == [step |-> "idle", topic |-> CHOOSE t \in Topic : TRUE, first |-> {}]

Init ==
  /\ topics = [t \in Topic |-> NoTopic] /\ choice = {}
  /\ editor = [e \in Editor |-> Idle]
  /\ asked = 0 /\ overlap = FALSE /\ cut = FALSE

Begin(e, step, t, first) ==
  /\ editor[e] = Idle /\ asked < MaxAsked
  /\ asked' = asked + 1
  /\ editor' = [editor EXCEPT ![e] = [step |-> step, topic |-> t, first |-> first]]
  /\ overlap' = (overlap \/ \E o \in Editor \ {e} : editor[o] # Idle)

CreateTopic(t, as) ==
  /\ topics[t] = NoTopic
  /\ topics' = [topics EXCEPT ![t] = [state |-> "editing", articles |-> as]]
  /\ UNCHANGED <<choice, editor, asked, overlap, cut>>

\* The state is looked at, then the articles are written.
UpdateTopic(e, t) ==
  /\ topics[t].state \in {"editing", "published"}
  /\ Begin(e, "update", t, {})
  /\ UNCHANGED <<topics, choice, cut>>

WriteTopic(e, as) ==
  LET t == editor[e].topic IN
  /\ editor[e].step = "update"
  /\ topics' = [topics EXCEPT ![t].articles = IF topics[t] = NoTopic THEN @ ELSE as]
  /\ editor' = [editor EXCEPT ![e] = Idle]
  /\ UNCHANGED <<choice, asked, overlap, cut>>

Publishable_Published(t) == topics[t].state \notin {"none", "published"}

Publishable(t) == topics[t].state = "editing"

PublishTopic(e, t) ==
  /\ Publishable(t) /\ Cardinality(topics[t].articles) >= PinAmount
  /\ Begin(e, "list", t, {})
  /\ UNCHANGED <<topics, choice, cut>>

\* The published topics are archived all at once ...
ListPublished(e) ==
  LET others == {t \in Topic : topics[t].state = "published"} IN
  /\ editor[e].step = "list"
  /\ editor' = [editor EXCEPT ![e].step = IF others = {} THEN "publish" ELSE "archiveFirst",
                              ![e].first = others]
  /\ UNCHANGED <<topics, choice, asked, overlap, cut>>

\* ... and if one of them is archived by now, publishing fails.
ArchiveFirst(e, t) ==
  /\ editor[e].step = "archiveFirst" /\ t \in editor[e].first
  /\ IF topics[t].state = "published"
     THEN editor' = [editor EXCEPT ![e].step = "choose"]
     ELSE editor' = [editor EXCEPT ![e] = Idle]
  /\ UNCHANGED <<topics, choice, asked, overlap, cut>>

Chosen_Needed(t) == IF Cardinality(topics[t].articles) > PinAmount THEN {} ELSE topics[t].articles

\* archiveIcymiTopic: every article of the topic becomes a choice ...
Chosen(t) == topics[t].articles

Archiving(e) == IF editor[e].step \in {"choose", "archive"} /\ editor[e].first # {}
                THEN CHOOSE t \in editor[e].first : TRUE ELSE editor[e].topic

Choose1(e) ==
  /\ editor[e].step = "choose"
  /\ choice' = choice \cup Chosen(Archiving(e))
  /\ editor' = [editor EXCEPT ![e].step = "archive"]
  /\ UNCHANGED <<topics, asked, overlap, cut>>

\* ... and then its state is written, whatever it is.
Archive(e) ==
  LET t == Archiving(e)
      left == editor[e].first \ {t}
  IN
  /\ editor[e].step = "archive"
  /\ topics' = [topics EXCEPT ![t].state = "archived"]
  /\ editor' = [editor EXCEPT ![e] =
       IF editor[e].first = {} THEN Idle
       ELSE [@ EXCEPT !.first = left, !.step = IF left = {} THEN "publish" ELSE "archiveFirst"]]
  /\ UNCHANGED <<choice, asked, overlap, cut>>

Publish(e) ==
  LET t == editor[e].topic IN
  /\ editor[e].step = "publish"
  /\ topics' = [topics EXCEPT ![t].state = IF @ = "none" THEN @ ELSE "published"]
  /\ editor' = [editor EXCEPT ![e] = Idle]
  /\ UNCHANGED <<choice, asked, overlap, cut>>

\* One that is edited is deleted, a published one archived.
ArchiveTopic(e, t) ==
  /\ \/ /\ topics[t].state = "published"
        /\ Begin(e, "choose", t, {})
        /\ UNCHANGED topics
     \/ /\ topics[t].state = "editing"
        /\ Begin(e, "idle", Idle.topic, {})
        /\ topics' = [topics EXCEPT ![t] = NoTopic]
  /\ UNCHANGED <<choice, cut>>

Stop(e) ==
  /\ editor[e] # Idle /\ ~cut
  /\ cut' = TRUE
  /\ editor' = [editor EXCEPT ![e] = Idle]
  /\ UNCHANGED <<topics, choice, asked, overlap>>

Next ==
  \/ \E t \in Topic, as \in SUBSET Article \ {{}} : CreateTopic(t, as)
  \/ \E e \in Editor :
       \/ \E t \in Topic : \/ UpdateTopic(e, t) \/ PublishTopic(e, t)
                           \/ ArchiveFirst(e, t) \/ ArchiveTopic(e, t)
       \/ \E as \in SUBSET Article \ {{}} : WriteTopic(e, as)
       \/ ListPublished(e) \/ Choose1(e) \/ Archive(e) \/ Publish(e) \/ Stop(e)

Spec == Init /\ [][Next]_topicVars

-----------------------------------------------------------------------------
(* States and steps are those of the code. *)
TypeOK ==
  /\ \A t \in Topic : /\ topics[t].state \in {"none", "editing", "published", "archived"}
                      /\ topics[t].articles \subseteq Article
  /\ choice \subseteq Article /\ asked \in 0..MaxAsked
  /\ \A e \in Editor : editor[e].step \in {"idle", "update", "list", "archiveFirst",
                                           "choose", "archive", "publish"}

(* One topic is published at a time, and one that was archived has left its articles
   among the choices, even if its request stopped half-way
   (recommendationService.ts:837-895), unless requests overlapped: nothing keeps two
   of them from publishing, nor one from adding articles while another one
   archives. *)
OneTopicShown ==
  ~overlap =>
    /\ Cardinality({t \in Topic : topics[t].state = "published"}) <= 1
    /\ \A t \in Topic : topics[t].state = "archived" => topics[t].articles \subseteq choice

(* An archived topic is not shown again (recommendationService.ts:845, 867-894), unless
   requests overlapped. *)
ArchivedStaysArchived ==
  [ ~overlap => \A t \in Topic : topics[t].state = "archived" => topics'[t].state = "archived"
  ]_topicVars
=============================================================================
