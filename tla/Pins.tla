-------------------------------- MODULE Pins --------------------------------
(* Pinned articles of one channel (connectors/channel/channelService.ts), which
   is a curation channel (a tag works the same) or a topic channel.

   A curation channel keeps one row per article with a pin and the time of the
   pin; only which pin is older than which matters, and pins set together are of
   one time.  A topic channel keeps the list of its pinned articles in one column.  No statements of a request
   share a transaction, so every read and every write is a step of its own. *)
EXTENDS Naturals, FiniteSets, Sequences, Functions

CONSTANTS
  Article,    \* articles that may be in the channels
  Editor,     \* requests of togglePinChannelArticles under way at once
  PinAmount,  \* curation_channel.pin_amount, or TAG_CHANNEL_PIN_LIMIT
  TopicLimit  \* TOPIC_CHANNEL_PIN_LIMIT

VARIABLES
  kind,       \* "curation" or "topic"
  listed,     \* articles with a row in the curation channel
  pinned,     \* articles whose row has pinned = true
  older,      \* pairs of pinned articles: the first has the earlier pinned_at
  topic,      \* pinned_articles of the topic channel
  asked,      \* per editor: the request under way
  strained    \* why the limit may be exceeded (history variable)

pinVars == <<kind, listed, pinned, older, topic, asked, strained>>

NoRequest == [step |-> "idle", ids |-> {}, pin |-> FALSE, count |-> 0,
              oldest |-> {}, seen |-> <<>>]

Init ==
  /\ kind \in {"curation", "topic"}
  /\ listed = IF kind = "curation" THEN Article ELSE {}
  /\ pinned = {}
  /\ older = {}
  /\ topic = <<>>
  /\ asked = [e \in Editor |-> NoRequest]
  /\ strained = {}

-----------------------------------------------------------------------------
(* The curation channel and, with its own limit, the tag. *)

\* The pairs of older whose articles are both in S.
OlderIn(S) == older \cap (S \X S)

\* A change begins while one of the requests in others is under way.
Overlap(others) ==
  strained' = IF \E o \in others : asked[o].step # "idle"
                THEN strained \cup {"overlap"} ELSE strained

\* The request passed its checks: to pin, at most PinAmount articles at once.
Ask(e, ids, pin) ==
  /\ kind = "curation"
  /\ asked[e].step = "idle"
  /\ ids # {}
  /\ pin => Cardinality(ids) <= PinAmount
  /\ asked' = [asked EXCEPT ![e] =
       [NoRequest EXCEPT !.step = IF pin THEN "count" ELSE "write",
                         !.ids = ids, !.pin = pin]]
  /\ Overlap(Editor \ {e})
  /\ UNCHANGED <<kind, listed, pinned, older, topic>>

\* currentPinnedCount
CountPinned(e) ==
  /\ asked[e].step = "count"
  /\ asked' = [asked EXCEPT ![e].count = Cardinality(pinned),
                            ![e].step = "fresh"]
  /\ UNCHANGED <<kind, listed, pinned, older, topic, strained>>

Excess_ForgetsPinned(count, fresh) == IF count = PinAmount THEN fresh ELSE 0

\* How many of the oldest pins must go; there may be none.
Excess(count, fresh) ==
  IF count + fresh > PinAmount THEN fresh + count - PinAmount ELSE 0

\* unpinnedArticleCount: the articles asked for that have a row without a pin.
CountFresh(e) ==
  LET excess == Excess(asked[e].count,
                       Cardinality((asked[e].ids \cap listed) \ pinned))
  IN
  /\ asked[e].step = "fresh"
  /\ asked' = [asked EXCEPT ![e].count = excess,
                            ![e].step = IF excess > 0 THEN "oldest" ELSE "write"]
  /\ UNCHANGED <<kind, listed, pinned, older, topic, strained>>

IsOldest_Newest(T, n) ==
  /\ Cardinality(T) = IF n < Cardinality(pinned) THEN n ELSE Cardinality(pinned)
  /\ \A a, b \in pinned : <<a, b>> \in older /\ a \in T => b \in T

\* The n pins with the oldest pinned_at; of pins set together any may come first.
IsOldest(T, n) ==
  /\ Cardinality(T) = IF n < Cardinality(pinned) THEN n ELSE Cardinality(pinned)
  /\ \A a, b \in pinned : <<a, b>> \in older /\ b \in T => a \in T

FindOldest(e) ==
  /\ asked[e].step = "oldest"
  /\ \E T \in SUBSET pinned :
       /\ IsOldest(T, asked[e].count)
       /\ asked' = [asked EXCEPT ![e].oldest = T, ![e].count = 0, ![e].step = "unpin"]
       /\ strained' = IF T \cap asked[e].ids # {} THEN strained \cup {"repin"}
                                                  ELSE strained
  /\ UNCHANGED <<kind, listed, pinned, older, topic>>

UnpinOldest(e) ==
  /\ asked[e].step = "unpin"
  /\ pinned' = pinned \ asked[e].oldest
  /\ older' = OlderIn(pinned')
  /\ asked' = [asked EXCEPT ![e].oldest = {}, ![e].step = "write"]
  /\ UNCHANGED <<kind, listed, topic, strained>>

\* The rows asked for are pinned now, later than the rest, or unpinned.
SetPins(e) ==
  LET rows == IF asked[e].pin THEN asked[e].ids \cap listed ELSE {}
      rest == pinned \ asked[e].ids
  IN
  /\ asked[e].step = "write"
  /\ pinned' = rest \cup rows
  /\ older' = OlderIn(rest) \cup (rest \X rows)
  /\ asked' = [asked EXCEPT ![e] = NoRequest]
  /\ UNCHANGED <<kind, listed, topic, strained>>

\* addArticlesToCurationChannel: one insert; a row there already stays as it is.
AddArticles(a) ==
  /\ kind = "curation"
  /\ a \notin listed
  /\ listed' = listed \cup {a}
  /\ Overlap(Editor)
  /\ UNCHANGED <<kind, pinned, older, topic, asked>>

\* deleteCurationChannelArticles: the row goes, and its pin with it.
DeleteArticles(a) ==
  /\ a \in listed
  /\ listed' = listed \ {a}
  /\ pinned' = pinned \ {a}
  /\ older' = OlderIn(pinned')
  /\ UNCHANGED <<kind, topic, asked, strained>>

-----------------------------------------------------------------------------
(* The topic channel: the whole list is read, changed and written back. *)

\* Articles in any order, each once.
Lists(articles) == Injection(1..Cardinality(articles), articles)

\* The lists of what is left of a list without ids, in the order it has.
Rest(list, ids) ==
  {s \in Lists(Range(list) \ ids) :
     \A i, j \in DOMAIN s : i < j =>
       \E k, l \in DOMAIN list : k < l /\ list[k] = s[i] /\ list[l] = s[j]}

Cut(list) == SubSeq(list, 1, IF Len(list) < TopicLimit THEN Len(list) ELSE TopicLimit)

NewPinned_KeepsOld(list, ids, pin) ==
  IF pin THEN {Cut(new \o list) : new \in Lists(ids)} ELSE Rest(list, ids)

\* The list after pinning, the new ones first in the order they were given, or
\* after unpinning.
NewPinned(list, ids, pin) ==
  IF pin THEN {Cut(new \o rest) : new \in Lists(ids), rest \in Rest(list, ids)}
         ELSE Rest(list, ids)

ReadTopic(e, ids, pin) ==
  /\ kind = "topic"
  /\ asked[e].step = "idle"
  /\ ids # {}
  /\ asked' = [asked EXCEPT ![e] =
       [NoRequest EXCEPT !.step = "topic", !.ids = ids, !.pin = pin, !.seen = topic]]
  /\ UNCHANGED <<kind, listed, pinned, older, topic, strained>>

\* The ids are deduplicated by a Set; the list that was read is replaced.
WriteTopic(e) ==
  /\ asked[e].step = "topic"
  /\ topic' \in NewPinned(asked[e].seen, asked[e].ids, asked[e].pin)
  /\ asked' = [asked EXCEPT ![e] = NoRequest]
  /\ UNCHANGED <<kind, listed, pinned, older, strained>>

-----------------------------------------------------------------------------
Next ==
  \/ \E e \in Editor :
       \/ \E ids \in SUBSET Article, pin \in BOOLEAN :
            Ask(e, ids, pin) \/ ReadTopic(e, ids, pin)
       \/ CountPinned(e) \/ CountFresh(e) \/ FindOldest(e)
       \/ UnpinOldest(e) \/ SetPins(e) \/ WriteTopic(e)
  \/ \E a \in Article : AddArticles(a) \/ DeleteArticles(a)

Spec == Init /\ [][Next]_pinVars

-----------------------------------------------------------------------------
(* A list holds each article once, only rows carry pins, and time orders them. *)
TypeOK ==
  /\ listed \subseteq Article /\ pinned \subseteq listed
  /\ older \subseteq pinned \X pinned
  /\ \A a, b \in pinned : <<a, b>> \in older => <<b, a>> \notin older
  /\ \A a, b, c \in pinned : <<a, b>> \in older => <<a, c>> \in older \/ <<c, b>> \in older
  /\ IsInjective(topic) /\ Range(topic) \subseteq Article
  /\ strained \subseteq {"overlap", "repin"}

(* togglePinCurationChannelArticles never leaves more pins than the channel
   allows, unless two requests overlapped or a request named one of the oldest
   pins: it unpins that one to make room and pins it again in its last
   statement (channelService.ts:872-909).  The list of a topic channel is cut at
   its limit whatever overlaps (channelService.ts:956-972). *)
PinsBounded ==
  /\ strained \cap {"overlap", "repin"} = {} => Cardinality(pinned) <= PinAmount
  /\ Len(topic) <= TopicLimit

(* Room is made at the expense of the oldest pins only: a pin set before is
   never taken away by a request that left an older one, unless the older one
   is what the request asks for or requests overlapped. *)
OldestGoFirst ==
  [ (\E e \in Editor : asked[e].step = "unpin" /\ UnpinOldest(e))
        /\ "overlap" \notin strained
      => \A a, b \in pinned :
           <<a, b>> \in older /\ b \notin pinned' => a \notin pinned' ]_pinVars
=============================================================================
