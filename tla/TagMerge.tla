------------------------------- MODULE TagMerge -------------------------------
(* Tags of articles, their followers, and staff who merge tags into one
   (upsert, createArticleTags, updateArticleTags, mergeTags of
   connectors/tagService.ts).  A merge is six statements, an edit of an article's
   tags three, none of them in a transaction.  A tag is named by its content: a
   tag made anew after its row was deleted is not told from the old one. *)
EXTENDS Naturals, FiniteSets

CONSTANTS
  Tag, New,   \* contents; the one that others are merged into
  Article,
  Member,     \* who may follow tags
  MaxAsked    \* merges and edits there may be

VARIABLES
  tags,      \* rows of table tag
  onMoments, \* tags that moments use: moment_tag refers to them
  articleTag,\* rows of article_tag, by article: nothing makes them unique
  follows,   \* rows of action_tag: unique
  merge,     \* the merge under way: next statement, tags merged, articles read
  edit,      \* per article: next statement, the tags it had and shall have
  asked,
  first,     \* articles and members that had a tag to begin with
  wanted,    \* per article: the tags its author asked for last
  excuses    \* not in the code: why a merge does not end as it should

tagVars == <<tags, onMoments, articleTag, follows, merge, edit, asked, first,
             wanted, excuses>>

NoMerge == [step |-> "none", from |-> {}, articles |-> {}]
NoEdit == [step |-> "none", old |-> {}, new |-> {}]
TagsOf(a) == {t \in Tag : articleTag[a][t] > 0}
Rows(n) == IF n < 2 THEN n + 1 ELSE n   \* two stand for more

Init ==
  /\ tags \in {Tag, Tag \ {New}}
  /\ onMoments \in {{}, {CHOOSE t \in Tag : t # New}}
  /\ \E had \in [Article -> {{t} : t \in tags}] :
       /\ articleTag = [a \in Article |-> [t \in Tag |-> IF t \in had[a] THEN 1 ELSE 0]]
       /\ wanted = had
  /\ follows \in {f \in SUBSET (Member \X tags) : Cardinality(f) <= 2}
  /\ merge = NoMerge /\ edit = [a \in Article |-> NoEdit]
  /\ asked = 0 /\ excuses = {}
  /\ first = Article \cup {f[1] : f \in follows}

Overlap ==
  IF merge # NoMerge \/ \E a \in Article : edit[a] # NoEdit THEN {"overlap"} ELSE {}

-----------------------------------------------------------------------------
(* mergeTags. *)

FollowersOf(ts) == {f[1] : f \in {g \in follows : g[2] \in ts}}

MergeTags(ts) ==
  /\ merge = NoMerge /\ asked < MaxAsked
  /\ ts # {} /\ ts \subseteq tags
  /\ asked' = asked + 1
  /\ tags' = tags \cup {New}
  /\ merge' = [step |-> "find", from |-> ts, articles |-> {}]
  /\ excuses' = excuses \cup Overlap
       \cup IF New \in ts THEN {"itself"} ELSE {}
       \cup IF onMoments \cap ts # {} THEN {"moments"} ELSE {}
       \cup IF FollowersOf(ts) \cap FollowersOf({New}) # {} THEN {"followed"} ELSE {}
  /\ UNCHANGED <<onMoments, articleTag, follows, edit, first, wanted>>

Next1(step) == merge' = [merge EXCEPT !.step = step]

Found_WithAll(ts) == {a \in Article : ts \subseteq TagsOf(a)}

\* findArticleIdsByTagIds.
Found(ts) == {a \in Article : TagsOf(a) \cap ts # {}}

FindArticles ==
  /\ merge.step = "find"
  /\ merge' = [merge EXCEPT !.step = "tag", !.articles = Found(merge.from)]
  /\ UNCHANGED <<tags, onMoments, articleTag, follows, edit, asked, first, wanted, excuses>>

TagWithNew ==
  /\ merge.step = "tag"
  /\ articleTag' = [a \in Article |-> IF a \in merge.articles
                                      THEN [articleTag[a] EXCEPT ![New] = Rows(@)]
                                      ELSE articleTag[a]]
  /\ Next1("untag")
  /\ UNCHANGED <<tags, onMoments, follows, edit, asked, first, wanted, excuses>>

\* By tag: also the rows made since the articles were read.
UntagOld ==
  /\ merge.step = "untag"
  /\ articleTag' = [a \in Article |-> [t \in Tag |->
                      IF t \in merge.from THEN 0 ELSE articleTag[a][t]]]
  /\ Next1("follow")
  /\ UNCHANGED <<tags, onMoments, follows, edit, asked, first, wanted, excuses>>

Following(ts) == FollowersOf(ts)

\* INSERT ... SELECT: refused as a whole if one of them follows New already.
FollowNew ==
  LET who == Following(merge.from) IN
  /\ merge.step = "follow"
  /\ IF who \cap FollowersOf({New}) # {}
     THEN merge' = NoMerge /\ UNCHANGED follows
     ELSE Next1("unfollow") /\ follows' = follows \cup (who \X {New})
  /\ UNCHANGED <<tags, onMoments, articleTag, edit, asked, first, wanted, excuses>>

UnfollowOld_New ==
  /\ merge.step = "unfollow"
  /\ follows' = {f \in follows : f[2] # New}
  /\ Next1("delete")
  /\ UNCHANGED <<tags, onMoments, articleTag, edit, asked, first, wanted, excuses>>

UnfollowOld ==
  /\ merge.step = "unfollow"
  /\ follows' = {f \in follows : f[2] \notin merge.from}
  /\ Next1("delete")
  /\ UNCHANGED <<tags, onMoments, articleTag, edit, asked, first, wanted, excuses>>

Referred == onMoments \cup UNION {TagsOf(a) : a \in Article} \cup {f[2] : f \in follows}

\* baseBatchDelete: refused while a row of another table refers to one of them.
DeleteTags ==
  /\ merge.step = "delete"
  /\ merge' = NoMerge
  /\ tags' = IF merge.from \cap Referred = {} THEN tags \ merge.from ELSE tags
  /\ UNCHANGED <<onMoments, articleTag, follows, edit, asked, first, wanted, excuses>>

-----------------------------------------------------------------------------
(* updateArticleTags, and members who follow a tag. *)

EditTags(a, new) ==
  /\ edit[a] = NoEdit /\ asked < MaxAsked
  /\ asked' = asked + 1
  /\ edit' = [edit EXCEPT ![a] = [step |-> "upsert", old |-> TagsOf(a), new |-> new]]
  /\ wanted' = [wanted EXCEPT ![a] = new]
  /\ first' = first \ {a}
  /\ excuses' = excuses \cup Overlap
  /\ UNCHANGED <<tags, onMoments, articleTag, follows, merge>>

UpsertTags(a) ==
  /\ edit[a].step = "upsert"
  /\ tags' = tags \cup edit[a].new
  /\ edit' = [edit EXCEPT ![a].step = "add"]
  /\ UNCHANGED <<onMoments, articleTag, follows, merge, asked, first, wanted, excuses>>

\* Refused if a tag is gone by now.
AddTags(a) ==
  LET add == edit[a].new \ edit[a].old IN
  /\ edit[a].step = "add"
  /\ IF add \subseteq tags
     THEN /\ articleTag' = [articleTag EXCEPT ![a] =
                 [t \in Tag |-> IF t \in add THEN Rows(@[t]) ELSE @[t]]]
          /\ edit' = [edit EXCEPT ![a].step = "remove"]
     ELSE edit' = [edit EXCEPT ![a] = NoEdit] /\ UNCHANGED articleTag
  /\ UNCHANGED <<tags, onMoments, follows, merge, asked, first, wanted, excuses>>

Unwanted_New(old, new) == new \ old

Unwanted(old, new) == old \ new

RemoveTags(a) ==
  /\ edit[a].step = "remove"
  /\ articleTag' = [articleTag EXCEPT ![a] = [t \in Tag |->
                      IF t \in Unwanted(edit[a].old, edit[a].new) THEN 0 ELSE @[t]]]
  /\ edit' = [edit EXCEPT ![a] = NoEdit]
  /\ UNCHANGED <<tags, onMoments, follows, merge, asked, first, wanted, excuses>>

Follow(m, t) ==
  /\ t \in tags /\ <<m, t>> \notin follows
  /\ follows' = follows \cup {<<m, t>>}
  /\ excuses' = excuses \cup Overlap
  /\ UNCHANGED <<tags, onMoments, articleTag, merge, edit, asked, first, wanted>>

\* A statement throws or the server stops.
Cut ==
  /\ "cut" \notin excuses
  /\ excuses' = excuses \cup {"cut"}
  /\ \/ merge # NoMerge /\ merge' = NoMerge /\ UNCHANGED edit
     \/ \E a \in Article : /\ edit[a] # NoEdit
                           /\ edit' = [edit EXCEPT ![a] = NoEdit]
                           /\ UNCHANGED merge
  /\ UNCHANGED <<tags, onMoments, articleTag, follows, asked, first, wanted>>

MergeStep == \/ FindArticles \/ TagWithNew \/ UntagOld \/ FollowNew \/ UnfollowOld
             \/ DeleteTags

Next ==
  \/ \E ts \in SUBSET Tag : MergeTags(ts)
  \/ MergeStep \/ Cut
  \/ \E a \in Article : \/ \E t \in Tag : EditTags(a, {t})
                        \/ UpsertTags(a) \/ AddTags(a) \/ RemoveTags(a)
  \/ \E m \in Member, t \in Tag : Follow(m, t)

Spec == Init /\ [][Next]_tagVars

-----------------------------------------------------------------------------
(* Rows and steps are those of the code. *)
TypeOK ==
  /\ tags \subseteq Tag /\ follows \subseteq Member \X Tag
  /\ articleTag \in [Article -> [Tag -> 0..2]]
  /\ merge.step \in {"none", "find", "tag", "untag", "follow", "unfollow", "delete"}
  /\ \A a \in Article : edit[a].step \in {"none", "upsert", "add", "remove"}

(* Whoever had a tag and did nothing has one at any time: the new rows are made
   before the old ones are deleted, whatever fails in between
   (tagService.ts:686-713), unless tags are merged into one of themselves - then
   the new rows are deleted with the old. *)
NobodyLosesTags ==
  "itself" \notin excuses =>
    /\ \A a \in Article \cap first : TagsOf(a) # {}
    /\ \A m \in Member \cap first : \E t \in Tag : <<m, t>> \in follows

(* A merge leaves nothing of the tags merged (tagService.ts:690-718), unless it was
   cut off or overlapped with an edit or a follower; or, what always fails, a
   moment uses one of them, a follower of one follows the new tag already, or the
   new tag is one of them. *)
MergeIsComplete ==
  [ merge # NoMerge /\ merge' = NoMerge /\ excuses' = {} =>
      merge.from \cap (tags' \cup UNION {{t \in Tag : articleTag'[a][t] > 0} : a \in Article}
                        \cup {f[2] : f \in follows'}) = {}
  ]_tagVars

(* When an edit is over its article has the tags that were asked for
   (tagService.ts:754-802), unless something overlapped, was cut off, or a merge
   came afterwards. *)
EditHolds ==
  [ \A a \in Article :
      edit[a] # NoEdit /\ edit'[a] = NoEdit /\ excuses' \cap {"overlap", "cut"} = {} =>
        {t \in Tag : articleTag'[a][t] > 0} = wanted[a]
  ]_tagVars
=============================================================================
