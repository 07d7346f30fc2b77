------------------------------ MODULE Revision ------------------------------
(* Revisions of one published article (mutations/article/editArticle.ts,
   createNewArticleVersion of connectors/article/publicationService.ts and
   connectors/queue/revision.ts).

   A request loads the article and its latest version, checks the limit of
   revisions, writes a new version made of the loaded one and of what it
   changes, then the number of revisions, then queues a job that notifies the
   people newly mentioned.  The statements share no transaction.  A version is
   abstracted to its title, which stands for the fields that count as a
   revision and mention nobody, and the people its content mentions. *)
EXTENDS Naturals, FiniteSets, SequencesExt

CONSTANTS
  Editing,      \* requests of the author under way at once
  Person,       \* people a content may mention
  Title,        \* titles
  MaxRevisions, \* MAX_ARTICLE_REVISION_COUNT
  MaxEdits      \* how many edits are tried

VARIABLES
  article,    \* state and revision_count
  versions,   \* article_version rows, oldest first
  editing,    \* per request: what it loaded and what it changes
  published,  \* jobs publishRevisedArticle: old and new version
  noticed,    \* notices article_mentioned_you sent, per person
  edits,
  muddled     \* two edits overlapped, or one was cut off

revVars == <<article, versions, editing, published, noticed, edits, muddled>>

\* What a request changes is a set of at most one value; empty: left alone.
Nothing == [step |-> "idle", base |-> 0, count |-> 0, title |-> {}, people |-> {}]

Given(change, v) == IF change = {} THEN v ELSE CHOOSE x \in change : TRUE

Init ==
  /\ article = [active |-> TRUE, count |-> 0]
  /\ \E t \in Title : versions = <<[title |-> t, people |-> {}]>>
  /\ editing = [e \in Editing |-> Nothing]
  /\ published = {}
  /\ noticed = [p \in Person |-> 0]
  /\ edits = 0
  /\ muddled = FALSE

Latest == Len(versions)

Under_Revised(count) == count <= MaxRevisions

\* checkRevisionCount, for the revision to come
Under(count) == count + 1 <= MaxRevisions

\* validateArticle, validateRevision: what the request changes, against the
\* latest version, within the limit.
LoadArticle(e, t, ps) ==
  LET v == versions[Latest] IN
  /\ editing[e].step = "idle" /\ edits < MaxEdits
  /\ article.active
  /\ Given(t, v.title) # v.title \/ Given(ps, v.people) # v.people
  /\ Under(article.count)
  /\ editing' = [editing EXCEPT ![e] =
       [step |-> "write", base |-> Latest, count |-> article.count,
        title |-> t, people |-> ps]]
  /\ edits' = edits + 1
  /\ muddled' = (muddled \/ \E o \in Editing : editing[o].step # "idle")
  /\ UNCHANGED <<article, versions, published, noticed>>

NextVersion_Blank(r, v) ==
  [title |-> Given(r.title, v.title), people |-> Given(r.people, {})]

\* createNewArticleVersion: fields not given are those of the version loaded.
NextVersion(r, v) ==
  [title |-> Given(r.title, v.title), people |-> Given(r.people, v.people)]

WriteVersion(e) ==
  LET r == editing[e] IN
  /\ r.step = "write"
  /\ versions' = Append(versions, NextVersion(r, versions[r.base]))
  /\ editing' = [editing EXCEPT ![e].step = "count"]
  /\ UNCHANGED <<article, published, noticed, edits, muddled>>

\* The number read at the start plus one; the job is queued after it.
WriteCount(e) ==
  LET r == editing[e]
      new == CHOOSE i \in DOMAIN versions :
               /\ i > r.base
               /\ versions[i] = NextVersion(r, versions[r.base])
  IN
  /\ r.step = "count"
  /\ article' = [article EXCEPT !.count = r.count + 1]
  /\ published' = IF Given(r.people, versions[r.base].people) # versions[r.base].people
                    THEN published \cup {[old |-> r.base, new |-> new]}
                    ELSE published
  /\ editing' = [editing EXCEPT ![e] = Nothing]
  /\ UNCHANGED <<versions, noticed, edits, muddled>>

\* The server stops between two statements.
Cut(e) ==
  /\ editing[e].step # "idle"
  /\ editing' = [editing EXCEPT ![e] = Nothing]
  /\ muddled' = TRUE
  /\ UNCHANGED <<article, versions, published, noticed, edits>>

\* archive: nothing is revised or notified any more.
Archive ==
  /\ article.active
  /\ article' = [article EXCEPT !.active = FALSE]
  /\ UNCHANGED <<versions, editing, published, noticed, edits, muddled>>

NewlyMentioned_Changed(old, new) ==
  (new.people \ old.people) \cup (old.people \ new.people)

NewlyMentioned_Swapped(old, new) == old.people \ new.people

\* handleMentions: those the old content did not mention
NewlyMentioned(old, new) == new.people \ old.people

\* handlePublishRevisedArticle, for an active article
PublishRevisedArticle ==
  \E j \in published :
    /\ published' = published \ {j}
    /\ noticed' = [p \in Person |->
         IF article.active /\ p \in NewlyMentioned(versions[j.old], versions[j.new])
           THEN noticed[p] + 1 ELSE noticed[p]]
    /\ UNCHANGED <<article, versions, editing, edits, muddled>>

Changes(S) == {{}} \cup {{x} : x \in S}

Next ==
  \/ \E e \in Editing :
       \/ \E t \in Changes(Title), ps \in Changes(SUBSET Person) :
            LoadArticle(e, t, ps)
       \/ WriteVersion(e) \/ WriteCount(e) \/ Cut(e)
  \/ Archive \/ PublishRevisedArticle

Fairness == WF_revVars(PublishRevisedArticle)

Spec == Init /\ [][Next]_revVars /\ Fairness

-----------------------------------------------------------------------------
(* How often p became mentioned in the course of the versions. *)
Mentions(p) == Cardinality({i \in 2..Latest :
                 p \in versions[i].people /\ p \notin versions[i - 1].people})

(* The number of revisions stays within the limit (editArticle.ts:225-232,
   535-541), and it is that of the rows unless requests overlapped or one was
   cut off after its version was written. *)
RevisionsLimited ==
  /\ article.count <= MaxRevisions
  /\ ~muddled => /\ Latest <= MaxRevisions + 1
                 /\ (\A e \in Editing : editing[e].step # "count")
                      => article.count = Latest - 1

(* An edit that leaves the content alone never brings an older content back,
   and one that leaves the title alone no older title
   (publicationService.ts:439-560), unless edits overlapped. *)
NothingReverted ==
  [ Len(versions') > Latest /\ ~muddled =>
        \E e \in Editing :
          LET new == versions'[Latest + 1] IN
          /\ editing[e].title = {} => new.title = versions[Latest].title
          /\ editing[e].people = {} => new.people = versions[Latest].people
    ]_revVars

(* Nobody is told of a mention more often than a revision newly mentions them
   (revision.ts:165-196), unless edits overlapped: both then compare with the
   same old version. *)
MentionsToldOnce ==
  ~muddled => \A p \in Person : noticed[p] <= Mentions(p)

(* Each new mention of an active article is told in the end. *)
MentionsTold ==
  \A p \in Person :
    [](~muddled /\ Mentions(p) > 0 /\ (\A e \in Editing : editing[e].step = "idle")
         => <>(noticed[p] > 0 \/ ~article.active))
=============================================================================
