--------------------------- MODULE Content_proofs ---------------------------
(***************************************************************************)
(* Proofs about Content: what becomes of a draft, an article, its copies,  *)
(* a like and an application for the moment feed.  A step of Content is a  *)
(* step of the part in focus, so each part is proved of by itself: an      *)
(* invariant, that it holds initially and that every action keeps it.      *)
(* Together they make Inv, from which the properties of Content follow.    *)
(***************************************************************************)
EXTENDS Content, Sequences, FiniteSetTheorems, WellFoundedInduction, TLAPS

-----------------------------------------------------------------------------
(* Publication: one draft between requests of its author and the job.      *)

Steps == {"idle", "edit", "plan", "send", "check", "create", "mark", "reset"}

\* A draft, and what a session or the job is doing with it.
Draft ==
  [state: {"unpublished", "pending", "published"}, archived: BOOLEAN, at: Pub!When]

Work == [step: Steps, at: Pub!When \cup {"now"}, late: BOOLEAN]

PubTypes ==
  /\ draft \in Draft
  /\ worker \in [Pub!Worker -> Work]
  /\ fresh \subseteq Pub!Worker
  /\ articles \in 0..2 /\ faults \in Nat /\ raced \in BOOLEAN

\* Who has sent the draft off and has not marked it published yet.
Engaged(w) == worker[w].step \in {"check", "create", "mark"}

(* What a session or the job may rely on while it is at its work. *)
Diligence ==
  \A w \in Pub!Worker :
    /\ worker[w].step = "idle" => ~worker[w].late
    /\ worker[w].step \in {"edit", "plan", "send"} /\ ~worker[w].late
         => draft.state = "unpublished"
    /\ worker[w].step = "edit" /\ ~worker[w].late => w \in fresh
    /\ worker[w].step = "plan" => worker[w].at \in {"none", "future"}
    /\ worker[w].step = "mark" => articles > 0
    /\ worker[w].step = "reset" => faults > 0

\* A pending draft is somebody's work, unless something failed.
PendingHeld == draft.state = "pending" /\ faults = 0 => \E w \in Pub!Worker : Engaged(w)

PublishedHasArticle == draft.state = "published" => articles > 0

(* Who is engaged is alone, and the articles are those of the steps done. *)
OneAtWork ==
  ~raced /\ faults = 0 =>
    /\ \A v, w \in Pub!Worker : Engaged(v) /\ Engaged(w) => v = w
    /\ \A w \in Pub!Worker : Engaged(w) =>
         /\ draft.state = "pending"
         /\ worker[w].step = "mark" => articles = 1
         /\ worker[w].step # "mark" => articles = 0
    /\ draft.state = "unpublished" => articles = 0
    /\ draft.state = "published" => articles = 1

PubInv == PubTypes /\ Diligence /\ PendingHeld /\ PublishedHasArticle /\ OneAtWork


\* A new draft is unpublished, and nobody works on it.
LEMMA PubInit == Pub!Init => PubInv
<1> USE DEF Pub!Rest
<1> SUFFICES ASSUME Pub!Init PROVE PubInv
  OBVIOUS
<1>1. /\ draft = [state |-> "unpublished", archived |-> FALSE, at |-> "none"]
      /\ worker = [w \in Pub!Worker |-> Pub!Rest]
      /\ fresh = {} /\ articles = 0 /\ faults = 0 /\ raced = FALSE
  BY DEF Pub!Init
<1>2. Pub!Rest \in Work
  BY DEF Pub!Rest, Work, Steps, Pub!When
<1>3. worker \in [Pub!Worker -> Work]
  BY <1>1, <1>2
<1>4. PubTypes
  <2>1. draft \in Draft
    BY <1>1 DEF Draft, Pub!When
  <2>2. raced \in BOOLEAN
    BY <1>1
  <2> QED
    BY <1>1, <1>3, <2>1, <2>2 DEF PubTypes
<1>5. \A w \in Pub!Worker : worker[w].step = "idle" /\ ~worker[w].late
  BY <1>1
<1> QED
  BY <1>1, <1>4, <1>5
  DEF PubInv, Diligence, PendingHeld, PublishedHasArticle, OneAtWork, Engaged

\* A write to the draft makes whatever the others saw outdated.
LEMMA WriteIs ==
  ASSUME PubTypes, NEW w \in Pub!Worker, NEW d, NEW next \in Work,
         Pub!Write(w, d, next)
  PROVE  /\ draft' = d /\ fresh' = fresh \cap {w} /\ fresh' \subseteq Pub!Worker
         /\ worker' \in [Pub!Worker -> Work]
         /\ worker'[w] = next
         /\ \A x \in Pub!Worker : x # w =>
              /\ worker'[x].step = worker[x].step
              /\ worker'[x].at = worker[x].at
              /\ worker'[x].late <=>
                   worker[x].late \/ worker[x].step \in {"edit", "plan", "send"}
<1> DEFINE seen(x) ==
             [worker[x] EXCEPT !.late = @ \/ worker[x].step \in {"edit", "plan", "send"}]
<1>1. worker' = [x \in Pub!Worker |-> IF x = w THEN next ELSE seen(x)]
  BY DEF Pub!Write
<1>2. \A x \in Pub!Worker : worker[x] \in Work
  BY DEF PubTypes
<1>3. \A x \in Pub!Worker :
        /\ seen(x) \in Work
        /\ seen(x).step = worker[x].step /\ seen(x).at = worker[x].at
        /\ seen(x).late <=> worker[x].late \/ worker[x].step \in {"edit", "plan", "send"}
  BY <1>2 DEF Work
<1> HIDE DEF seen
<1> QED
  BY <1>1, <1>3 DEF Pub!Write, PubTypes

\* Every step of a session and the job keeps the invariant.
LEMMA PubNext == PubInv /\ Pub!Next => PubInv'
<1> USE DEF Pub!Rest
<1> SUFFICES ASSUME PubInv, Pub!Next PROVE PubInv'
  OBVIOUS
<1> USE DEF PubInv
<1>j. Pub!Job \in Pub!Worker /\ \A s \in Session : s \in Pub!Worker
  BY DEF Pub!Worker
<1>r. Pub!Rest \in Work /\ [Pub!Rest EXCEPT !.step = "check"] \in Work
       /\ [Pub!Rest EXCEPT !.step = "check"].step = "check"
  BY DEF Work, Steps, Pub!When
<1>1. CASE Pub!Elapse
  BY <1>j, <1>1
     DEF Pub!Many, Pub!When, Pub!Elapse, PubTypes, Draft, Diligence, PendingHeld,
         PublishedHasArticle, OneAtWork, Engaged
<1>2. CASE Pub!Replicate
  BY <1>j, <1>2
     DEF Pub!Many, Pub!When, Pub!Replicate, PubTypes, Diligence, PendingHeld,
         PublishedHasArticle, OneAtWork, Engaged
<1>3. CASE Pub!FindScheduled
  BY <1>j, <1>3
     DEF Pub!Many, Pub!When, Pub!FindScheduled, Pub!Scheduled, Pub!Unsent, PubTypes,
         Draft, Work, Steps, Diligence, PendingHeld, PublishedHasArticle, OneAtWork,
         Engaged
<1>4. CASE Pub!ResetDraft
  <2> DEFINE d == [draft EXCEPT !.state = "unpublished"]
  <2>1. Pub!Write(Pub!Job, d, Pub!Rest) /\ worker[Pub!Job].step = "reset"
        /\ UNCHANGED <<replica, articles, requests, faults, raced>>
    BY <1>4 DEF Pub!ResetDraft
  <2>2. d.state = "unpublished" /\ d \in Draft
    BY DEF PubTypes, Draft
  <2> HIDE DEF d
  <2>6. PubTypes'
    BY <2>1, <2>2, <1>r, <1>j, WriteIs DEF PubTypes, Pub!When
  <2>7. Diligence'
    BY <2>1, <2>2, <1>r, <1>j, WriteIs DEF PubTypes, Diligence
  <2>8. PendingHeld' /\ PublishedHasArticle'
    BY <2>1, <2>2, <1>r, <1>j, WriteIs
       DEF PubTypes, Diligence, PendingHeld, PublishedHasArticle, Engaged
  <2>9. OneAtWork'
    BY <2>1, <2>2, <1>r, <1>j, WriteIs
       DEF PubTypes, Diligence, OneAtWork, PendingHeld, Engaged
  <2> QED
    BY <2>6, <2>7, <2>8, <2>9 DEF PubInv
<1>5. ASSUME NEW s \in Session, Pub!LoadDraft(s) PROVE PubInv'
  BY <1>j, <1>5
     DEF Pub!Many, Pub!When, Pub!LoadDraft, PubTypes, Diligence, PendingHeld,
         PublishedHasArticle, OneAtWork, Engaged
<1>6. ASSUME NEW s \in Session, Pub!CheckEdit(s) PROVE PubInv'
  BY <1>j, <1>6
     DEF Pub!Many, Pub!When, Pub!CheckEdit, Pub!Begin, Pub!Goto, Pub!Editable,
         Pub!Unsent, PubTypes, Draft, Work, Steps, Diligence, PendingHeld,
         PublishedHasArticle, OneAtWork, Engaged
<1>7. ASSUME NEW s \in Session, Pub!PutDraft(s) PROVE PubInv'
  <2>1. Pub!Write(s, draft, Pub!Rest) /\ worker[s].step = "edit"
        /\ UNCHANGED <<replica, articles, requests, faults, raced>>
    BY <1>7 DEF Pub!PutDraft
  <2>6. PubTypes'
    BY <2>1, <1>r, <1>j, WriteIs DEF PubTypes, Pub!When
  <2>7. Diligence'
    BY <2>1, <1>r, <1>j, WriteIs DEF PubTypes, Diligence
  <2>8. PendingHeld' /\ PublishedHasArticle'
    BY <2>1, <1>r, <1>j, WriteIs
       DEF PubTypes, Diligence, PendingHeld, PublishedHasArticle, Engaged
  <2>9. OneAtWork'
    BY <2>1, <1>r, <1>j, WriteIs
       DEF PubTypes, Diligence, OneAtWork, PendingHeld, Engaged
  <2> QED
    BY <2>6, <2>7, <2>8, <2>9 DEF PubInv
<1>8. ASSUME NEW s \in Session, Pub!DeleteDraft(s) PROVE PubInv'
  <2> DEFINE d == [draft EXCEPT !.archived = TRUE]
  <2>1. Pub!Write(s, d, worker[s]) /\ worker[s].step = "idle"
        /\ UNCHANGED <<replica, articles, faults, raced>>
    BY <1>8 DEF Pub!DeleteDraft, Pub!Begin
  <2>2. d.state = draft.state /\ d \in Draft
    BY DEF PubTypes, Draft
  <2>3. worker[s] \in Work
    BY <1>j DEF PubTypes, Draft
  <2> HIDE DEF d
  <2>6. PubTypes'
    BY <2>1, <2>2, <2>3, <1>j, WriteIs DEF PubTypes, Pub!When
  <2>7. Diligence'
    BY <2>1, <2>2, <2>3, <1>j, WriteIs DEF PubTypes, Diligence
  <2>8. PendingHeld' /\ PublishedHasArticle'
    BY <2>1, <2>2, <2>3, <1>j, WriteIs
       DEF PubTypes, Diligence, PendingHeld, PublishedHasArticle, Engaged
  <2>9. OneAtWork'
    BY <2>1, <2>2, <2>3, <1>j, WriteIs
       DEF PubTypes, Diligence, OneAtWork, PendingHeld, Engaged
  <2> QED
    BY <2>6, <2>7, <2>8, <2>9 DEF PubInv
<1>9. ASSUME NEW s \in Session, NEW at \in {"now", "future", "none"},
             Pub!CheckPublish(s, at)
      PROVE  PubInv'
  <2>1. /\ worker[s].step = "idle"
        /\ draft.state = "unpublished"
        /\ UNCHANGED <<draft, replica, fresh, articles, faults, raced>>
    BY <1>9 DEF Pub!CheckPublish, Pub!Begin, Pub!Unsent
  <2> DEFINE step == IF at = "now" THEN "send" ELSE "plan"
  <2>2. /\ worker' \in [Pub!Worker -> Work] /\ worker'[s].step = step /\ worker'[s].at = at
        /\ worker'[s].late = worker[s].late
        /\ \A x \in Pub!Worker : x # s => worker'[x] = worker[x]
    BY <1>j, <1>9 DEF Pub!CheckPublish, Pub!When, PubTypes, Work, Steps
  <2>6. PubTypes'
    BY <2>1, <2>2 DEF PubTypes, Pub!When
  <2>7. Diligence'
    BY <2>1, <2>2 DEF PubTypes, Diligence
  <2>8. PendingHeld' /\ PublishedHasArticle'
    BY <2>1, <2>2 DEF PubTypes, Diligence, PendingHeld, PublishedHasArticle, Engaged
  <2>9. OneAtWork'
    BY <2>1, <2>2 DEF PubTypes, Diligence, OneAtWork, PendingHeld, Engaged
  <2> QED
    BY <2>6, <2>7, <2>8, <2>9 DEF PubInv
<1>10. ASSUME NEW s \in Session, Pub!Plan(s) PROVE PubInv'
  <2> DEFINE at == worker[s].at
             d == Pub!Planned(at)
  <2>1. Pub!Write(s, d, Pub!Rest) /\ worker[s].step = "plan"
        /\ raced' = (raced \/ (at = "none" /\ draft.state # "unpublished" /\ worker[s].late))
        /\ UNCHANGED <<replica, articles, requests, faults>>
    BY <1>10 DEF Pub!Plan, Pub!Unsent
  <2>2. d.state = (IF at = "none" THEN "unpublished" ELSE draft.state) /\ d \in Draft
    BY <1>j, <2>1 DEF PubTypes, Draft, Pub!When, Pub!Planned, Diligence
  <2> HIDE DEF d
  <2>3. ~raced' => ~raced /\ d.state = draft.state
    BY <1>j, <2>1, <2>2 DEF Diligence
  <2>6. PubTypes'
    BY <2>1, <2>2, <1>r, <1>j, WriteIs DEF PubTypes, Pub!When
  <2>7. Diligence'
    BY <2>1, <2>2, <1>r, <1>j, WriteIs DEF PubTypes, Diligence
  <2>8. PendingHeld' /\ PublishedHasArticle'
    BY <2>1, <2>2, <1>r, <1>j, WriteIs
       DEF PubTypes, Diligence, PendingHeld, PublishedHasArticle, Engaged
  <2>9. OneAtWork'
    BY <2>1, <2>3, <1>r, <1>j, WriteIs
       DEF PubTypes, Diligence, OneAtWork, PendingHeld, Engaged
  <2> QED
    BY <2>6, <2>7, <2>8, <2>9 DEF PubInv
<1>11. ASSUME NEW w \in Pub!Worker, Pub!Send(w) PROVE PubInv'
  <2> DEFINE d == [draft EXCEPT !.state = "pending"]
             next == [Pub!Rest EXCEPT !.step = "check"]
  <2>1. Pub!Write(w, d, next) /\ worker[w].step = "send"
        /\ raced' = (raced \/ (draft.state # "unpublished" /\ worker[w].late))
        /\ UNCHANGED <<replica, articles, requests, faults>>
    BY <1>11 DEF Pub!Send, Pub!Unsent
  <2>2. d.state = "pending" /\ d \in Draft
    BY DEF PubTypes, Draft
  <2>3. next \in Work /\ next.step = "check"
    BY <1>r
  <2> HIDE DEF d, next
  <2>4. ~raced' => ~raced /\ draft.state = "unpublished"
    BY <2>1 DEF Diligence
  <2>5. ~raced /\ faults = 0 /\ draft.state = "unpublished" =>
          articles = 0 /\ \A x \in Pub!Worker : ~Engaged(x)
    BY DEF OneAtWork
  <2>6. PubTypes'
    BY <2>1, <2>2, <2>3, <1>j, WriteIs DEF PubTypes, Pub!When
  <2>7. Diligence'
    BY <2>1, <2>2, <2>3, <1>j, WriteIs DEF PubTypes, Diligence
  <2>8. PendingHeld' /\ PublishedHasArticle'
    BY <2>1, <2>2, <2>3, <1>j, WriteIs
       DEF PubTypes, Diligence, PendingHeld, PublishedHasArticle, Engaged
  <2>9. OneAtWork'
    BY <2>1, <2>2, <2>3, <2>4, <2>5, WriteIs DEF OneAtWork, Engaged
  <2> QED
    BY <2>6, <2>7, <2>8, <2>9 DEF PubInv
<1>12. ASSUME NEW w \in Pub!Worker, Pub!CheckPending(w) PROVE PubInv'
  <2>1. /\ worker[w].step = "check"
        /\ UNCHANGED <<draft, replica, fresh, articles, requests, faults, raced>>
    BY <1>12 DEF Pub!CheckPending
  <2>2. /\ worker' \in [Pub!Worker -> Work]
        /\ worker'[w].step = (IF draft.state = "pending" THEN "create" ELSE "idle")
        /\ ~worker'[w].late
        /\ \A x \in Pub!Worker : x # w => worker'[x] = worker[x]
    BY <1>12 DEF Pub!CheckPending, PubTypes, Work, Steps, Pub!When
  <2>6. PubTypes'
    BY <2>1, <2>2 DEF PubTypes, Pub!When
  <2>7. Diligence'
    BY <2>1, <2>2 DEF PubTypes, Diligence
  <2>8. PendingHeld' /\ PublishedHasArticle'
    BY <2>1, <2>2 DEF PubTypes, Diligence, PendingHeld, PublishedHasArticle, Engaged
  <2>9. OneAtWork'
    BY <2>1, <2>2 DEF PubTypes, Diligence, OneAtWork, PendingHeld, Engaged
  <2> QED
    BY <2>6, <2>7, <2>8, <2>9 DEF PubInv
<1>13. ASSUME NEW w \in Pub!Worker, Pub!CreateArticle(w) PROVE PubInv'
  BY <1>j, <1>13
     DEF Pub!Many, Pub!When, Pub!CreateArticle, Pub!Goto, PubTypes, Draft, Work, Steps,
         Diligence, PendingHeld, PublishedHasArticle, OneAtWork, Engaged
<1>14. ASSUME NEW w \in Pub!Worker, Pub!MarkPublished(w) PROVE PubInv'
  <2> DEFINE d == [draft EXCEPT !.state = "published"]
  <2>1. Pub!Write(w, d, Pub!Rest) /\ worker[w].step = "mark"
        /\ UNCHANGED <<replica, articles, requests, faults, raced>>
    BY <1>14 DEF Pub!MarkPublished
  <2>2. d.state = "published" /\ d \in Draft
    BY DEF PubTypes, Draft
  <2> HIDE DEF d
  <2>6. PubTypes'
    BY <2>1, <2>2, <1>r, <1>j, WriteIs DEF PubTypes, Pub!When
  <2>7. Diligence'
    BY <2>1, <2>2, <1>r, <1>j, WriteIs DEF PubTypes, Diligence
  <2>8. PendingHeld' /\ PublishedHasArticle'
    BY <2>1, <2>2, <1>r, <1>j, WriteIs
       DEF PubTypes, Diligence, PendingHeld, PublishedHasArticle, Engaged
  <2>9. OneAtWork'
    BY <2>1, <2>2, <1>r, <1>j, WriteIs
       DEF PubTypes, Diligence, OneAtWork, PendingHeld, Engaged
  <2> QED
    BY <2>6, <2>7, <2>8, <2>9 DEF PubInv
<1>15. ASSUME NEW w \in Pub!Worker, Pub!Throw(w) PROVE PubInv'
  <2>1. /\ Engaged(w) /\ faults' = faults + 1
        /\ UNCHANGED <<draft, replica, fresh, articles, requests, raced>>
    BY <1>15 DEF Pub!Throw, Engaged
  <2>2. /\ worker' \in [Pub!Worker -> Work]
        /\ worker'[w].step \in {"idle", "reset"} /\ ~worker'[w].late
        /\ \A x \in Pub!Worker : x # w => worker'[x] = worker[x]
    <3>1. /\ Pub!Caught(w) \in Work
          /\ Pub!Caught(w).step \in {"idle", "reset"}
          /\ ~Pub!Caught(w).late
      BY DEF Pub!Caught, Work, Steps, Pub!When
    <3> QED
      BY <1>15, <3>1 DEF Pub!Throw, PubTypes
  <2>3. faults' > 0 /\ faults' \in Nat
    BY <2>1 DEF PubTypes
  <2> QED
    BY <2>1, <2>2, <2>3
       DEF PubTypes, Diligence, PendingHeld, PublishedHasArticle, OneAtWork
<1>16. ASSUME NEW w \in Pub!Worker, Pub!Stop(w) PROVE PubInv'
  BY <1>j, <1>16
     DEF Pub!Many, Pub!When, Pub!Stop, PubTypes, Draft, Work, Steps, Diligence,
         PendingHeld, PublishedHasArticle, OneAtWork, Engaged
<1> QED
  BY <1>1, <1>2, <1>3, <1>4, <1>5, <1>6, <1>7, <1>8, <1>9, <1>10, <1>11, <1>12,
     <1>13, <1>14, <1>15, <1>16
     DEF Pub!Next

-----------------------------------------------------------------------------
(* MomentFeed: applications between staff and the job.                     *)

\* The rows of the enumerations, and the requests of staff.
Rows ==
  {Feed!NoRow, [state |-> "pending", by |-> "nobody"],
   [state |-> "approved", by |-> "admin"], [state |-> "approved", by |-> "system"],
   [state |-> "rejected", by |-> "admin"], [state |-> "revoked", by |-> "admin"]}

Reviews ==
  {Feed!NoReview} \cup
  [of: Member, from: {"pending", "approved", "rejected", "revoked"},
   to: {"approved", "rejected", "revoked"}]

FeedTypes ==
  /\ feed \in [Member -> Rows] /\ feedReplica \in [Member -> Rows]
  /\ review \in [Reviewer -> Reviews]
  /\ batch \cup told \cup overtaken \cup expired \subseteq Member

(* What the job holds was not decided by staff, unless it is overtaken. *)
BatchUndecided == \A m \in batch \ overtaken : feed[m].by # "admin"

(* The only request under way knows whether its application is approved. *)
ApprovalKnown ==
  Cardinality(Reviewer) <= 1 =>
    \A r \in Reviewer :
      review[r] # Feed!NoReview /\ review[r].from = "approved"
        => feed[review[r].of].state = "approved"

FeedInv == FeedTypes /\ BatchUndecided /\ Feed!ApprovedWereTold /\ ApprovalKnown

\* The parts count as the library does.
LEMMA SameCount ==
  \A S : /\ Feed!Cardinality(S) = Cardinality(S)
         /\ Note!Cardinality(S) = Cardinality(S)
         /\ Ipfs!Cardinality(S) = Cardinality(S)
         /\ Rev!Cardinality(S) = Cardinality(S)
BY Zenon
   DEF Rev!Cardinality, Feed!Cardinality, Note!Cardinality, Ipfs!Cardinality,
       Cardinality

\* A count of one leaves no room for a second request of staff.
LEMMA OnlyOneReviewer ==
  Cardinality(Reviewer) <= 1 => \A r, s \in Reviewer : r = s
<1> SUFFICES ASSUME Cardinality(Reviewer) <= 1, NEW r \in Reviewer, NEW s \in Reviewer
             PROVE  r = s
  OBVIOUS
<1>1. IsFiniteSet(Reviewer) /\ {r, s} \subseteq Reviewer
  BY ContentAssumption
<1>2. Cardinality({r, s}) <= Cardinality(Reviewer) /\ Cardinality(Reviewer) \in Nat
  BY <1>1, FS_Subset, FS_CardinalityType
<1>3. IsFiniteSet({r, s}) /\ Cardinality({r, s}) \in Nat
  BY <1>1, FS_Subset, FS_CardinalityType
<1>4. CASE r # s
  <2>1. IsFiniteSet({s}) /\ Cardinality({s}) = 1
    BY FS_Singleton
  <2>2. Cardinality({s} \cup {r}) = 2
    BY <1>4, <2>1, FS_AddElement
  <2>3. {s} \cup {r} = {r, s}
    OBVIOUS
  <2> QED
    BY <1>2, <2>2, <2>3
<1> QED
  BY <1>4

\* A step by which the job overrules staff finds the row overtaken.
StaffStands ==
  \A m \in Member : feed[m].by = "admin" /\ feed'[m].by = "system" => m \in overtaken

\* Nobody has applied, nobody decides.
LEMMA FeedInit == Feed!Init => FeedInv
BY
   DEF Feed!Init, FeedInv, FeedTypes, Rows, Reviews, BatchUndecided,
       Feed!ApprovedWereTold, ApprovalKnown, Feed!NoRow, Feed!NoReview

\* A decision of staff that the job replaces was not in its batch, or is
\* overtaken; every other step leaves the reviewer or makes it staff.
LEMMA FeedNext ==
  FeedInv /\ Feed!Next => FeedInv' /\ StaffStands
<1> SUFFICES ASSUME FeedInv, Feed!Next PROVE FeedInv' /\ StaffStands
  OBVIOUS
<1> DEFINE G == FeedInv' /\ StaffStands
<1> USE DEF StaffStands
<1> USE DEF FeedInv, Feed!NoRow, Feed!NoReview
<1>1. ASSUME NEW m \in Member, Feed!ApplyMomentFeed(m) PROVE G
  BY <1>1
     DEF Feed!ApplyMomentFeed, FeedTypes, Rows, Reviews, BatchUndecided,
         Feed!ApprovedWereTold, ApprovalKnown
<1>2. ASSUME NEW m \in Member, Feed!Expire(m) PROVE G
  BY <1>2
     DEF Feed!Expire, FeedTypes, BatchUndecided, Feed!ApprovedWereTold, ApprovalKnown
<1>3. ASSUME NEW m \in Member, Feed!Replicate(m) PROVE G
  BY <1>3
     DEF Feed!Replicate, FeedTypes, BatchUndecided, Feed!ApprovedWereTold, ApprovalKnown
<1>4. ASSUME NEW r \in Reviewer, NEW m \in Member, NEW to \in Feed!State,
             Feed!ReadApplication(r, m, to)
      PROVE  G
  BY <1>4
     DEF Feed!ReadApplication, Feed!State, Feed!Allowed, FeedTypes, Rows, Reviews,
         BatchUndecided, Feed!ApprovedWereTold, ApprovalKnown
<1>5. ASSUME NEW r \in Reviewer, Feed!Decide(r) PROVE G
  <2> DEFINE m == review[r].of
             to == review[r].to
             row == [state |-> to, by |-> "admin"]
  <2>1. /\ review[r] # Feed!NoReview
        /\ review[r].of \in Member /\ review[r].to \in {"approved", "rejected", "revoked"}
    BY <1>5 DEF Feed!Decide, FeedTypes, Reviews
  <2>2. /\ feed' = [feed EXCEPT ![m] = row]
        /\ told' = IF to # "approved" THEN told \ {m}
                   ELSE IF review[r].from # "approved" THEN told \cup {m} ELSE told
        /\ overtaken' = overtaken \cup {m}
        /\ review' = [review EXCEPT ![r] = Feed!NoReview]
        /\ UNCHANGED <<feedReplica, expired, batch, stops>>
    BY <1>5 DEF Feed!Decide
  <2>3. FeedTypes'
    BY <2>1, <2>2 DEF FeedTypes, Rows, Reviews
  <2>4. /\ feed'[m].state = to /\ feed'[m].by = "admin"
        /\ \A x \in Member : x # m => feed'[x] = feed[x]
    BY <2>1, <2>2 DEF FeedTypes
  <2>5. /\ BatchUndecided'
        /\ \A x \in Member : feed[x].by = "admin" /\ feed'[x].by = "system" => x \in overtaken
    BY <2>1, <2>2, <2>4 DEF FeedTypes, BatchUndecided
  <2>6. ApprovalKnown'
    <3> SUFFICES ASSUME Cardinality(Reviewer) <= 1, NEW s \in Reviewer,
                        review'[s] # Feed!NoReview
                 PROVE  FALSE
      BY DEF ApprovalKnown
    <3>1. s = r
      BY OnlyOneReviewer
    <3> QED
      BY <2>2, <3>1 DEF FeedTypes
  <2>7. Feed!ApprovedWereTold'
    <3> SUFFICES ASSUME NEW x \in Member, feed'[x].state = "approved", x \notin told'
                 PROVE  Cardinality(Reviewer) > 1 /\ feed'[x].by = "admin"
      BY SameCount DEF Feed!ApprovedWereTold
    <3>1. CASE x # m
      BY SameCount, <2>2, <2>4, <3>1 DEF Feed!ApprovedWereTold
    <3>2. CASE x = m
      <4>1. to = "approved" /\ review[r].from = "approved" /\ m \notin told
        BY <2>2, <2>4, <3>2
      <4>2. Cardinality(Reviewer) \in Nat
        BY ContentAssumption, FS_CardinalityType
      <4>3. CASE Cardinality(Reviewer) <= 1
        BY SameCount, <2>1, <4>1, <4>2, <4>3 DEF ApprovalKnown, Feed!ApprovedWereTold
      <4> QED
        BY <2>4, <3>2, <4>2, <4>3
    <3> QED
      BY <3>1, <3>2
  <2> QED
    BY <2>3, <2>5, <2>6, <2>7
<1>6. ASSUME NEW m \in Member, Feed!AutoApprove(m) PROVE G
  BY <1>6
     DEF Feed!AutoApprove, FeedTypes, Rows, Reviews, BatchUndecided,
         Feed!ApprovedWereTold, ApprovalKnown
<1>7. CASE Feed!ReadDue
  BY <1>7
     DEF Feed!ReadDue, Feed!Due, FeedTypes, Rows, BatchUndecided, Feed!ApprovedWereTold,
         ApprovalKnown
<1>8. CASE Feed!JobStops
  BY <1>8
     DEF Feed!JobStops, FeedTypes, BatchUndecided, Feed!ApprovedWereTold, ApprovalKnown
<1> QED
  BY <1>1, <1>2, <1>3, <1>4, <1>5, <1>6, <1>7, <1>8 DEF Feed!Next

-----------------------------------------------------------------------------
(* Notice: a like and its withdrawal against the Lambda that tells of it.   *)

\* What a request and an invocation may be at, n notices having been made.
Asks == {"idle", "clear", "send", "wait", "flag", "delete", "forget"}
Jobs(n) == [step: {"idle", "lock", "process", "record"}, notice: 0..n]

NoteTypes ==
  /\ liked \in BOOLEAN /\ skip \in BOOLEAN /\ lock \in BOOLEAN /\ hash \in BOOLEAN
  /\ crossed \in BOOLEAN /\ slipped \in BOOLEAN /\ paired \in BOOLEAN
  /\ sent \in Nat /\ made \in Nat /\ troubles \in Nat
  /\ session \in [Session -> Asks]
  /\ lambda \in [Lambda -> Jobs(made)]
  /\ recorded \subseteq 1..made /\ shown \subseteq 1..made /\ aged \subseteq 1..made

AllIdle == \A s \in Session : session[s] = "idle"
Working(w) == lambda[w].step # "idle"
NobodyWorks == \A w \in Lambda : ~Working(w)

(* A request that nobody crossed is alone, and at what the last click asked. *)
Turns ==
  ~crossed =>
    /\ \A r, s \in Session : session[r] # "idle" /\ session[s] # "idle" => r = s
    /\ \A s \in Session : session[s] # "idle" =>
         session[s] \in IF liked THEN {"clear", "send"}
                                 ELSE {"wait", "flag", "delete", "forget"}

(* A notice in the hands of an invocation is shown, its own and not recorded;
   what is recorded is shown, unless a withdrawal has deleted it just now. *)
RecordsShown ==
  /\ \A w \in Lambda : lambda[w].step = "record" =>
       lambda[w].notice \in shown \ recorded
  /\ \A v, w \in Lambda :
       lambda[v].step = "record" /\ lambda[w].step = "record"
         /\ lambda[v].notice = lambda[w].notice => v = w
  /\ recorded \subseteq shown \/ \E s \in Session : session[s] = "forget"

(* A like leaves the flag down, and its message or its notice is somewhere. *)
LikeUnderWay ==
  liked /\ ~crossed /\ troubles = 0 =>
    /\ (\A s \in Session : session[s] # "clear") => ~skip
    /\ AllIdle => sent > 0 \/ ~NobodyWorks \/ shown # {}

\* Nothing happened that the properties except.
Undisturbed == ~crossed /\ ~slipped /\ ~paired /\ troubles = 0

\* One invocation works at a time, it holds the lock for as long as it writes,
\* and it begins a notice only when no fresh one is shown.
OneLambda ==
  /\ \A v, w \in Lambda : Working(v) /\ Working(w) => v = w
  /\ lock <=> \E w \in Lambda : lambda[w].step \in {"process", "record"}
  /\ \A w \in Lambda : Working(w) => recorded = {}
  /\ \A w \in Lambda : lambda[w].step \in {"lock", "process"} => shown \subseteq aged

\* A fresh notice is on record, or about to be put there.
FreshAreRecorded ==
  /\ ~hash => recorded = {}
  /\ \A m, n \in recorded : m = n
  /\ \A n \in shown \ aged :
       n \in recorded \/ \E w \in Lambda : lambda[w].step = "record" /\ lambda[w].notice = n

\* A withdrawal past its wait meets nobody at work, and the flag stops what
\* is still in the queue.
Withdrawal ==
  \A s \in Session :
    /\ session[s] \in {"flag", "delete", "forget"} => NobodyWorks
    /\ session[s] \in {"delete", "forget"} => skip \/ sent = 0
    /\ session[s] = "forget" => shown \subseteq aged

\* Once it is over nothing is left that could tell of the like.
Withdrawn ==
  ~liked /\ AllIdle => (skip \/ sent = 0) /\ NobodyWorks /\ shown \subseteq aged

NoteInv ==
  /\ NoteTypes /\ Turns /\ RecordsShown /\ LikeUnderWay
  /\ Undisturbed => OneLambda /\ FreshAreRecorded /\ Withdrawal /\ Withdrawn

\* Nobody has liked anything.
LEMMA NoteInit == Note!Init => NoteInv
<1> SUFFICES ASSUME Note!Init PROVE NoteInv
  OBVIOUS
<1> USE DEF Note!Init
<1>1. NoteTypes
  <2>1. lambda \in [Lambda -> Jobs(made)]
    BY DEF Jobs
  <2>2. session \in [Session -> Asks]
    BY DEF Asks
  <2> QED
    BY <2>1, <2>2 DEF NoteTypes
<1>2. Turns /\ RecordsShown /\ LikeUnderWay
  BY DEF Turns, RecordsShown, LikeUnderWay
<1>3. OneLambda /\ FreshAreRecorded /\ Withdrawal /\ Withdrawn
  BY DEF OneLambda, FreshAreRecorded, Withdrawal, Withdrawn, NobodyWorks, Working
<1> QED
  BY <1>1, <1>2, <1>3 DEF NoteInv

\* Every step of a request, the Lambda and Redis keeps the invariant.
LEMMA NoteNext == NoteInv /\ Note!Next => NoteInv'
<1> SUFFICES ASSUME NoteInv, Note!Next PROVE NoteInv'
  OBVIOUS
<1> USE DEF Note!At, Note!GoesTo, Note!keys, Note!ghosts
<1>1. ASSUME NEW s \in Session, Note!Like(s) PROVE NoteInv'
  <2> USE DEF Note!Like, Note!Begin, Note!GoesTo
  <2>1. NoteTypes'
    BY <1>1 DEF NoteInv, NoteTypes, Asks
  <2>2. Turns'
    BY <1>1 DEF NoteInv, NoteTypes, Turns
  <2>3. RecordsShown'
    BY <1>1 DEF NoteInv, RecordsShown
  <2>4. LikeUnderWay'
    BY <1>1 DEF NoteInv, NoteTypes, Turns, LikeUnderWay, AllIdle, NobodyWorks, Working
  <2> SUFFICES ASSUME Undisturbed'
               PROVE  (OneLambda /\ FreshAreRecorded /\ Withdrawal /\ Withdrawn)'
    BY <2>1, <2>2, <2>3, <2>4 DEF NoteInv
  <2>5. Undisturbed
    BY <1>1 DEF Undisturbed
  <2>6. OneLambda'
    BY <1>1, <2>5 DEF NoteInv, OneLambda, Working
  <2>7. FreshAreRecorded'
    BY <1>1, <2>5 DEF NoteInv, FreshAreRecorded
  <2>8. Withdrawal'
    BY <1>1, <2>5 DEF NoteInv, Withdrawal, NobodyWorks, Working
  <2>9. Withdrawn'
    BY <1>1, <2>5 DEF NoteInv, Withdrawn, AllIdle, NobodyWorks, Working
  <2> QED
    BY <2>6, <2>7, <2>8, <2>9
<1>2. ASSUME NEW s \in Session, Note!Unlike(s) PROVE NoteInv'
  <2> USE DEF Note!Unlike, Note!Begin, Note!GoesTo
  <2>1. NoteTypes'
    BY <1>2 DEF NoteInv, NoteTypes, Asks
  <2>2. Turns'
    BY <1>2 DEF NoteInv, NoteTypes, Turns
  <2>3. RecordsShown'
    BY <1>2 DEF NoteInv, RecordsShown
  <2>4. LikeUnderWay'
    BY <1>2 DEF NoteInv, LikeUnderWay, AllIdle, NobodyWorks, Working
  <2> SUFFICES ASSUME Undisturbed'
               PROVE  (OneLambda /\ FreshAreRecorded /\ Withdrawal /\ Withdrawn)'
    BY <2>1, <2>2, <2>3, <2>4 DEF NoteInv
  <2>5. Undisturbed
    BY <1>2 DEF Undisturbed
  <2>6. OneLambda'
    BY <1>2, <2>5 DEF NoteInv, OneLambda, Working
  <2>7. FreshAreRecorded'
    BY <1>2, <2>5 DEF NoteInv, FreshAreRecorded
  <2>8. Withdrawal'
    BY <1>2, <2>5 DEF NoteInv, Withdrawal, NobodyWorks, Working
  <2>9. Withdrawn'
    BY <1>2, <2>5
       DEF NoteInv, NoteTypes, Undisturbed, Turns, Withdrawal, Withdrawn, NobodyWorks,
           Working, AllIdle
  <2> QED
    BY <2>6, <2>7, <2>8, <2>9
<1>3. ASSUME NEW s \in Session, Note!ClearFlag(s) PROVE NoteInv'
  <2> USE DEF Note!ClearFlag, Note!Cleared
  <2>1. NoteTypes'
    BY <1>3 DEF NoteInv, NoteTypes, Asks
  <2>2. Turns'
    BY <1>3 DEF NoteInv, NoteTypes, Turns
  <2>3. RecordsShown'
    BY <1>3 DEF NoteInv, RecordsShown
  <2>4. LikeUnderWay'
    BY <1>3 DEF NoteInv, LikeUnderWay, AllIdle, NobodyWorks, Working
  <2> SUFFICES ASSUME Undisturbed'
               PROVE  (OneLambda /\ FreshAreRecorded /\ Withdrawal /\ Withdrawn)'
    BY <2>1, <2>2, <2>3, <2>4 DEF NoteInv
  <2>5. Undisturbed
    BY <1>3 DEF Undisturbed
  <2>6. OneLambda'
    BY <1>3, <2>5 DEF NoteInv, OneLambda, Working
  <2>7. FreshAreRecorded'
    BY <1>3, <2>5 DEF NoteInv, FreshAreRecorded
  <2>8. Withdrawal'
    BY <1>3, <2>5
       DEF NoteInv, NoteTypes, Undisturbed, Turns, Withdrawal, NobodyWorks, Working
  <2>9. Withdrawn'
    BY <1>3, <2>5 DEF NoteInv, Withdrawn, AllIdle, NobodyWorks, Working
  <2> QED
    BY <2>6, <2>7, <2>8, <2>9
<1>4. ASSUME NEW s \in Session, Note!Send(s) PROVE NoteInv'
  <2> USE DEF Note!Send
  <2>1. NoteTypes'
    BY <1>4 DEF NoteInv, NoteTypes, Asks
  <2>2. Turns'
    BY <1>4 DEF NoteInv, NoteTypes, Turns
  <2>3. RecordsShown'
    BY <1>4 DEF NoteInv, RecordsShown
  <2>4. LikeUnderWay'
    BY <1>4 DEF NoteInv, NoteTypes, Turns, LikeUnderWay, AllIdle, NobodyWorks, Working
  <2> SUFFICES ASSUME Undisturbed'
               PROVE  (OneLambda /\ FreshAreRecorded /\ Withdrawal /\ Withdrawn)'
    BY <2>1, <2>2, <2>3, <2>4 DEF NoteInv
  <2>5. Undisturbed
    BY <1>4 DEF Undisturbed
  <2>6. OneLambda'
    BY <1>4, <2>5 DEF NoteInv, OneLambda, Working
  <2>7. FreshAreRecorded'
    BY <1>4, <2>5 DEF NoteInv, FreshAreRecorded
  <2>8. Withdrawal'
    BY <1>4, <2>5
       DEF NoteInv, NoteTypes, Undisturbed, Turns, Withdrawal, NobodyWorks, Working
  <2>9. Withdrawn'
    BY <1>4, <2>5
       DEF NoteInv, NoteTypes, Undisturbed, Turns, Withdrawal, Withdrawn, NobodyWorks,
           Working, AllIdle
  <2> QED
    BY <2>6, <2>7, <2>8, <2>9
<1>5. ASSUME NEW s \in Session, Note!LoseMessage(s) PROVE NoteInv'
  <2> USE DEF Note!LoseMessage, Note!Trouble
  <2>1. NoteTypes'
    BY <1>5 DEF NoteInv, NoteTypes, Asks
  <2>2. Turns'
    BY <1>5 DEF NoteInv, NoteTypes, Turns
  <2>3. RecordsShown'
    BY <1>5 DEF NoteInv, RecordsShown
  <2>4. LikeUnderWay'
    BY <1>5 DEF NoteInv, NoteTypes, Turns, LikeUnderWay, AllIdle, NobodyWorks, Working
  <2> SUFFICES ASSUME Undisturbed'
               PROVE  (OneLambda /\ FreshAreRecorded /\ Withdrawal /\ Withdrawn)'
    BY <2>1, <2>2, <2>3, <2>4 DEF NoteInv
  <2>5. Undisturbed
    BY <1>5 DEF Undisturbed, NoteInv, NoteTypes
  <2>6. OneLambda'
    BY <1>5, <2>5 DEF NoteInv, OneLambda, Working
  <2>7. FreshAreRecorded'
    BY <1>5, <2>5 DEF NoteInv, FreshAreRecorded
  <2>8. Withdrawal'
    BY <1>5, <2>5 DEF NoteInv, Withdrawal, NobodyWorks, Working
  <2>9. Withdrawn'
    BY <1>5, <2>5
       DEF NoteInv, NoteTypes, Undisturbed, Turns, Withdrawal, Withdrawn, NobodyWorks,
           Working, AllIdle
  <2> QED
    BY <2>6, <2>7, <2>8, <2>9
<1>6. ASSUME NEW s \in Session, Note!AwaitLock(s) PROVE NoteInv'
  <2> USE DEF Note!AwaitLock, Note!MayWithdraw
  <2>1. NoteTypes'
    BY <1>6 DEF NoteInv, NoteTypes, Asks
  <2>2. Turns'
    BY <1>6 DEF NoteInv, NoteTypes, Turns
  <2>3. RecordsShown'
    BY <1>6 DEF NoteInv, RecordsShown
  <2>4. LikeUnderWay'
    BY <1>6 DEF NoteInv, LikeUnderWay, AllIdle, NobodyWorks, Working
  <2> SUFFICES ASSUME Undisturbed'
               PROVE  (OneLambda /\ FreshAreRecorded /\ Withdrawal /\ Withdrawn)'
    BY <2>1, <2>2, <2>3, <2>4 DEF NoteInv
  <2>5. Undisturbed
    BY <1>6 DEF Undisturbed
  <2>6. OneLambda'
    BY <1>6, <2>5 DEF NoteInv, OneLambda, Working
  <2>7. FreshAreRecorded'
    BY <1>6, <2>5 DEF NoteInv, FreshAreRecorded
  <2>8. Withdrawal'
    BY <1>6, <2>5
       DEF NoteInv, NoteTypes, Asks, Jobs, Undisturbed, Turns, OneLambda,
           FreshAreRecorded, Withdrawal, Withdrawn, NobodyWorks, Working, AllIdle
  <2>9. Withdrawn'
    BY <1>6, <2>5 DEF NoteInv, Withdrawn, AllIdle, NobodyWorks, Working
  <2> QED
    BY <2>6, <2>7, <2>8, <2>9
<1>7. ASSUME NEW s \in Session, Note!SetFlag(s) PROVE NoteInv'
  <2> USE DEF Note!SetFlag
  <2>1. NoteTypes'
    BY <1>7 DEF NoteInv, NoteTypes, Asks
  <2>2. Turns'
    BY <1>7 DEF NoteInv, NoteTypes, Turns
  <2>3. RecordsShown'
    BY <1>7 DEF NoteInv, RecordsShown
  <2>4. LikeUnderWay'
    BY <1>7 DEF NoteInv, NoteTypes, Turns, LikeUnderWay, AllIdle, NobodyWorks, Working
  <2> SUFFICES ASSUME Undisturbed'
               PROVE  (OneLambda /\ FreshAreRecorded /\ Withdrawal /\ Withdrawn)'
    BY <2>1, <2>2, <2>3, <2>4 DEF NoteInv
  <2>5. Undisturbed
    BY <1>7 DEF Undisturbed
  <2>6. OneLambda'
    BY <1>7, <2>5 DEF NoteInv, OneLambda, Working
  <2>7. FreshAreRecorded'
    BY <1>7, <2>5 DEF NoteInv, FreshAreRecorded
  <2>8. Withdrawal'
    BY <1>7, <2>5 DEF NoteInv, Withdrawal, NobodyWorks, Working
  <2>9. Withdrawn'
    BY <1>7, <2>5 DEF NoteInv, Withdrawn, AllIdle, NobodyWorks, Working
  <2> QED
    BY <2>6, <2>7, <2>8, <2>9
<1>8. ASSUME NEW s \in Session, Note!DeleteNotices(s) PROVE NoteInv'
  <2> USE DEF Note!DeleteNotices
  <2>1. NoteTypes'
    BY <1>8 DEF NoteInv, NoteTypes, Asks
  <2>2. Turns'
    BY <1>8 DEF NoteInv, NoteTypes, Turns
  <2>3. RecordsShown'
    BY <1>8 DEF NoteInv, NoteTypes, RecordsShown
  <2>4. LikeUnderWay'
    BY <1>8 DEF NoteInv, LikeUnderWay, AllIdle, NobodyWorks, Working
  <2> SUFFICES ASSUME Undisturbed'
               PROVE  (OneLambda /\ FreshAreRecorded /\ Withdrawal /\ Withdrawn)'
    BY <2>1, <2>2, <2>3, <2>4 DEF NoteInv
  <2>5. Undisturbed
    BY <1>8 DEF Undisturbed
  <2>6. OneLambda'
    BY <1>8, <2>5 DEF NoteInv, OneLambda, Working
  <2>7. FreshAreRecorded'
    BY <1>8, <2>5 DEF NoteInv, FreshAreRecorded
  <2>8. Withdrawal'
    BY <1>8, <2>5
       DEF NoteInv, NoteTypes, Undisturbed, Turns, OneLambda, FreshAreRecorded,
           Withdrawal, Withdrawn, NobodyWorks, Working, AllIdle
  <2>9. Withdrawn'
    BY <1>8, <2>5 DEF NoteInv, Withdrawn, AllIdle, NobodyWorks, Working
  <2> QED
    BY <2>6, <2>7, <2>8, <2>9
<1>9. ASSUME NEW s \in Session, Note!ForgetNotices(s) PROVE NoteInv'
  <2> USE DEF Note!ForgetNotices
  <2>1. NoteTypes'
    BY <1>9 DEF NoteInv, NoteTypes, Asks
  <2>2. Turns'
    BY <1>9 DEF NoteInv, NoteTypes, Turns
  <2>3. RecordsShown'
    BY <1>9 DEF NoteInv, RecordsShown
  <2>4. LikeUnderWay'
    BY <1>9 DEF NoteInv, NoteTypes, Turns, LikeUnderWay, AllIdle, NobodyWorks, Working
  <2> SUFFICES ASSUME Undisturbed'
               PROVE  (OneLambda /\ FreshAreRecorded /\ Withdrawal /\ Withdrawn)'
    BY <2>1, <2>2, <2>3, <2>4 DEF NoteInv
  <2>5. Undisturbed
    BY <1>9 DEF Undisturbed
  <2>6. OneLambda'
    BY <1>9, <2>5 DEF NoteInv, OneLambda, Working
  <2>7. FreshAreRecorded'
    BY <1>9, <2>5
       DEF NoteInv, NoteTypes, Jobs, Undisturbed, RecordsShown, OneLambda,
           FreshAreRecorded, Withdrawal, Working
  <2>8. Withdrawal'
    BY <1>9, <2>5 DEF NoteInv, Withdrawal, NobodyWorks, Working
  <2>9. Withdrawn'
    BY <1>9, <2>5
       DEF NoteInv, NoteTypes, Undisturbed, Turns, Withdrawal, Withdrawn, NobodyWorks,
           Working, AllIdle
  <2> QED
    BY <2>6, <2>7, <2>8, <2>9
<1>10. ASSUME NEW w \in Lambda, Note!Receive(w) PROVE NoteInv'
  <2> USE DEF Note!Receive, Note!IsDuplicate
  <2>1. NoteTypes'
    BY <1>10 DEF NoteInv, NoteTypes, Asks, Jobs
  <2>2. Turns'
    BY <1>10 DEF NoteInv, NoteTypes, Turns
  <2>3. RecordsShown'
    BY <1>10 DEF NoteInv, RecordsShown
  <2>4. LikeUnderWay'
    BY <1>10
       DEF NoteInv, NoteTypes, Turns, RecordsShown, LikeUnderWay, AllIdle, NobodyWorks,
           Working
  <2> SUFFICES ASSUME Undisturbed'
               PROVE  (OneLambda /\ FreshAreRecorded /\ Withdrawal /\ Withdrawn)'
    BY <2>1, <2>2, <2>3, <2>4 DEF NoteInv
  <2>5. Undisturbed
    BY <1>10 DEF Undisturbed
  <2>6. OneLambda'
    BY <1>10, <2>5
       DEF NoteInv, NoteTypes, Jobs, Undisturbed, Turns, OneLambda, FreshAreRecorded,
           Withdrawal, NobodyWorks, Working
  <2>7. FreshAreRecorded'
    BY <1>10, <2>5 DEF NoteInv, FreshAreRecorded
  <2>8. Withdrawal'
    <3> SUFFICES ASSUME NEW s \in Session, session[s] \in {"flag", "delete", "forget"}
                 PROVE  /\ NobodyWorks'
                        /\ session[s] \in {"delete", "forget"} => skip \/ sent' = 0
                        /\ session[s] = "forget" => shown \subseteq aged
      BY <1>10 DEF Withdrawal
    <3>1. /\ NobodyWorks /\ sent \in Nat
          /\ session[s] \in {"delete", "forget"} => skip
          /\ session[s] = "forget" => shown \subseteq aged
      BY <1>10, <2>5 DEF NoteInv, NoteTypes, Withdrawal
    <3>2. skip \/ session[s] = "flag" => NobodyWorks'
      BY <1>10, <3>1 DEF Undisturbed, NoteInv, NoteTypes, Jobs, NobodyWorks, Working
    <3> QED
      BY <3>1, <3>2
  <2>9. Withdrawn'
    BY <1>10, <2>5 DEF NoteInv, Withdrawn, AllIdle, NobodyWorks, Working
  <2> QED
    BY <2>6, <2>7, <2>8, <2>9
<1>11. ASSUME NEW w \in Lambda, Note!TakeLock(w) PROVE NoteInv'
  <2> USE DEF Note!TakeLock
  <2>1. NoteTypes'
    BY <1>11 DEF NoteInv, NoteTypes, Asks, Jobs
  <2>2. Turns'
    BY <1>11 DEF NoteInv, NoteTypes, Turns
  <2>3. RecordsShown'
    BY <1>11 DEF NoteInv, RecordsShown
  <2>4. LikeUnderWay'
    BY <1>11 DEF NoteInv, LikeUnderWay, AllIdle, NobodyWorks, Working
  <2> SUFFICES ASSUME Undisturbed'
               PROVE  (OneLambda /\ FreshAreRecorded /\ Withdrawal /\ Withdrawn)'
    BY <2>1, <2>2, <2>3, <2>4 DEF NoteInv
  <2>5. Undisturbed
    BY <1>11 DEF Undisturbed
  <2>6. OneLambda'
    BY <1>11, <2>5 DEF NoteInv, NoteTypes, Jobs, Undisturbed, OneLambda, Working
  <2>7. FreshAreRecorded'
    BY <1>11, <2>5 DEF NoteInv, FreshAreRecorded
  <2>8. Withdrawal'
    BY <1>11, <2>5 DEF NoteInv, Withdrawal, NobodyWorks, Working
  <2>9. Withdrawn'
    BY <1>11, <2>5 DEF NoteInv, Withdrawn, AllIdle, NobodyWorks, Working
  <2> QED
    BY <2>6, <2>7, <2>8, <2>9
<1>12. ASSUME NEW w \in Lambda, Note!Process(w) PROVE NoteInv'
  <2> USE DEF Note!Process
  <2>1. NoteTypes'
    BY <1>12 DEF NoteInv, NoteTypes, Asks, Jobs
  <2>2. Turns'
    BY <1>12 DEF NoteInv, NoteTypes, Turns
  <2>3. RecordsShown'
    BY <1>12 DEF NoteInv, NoteTypes, RecordsShown
  <2>4. LikeUnderWay'
    BY <1>12 DEF NoteInv, LikeUnderWay, AllIdle, NobodyWorks, Working
  <2> SUFFICES ASSUME Undisturbed'
               PROVE  (OneLambda /\ FreshAreRecorded /\ Withdrawal /\ Withdrawn)'
    BY <2>1, <2>2, <2>3, <2>4 DEF NoteInv
  <2>5. Undisturbed
    BY <1>12 DEF Undisturbed
  <2>6. OneLambda'
    BY <1>12, <2>5 DEF NoteInv, NoteTypes, Jobs, Undisturbed, OneLambda, Working
  <2>7. FreshAreRecorded'
    BY <1>12, <2>5 DEF NoteInv, NoteTypes, OneLambda, FreshAreRecorded, Working
  <2>8. Withdrawal'
    BY <1>12, <2>5 DEF NoteInv, Withdrawal, NobodyWorks, Working
  <2>9. Withdrawn'
    BY <1>12, <2>5 DEF NoteInv, Withdrawn, AllIdle, NobodyWorks, Working
  <2> QED
    BY <2>6, <2>7, <2>8, <2>9
<1>13. ASSUME NEW w \in Lambda, Note!Record(w) PROVE NoteInv'
  <2> USE DEF Note!Record
  <2>1. NoteTypes'
    <3>1. [step |-> "idle", notice |-> 0] \in Jobs(made) /\ Jobs(made)' = Jobs(made)
      BY <1>13 DEF NoteInv, NoteTypes, Jobs
    <3>2. lambda' \in [Lambda -> Jobs(made)]'
      BY <1>13, <3>1 DEF NoteInv, NoteTypes
    <3>3. recorded' \subseteq 1..made'
      BY <1>13 DEF NoteInv, NoteTypes, RecordsShown
    <3> QED
      BY <1>13, <3>2, <3>3 DEF NoteInv, NoteTypes
  <2>2. Turns'
    BY <1>13 DEF NoteInv, NoteTypes, Turns
  <2>3. RecordsShown'
    BY <1>13 DEF NoteInv, NoteTypes, RecordsShown
  <2>4. LikeUnderWay'
    BY <1>13
       DEF NoteInv, NoteTypes, Turns, RecordsShown, LikeUnderWay, AllIdle, NobodyWorks,
           Working
  <2> SUFFICES ASSUME Undisturbed'
               PROVE  (OneLambda /\ FreshAreRecorded /\ Withdrawal /\ Withdrawn)'
    BY <2>1, <2>2, <2>3, <2>4 DEF NoteInv
  <2>5. Undisturbed
    BY <1>13 DEF Undisturbed
  <2>6. OneLambda'
    BY <1>13, <2>5 DEF NoteInv, NoteTypes, Jobs, Undisturbed, OneLambda, Working
  <2>7. FreshAreRecorded'
    BY <1>13, <2>5 DEF NoteInv, NoteTypes, OneLambda, FreshAreRecorded, Working
  <2>8. Withdrawal'
    BY <1>13, <2>5 DEF NoteInv, Withdrawal, NobodyWorks, Working
  <2>9. Withdrawn'
    BY <1>13, <2>5 DEF NoteInv, Withdrawn, AllIdle, NobodyWorks, Working
  <2> QED
    BY <2>6, <2>7, <2>8, <2>9
<1>14. ASSUME NEW w \in Lambda, Note!Fail(w) PROVE NoteInv'
  <2> USE DEF Note!Fail, Note!Trouble
  <2>1. NoteTypes'
    BY <1>14 DEF NoteInv, NoteTypes, Asks, Jobs
  <2>2. Turns'
    BY <1>14 DEF NoteInv, NoteTypes, Turns
  <2>3. RecordsShown'
    BY <1>14 DEF NoteInv, RecordsShown
  <2>4. LikeUnderWay'
    BY <1>14 DEF NoteInv, NoteTypes, Turns, LikeUnderWay, AllIdle, NobodyWorks, Working
  <2> SUFFICES ASSUME Undisturbed'
               PROVE  (OneLambda /\ FreshAreRecorded /\ Withdrawal /\ Withdrawn)'
    BY <2>1, <2>2, <2>3, <2>4 DEF NoteInv
  <2>5. Undisturbed
    BY <1>14 DEF Undisturbed, NoteInv, NoteTypes
  <2>6. OneLambda'
    BY <1>14, <2>5 DEF NoteInv, NoteTypes, Jobs, Undisturbed, OneLambda, Working
  <2>7. FreshAreRecorded'
    BY <1>14, <2>5
       DEF NoteInv, NoteTypes, Jobs, Undisturbed, RecordsShown, OneLambda,
           FreshAreRecorded, Withdrawal, Working
  <2>8. Withdrawal'
    BY <1>14, <2>5 DEF NoteInv, Withdrawal, NobodyWorks, Working
  <2>9. Withdrawn'
    BY <1>14, <2>5 DEF NoteInv, Withdrawn, AllIdle, NobodyWorks, Working
  <2> QED
    BY <2>6, <2>7, <2>8, <2>9
<1>15. CASE Note!Redeliver
  <2> USE DEF Note!Redeliver, Note!Trouble
  <2>1. NoteTypes'
    BY <1>15 DEF NoteInv, NoteTypes
  <2>2. Turns'
    BY <1>15 DEF NoteInv, NoteTypes, Turns
  <2>3. RecordsShown'
    BY <1>15 DEF NoteInv, RecordsShown
  <2>4. LikeUnderWay'
    BY <1>15 DEF NoteInv, NoteTypes, Turns, LikeUnderWay, AllIdle, NobodyWorks, Working
  <2> SUFFICES ASSUME Undisturbed'
               PROVE  (OneLambda /\ FreshAreRecorded /\ Withdrawal /\ Withdrawn)'
    BY <2>1, <2>2, <2>3, <2>4 DEF NoteInv
  <2>5. Undisturbed
    BY <1>15 DEF Undisturbed, NoteInv, NoteTypes
  <2>6. OneLambda'
    BY <1>15, <2>5 DEF NoteInv, OneLambda, Working
  <2>7. FreshAreRecorded'
    BY <1>15, <2>5 DEF NoteInv, FreshAreRecorded
  <2>8. Withdrawal'
    BY <1>15, <2>5 DEF NoteInv, Withdrawal, NobodyWorks, Working
  <2>9. Withdrawn'
    BY <1>15, <2>5 DEF NoteInv, Withdrawn, AllIdle, NobodyWorks, Working
  <2> QED
    BY <2>6, <2>7, <2>8, <2>9
<1>16. CASE Note!ExpireFlag
  <2> USE DEF Note!ExpireFlag
  <2>1. NoteTypes'
    BY <1>16 DEF NoteInv, NoteTypes
  <2>2. Turns'
    BY <1>16 DEF NoteInv, NoteTypes, Turns
  <2>3. RecordsShown'
    BY <1>16 DEF NoteInv, RecordsShown
  <2>4. LikeUnderWay'
    BY <1>16 DEF NoteInv, LikeUnderWay, AllIdle, NobodyWorks, Working
  <2> SUFFICES ASSUME Undisturbed'
               PROVE  (OneLambda /\ FreshAreRecorded /\ Withdrawal /\ Withdrawn)'
    BY <2>1, <2>2, <2>3, <2>4 DEF NoteInv
  <2>5. Undisturbed
    BY <1>16 DEF Undisturbed
  <2>6. OneLambda'
    BY <1>16, <2>5 DEF NoteInv, OneLambda, Working
  <2>7. FreshAreRecorded'
    BY <1>16, <2>5 DEF NoteInv, FreshAreRecorded
  <2>8. Withdrawal'
    BY <1>16, <2>5 DEF NoteInv, Withdrawal, NobodyWorks, Working
  <2>9. Withdrawn'
    BY <1>16, <2>5 DEF NoteInv, Withdrawn, AllIdle, NobodyWorks, Working
  <2> QED
    BY <2>6, <2>7, <2>8, <2>9
<1>17. CASE Note!ExpireLock
  <2> USE DEF Note!ExpireLock, Note!LockTimesOut
  <2>1. NoteTypes'
    BY <1>17 DEF NoteInv, NoteTypes
  <2>2. Turns'
    BY <1>17 DEF NoteInv, NoteTypes, Turns
  <2>3. RecordsShown'
    BY <1>17 DEF NoteInv, RecordsShown
  <2>4. LikeUnderWay'
    BY <1>17 DEF NoteInv, LikeUnderWay, AllIdle, NobodyWorks, Working
  <2> SUFFICES ASSUME Undisturbed'
               PROVE  (OneLambda /\ FreshAreRecorded /\ Withdrawal /\ Withdrawn)'
    BY <2>1, <2>2, <2>3, <2>4 DEF NoteInv
  <2>5. Undisturbed
    BY <1>17 DEF Undisturbed
  <2>6. OneLambda'
    BY <1>17, <2>5 DEF NoteInv, OneLambda, Working
  <2>7. FreshAreRecorded'
    BY <1>17, <2>5 DEF NoteInv, FreshAreRecorded
  <2>8. Withdrawal'
    BY <1>17, <2>5 DEF NoteInv, Withdrawal, NobodyWorks, Working
  <2>9. Withdrawn'
    BY <1>17, <2>5 DEF NoteInv, Withdrawn, AllIdle, NobodyWorks, Working
  <2> QED
    BY <2>6, <2>7, <2>8, <2>9
<1>18. CASE Note!ExpireRecord
  <2> USE DEF Note!ExpireRecord
  <2>1. NoteTypes'
    BY <1>18 DEF NoteInv, NoteTypes
  <2>2. Turns'
    BY <1>18 DEF NoteInv, NoteTypes, Turns
  <2>3. RecordsShown'
    BY <1>18 DEF NoteInv, RecordsShown
  <2>4. LikeUnderWay'
    BY <1>18 DEF NoteInv, LikeUnderWay, AllIdle, NobodyWorks, Working
  <2> SUFFICES ASSUME Undisturbed'
               PROVE  (OneLambda /\ FreshAreRecorded /\ Withdrawal /\ Withdrawn)'
    BY <2>1, <2>2, <2>3, <2>4 DEF NoteInv
  <2>5. Undisturbed
    BY <1>18 DEF Undisturbed
  <2>6. OneLambda'
    BY <1>18, <2>5 DEF NoteInv, OneLambda, Working
  <2>7. FreshAreRecorded'
    BY <1>18, <2>5 DEF NoteInv, FreshAreRecorded
  <2>8. Withdrawal'
    BY <1>18, <2>5 DEF NoteInv, Withdrawal, NobodyWorks, Working
  <2>9. Withdrawn'
    BY <1>18, <2>5 DEF NoteInv, Withdrawn, AllIdle, NobodyWorks, Working
  <2> QED
    BY <2>6, <2>7, <2>8, <2>9
<1> QED
  BY <1>1, <1>2, <1>3, <1>4, <1>5, <1>6, <1>7, <1>8, <1>9, <1>10, <1>11, <1>12, <1>13,
     <1>14, <1>15, <1>16, <1>17, <1>18
     DEF Note!Next

-----------------------------------------------------------------------------
(* IpfsPublication: versions, their uploads and keys.                       *)

\* What happened to a version.
Notes == {"asked", "inherited", "lost", "outrun"}

IpfsTypes ==
  /\ copies \in [Ipfs!Version -> [content: 0..MaxVersions, hash: {0} \cup Ipfs!Upload]]
  /\ lastCopy \in Ipfs!Version /\ paywall \in BOOLEAN
  /\ secret \in {0} \cup Ipfs!Upload
  /\ uploads \in [Ipfs!Upload -> 0..MaxVersions]
  /\ queued \subseteq 1..lastCopy
  /\ uploader \in [Lambda -> [step: {"idle", "upload", "retry", "record"},
                              version: 0..MaxVersions, upload: {0} \cup Ipfs!Upload]]
  /\ ipfsPast \in [Ipfs!Version -> SUBSET Notes]

(* An invocation has nothing uploaded before its upload is done; then it holds
   the page of its version. *)
UploadsOwn ==
  \A w \in Lambda :
    /\ uploader[w].step = "idle" => uploader[w] = Ipfs!Idle
    /\ uploader[w].step # "idle" => uploader[w].version \in 1..lastCopy
    /\ uploader[w].step # "record" => uploader[w].upload = 0
    /\ uploader[w].step = "record" =>
         /\ uploader[w].upload \in Ipfs!Upload
         /\ uploads[uploader[w].upload] = copies[uploader[w].version].content

(* No content is newer than the latest version. *)
ContentsKnown ==
  /\ \A v \in Ipfs!Version : copies[v].content <= lastCopy
  /\ \A u \in Ipfs!Upload : uploads[u] <= lastCopy

\* With these the two properties are inductive.
IpfsInv ==
  /\ IpfsTypes /\ UploadsOwn /\ ContentsKnown
  /\ Ipfs!HashIsOfContent /\ Ipfs!KeyOpensLatest

\* A non-empty set of numbers has a least one.
LEMMA Least ==
  ASSUME NEW T \in SUBSET Nat, T # {}
  PROVE  \E n \in T : \A m \in T : n <= m
<1> DEFINE R == {ss \in Nat \X Nat : ss[1] < ss[2]}
<1>1. IsWellFoundedOn(R, Nat)
  BY NatLessThanWellFounded DEF OpToRel
<1>2. \A m, n \in Nat : m < n => <<m, n>> \in R
  OBVIOUS
<1> HIDE DEF R
<1>3. PICK n \in T : \A m \in T : ~ (<<m, n>> \in R)
  BY <1>1, WFMin
<1>4. \A m \in T : ~ (m < n)
  BY <1>2, <1>3
<1> QED
  BY <1>4

\* A function takes no more values than it has arguments.
LEMMA ImageBound ==
  ASSUME NEW S, NEW f, f = [x \in S |-> f[x]], IsFiniteSet(S)
  PROVE  /\ IsFiniteSet({f[x] : x \in S})
         /\ Cardinality({f[x] : x \in S}) <= Cardinality(S)
<1>1. f \in Surjection(S, {f[x] : x \in S})
  BY DEF Surjection
<1> QED
  BY <1>1, FS_Surjection

\* There is a name for each version, each invocation and one more.
LEMMA UploadCount ==
  /\ Ipfs!Upload = 1..(MaxVersions + Cardinality(Lambda) + 1)
  /\ IsFiniteSet(Ipfs!Upload)
  /\ Cardinality(Ipfs!Upload) = MaxVersions + Cardinality(Lambda) + 1
  /\ Cardinality(Lambda) \in Nat
<1>1. Ipfs!Upload = 1..(MaxVersions + Cardinality(Lambda) + 1)
  BY SameCount DEF Ipfs!Upload
<1>2. Cardinality(Lambda) \in Nat
  BY ContentAssumption, FS_CardinalityType
<1> QED
  BY <1>1, <1>2, FS_Interval, ContentAssumption

(* There is always a name for a new upload. *)
LEMMA NewUploadIsFree ==
  ASSUME IpfsTypes, NEW w \in Lambda, uploader[w].upload = 0
  PROVE  Ipfs!NewUpload \in Ipfs!Upload /\ Ipfs!NewUpload \notin Ipfs!Referred
<1> DEFINE f == [v \in Ipfs!Version |-> copies[v].hash]
           g == [x \in Lambda \ {w} |-> uploader[x].upload]
           F == {f[v] : v \in Ipfs!Version}
           G == {g[x] : x \in Lambda \ {w}}
           Taken == (F \cup G) \cup {secret}
<1>1. IsFiniteSet(Ipfs!Version) /\ Cardinality(Ipfs!Version) = MaxVersions
  BY FS_Interval, ContentAssumption DEF Ipfs!Version
<1>2. IsFiniteSet(Lambda \ {w}) /\ Cardinality(Lambda \ {w}) = Cardinality(Lambda) - 1
  BY FS_RemoveElement, ContentAssumption
<1>3. IsFiniteSet(F) /\ Cardinality(F) <= MaxVersions
  <2> HIDE DEF f
  <2>1. f = [x \in Ipfs!Version |-> f[x]]
    BY DEF f
  <2> QED
    BY <1>1, <2>1, ImageBound
<1>4. IsFiniteSet(G) /\ Cardinality(G) <= Cardinality(Lambda) - 1
  <2> HIDE DEF g
  <2>1. g = [x \in Lambda \ {w} |-> g[x]]
    BY DEF g
  <2> QED
    BY <1>2, <2>1, ImageBound
<1>5. Ipfs!Referred \ {0} \subseteq Taken
  BY DEF Ipfs!Referred
<1> HIDE DEF F, G
<1>6. /\ IsFiniteSet(F \cup G)
      /\ Cardinality(F \cup G) <= MaxVersions + Cardinality(Lambda) - 1
  <2>1. Cardinality(F \cap G) \in Nat /\ Cardinality(F) \in Nat /\ Cardinality(G) \in Nat
    BY <1>3, <1>4, FS_Intersection, FS_CardinalityType
  <2>2. Cardinality(F \cup G) = Cardinality(F) + Cardinality(G) - Cardinality(F \cap G)
    BY <1>3, <1>4, FS_Union
  <2>3. IsFiniteSet(F \cup G)
    BY <1>3, <1>4, FS_Union
  <2>4. Cardinality(Lambda) \in Nat /\ MaxVersions \in Nat
    BY UploadCount, ContentAssumption
  <2> QED
    BY <1>3, <1>4, <2>1, <2>2, <2>3, <2>4
<1>7. IsFiniteSet(Taken) /\ Cardinality(Taken) < Cardinality(Ipfs!Upload)
  <2>1. Cardinality(F \cup G) \in Nat
    BY <1>6, FS_CardinalityType
  <2>2. IsFiniteSet(Taken) /\ Cardinality(Taken) <= Cardinality(F \cup G) + 1
    <3> HIDE DEF Taken
    <3>1. /\ IsFiniteSet((F \cup G) \cup {secret})
          /\ Cardinality((F \cup G) \cup {secret}) =
               IF secret \in (F \cup G) THEN Cardinality(F \cup G) ELSE Cardinality(F \cup G) + 1
      BY <1>6, FS_AddElement
    <3> QED
      BY <2>1, <3>1 DEF Taken
  <2>3. Cardinality(Taken) \in Nat
    BY <2>2, FS_CardinalityType
  <2> QED
    BY <1>6, <2>1, <2>2, <2>3, UploadCount, ContentAssumption
<1>8. ~(Ipfs!Upload \subseteq Taken)
  <2>1. SUFFICES ASSUME Ipfs!Upload \subseteq Taken PROVE FALSE
    OBVIOUS
  <2>2. Cardinality(Ipfs!Upload) <= Cardinality(Taken)
    BY <1>7, <2>1, FS_Subset
  <2> QED
    BY <1>7, <2>2, FS_CardinalityType, UploadCount, ContentAssumption
<1>9. Ipfs!Upload \ Ipfs!Referred # {} /\ Ipfs!Upload \ Ipfs!Referred \subseteq Nat
  BY <1>5, <1>8, UploadCount, ContentAssumption
<1>10. PICK u \in Ipfs!Upload \ Ipfs!Referred :
         \A o \in Ipfs!Upload \ Ipfs!Referred : u <= o
  BY <1>9, Least
<1> QED
  BY <1>10 DEF Ipfs!NewUpload

\* The first version has been uploaded by nobody yet.
LEMMA IpfsInit == Ipfs!Init => IpfsInv
<1> SUFFICES ASSUME Ipfs!Init PROVE IpfsInv
  OBVIOUS
<1> USE ContentAssumption DEF Ipfs!Init, Ipfs!Version, Ipfs!NoVersion, Ipfs!Idle
<1>1. IpfsTypes
  BY DEF IpfsTypes, Notes
<1>2. UploadsOwn /\ ContentsKnown
  BY DEF UploadsOwn, ContentsKnown
<1>3. Ipfs!HashIsOfContent /\ Ipfs!KeyOpensLatest
  BY DEF Ipfs!HashIsOfContent, Ipfs!KeyOpensLatest
<1> QED
  BY <1>1, <1>2, <1>3 DEF IpfsInv

\* Every step of an edit, the queue and an invocation keeps the invariant.
LEMMA IpfsNext == IpfsInv /\ Ipfs!Next => IpfsInv'
<1> SUFFICES ASSUME IpfsInv, Ipfs!Next PROVE IpfsInv'
  OBVIOUS
<1>v. Ipfs!Version = 1..MaxVersions /\ MaxVersions \in Nat /\ MaxVersions > 0
  BY ContentAssumption DEF Ipfs!Version
<1>t. /\ IpfsTypes
      /\ UploadsOwn
      /\ ContentsKnown
      /\ Ipfs!HashIsOfContent
      /\ Ipfs!KeyOpensLatest
  BY DEF IpfsInv
<1>u. Ipfs!Upload \subseteq Nat \ {0}
  BY UploadCount, ContentAssumption
<1>1. ASSUME NEW new \in BOOLEAN, Ipfs!Revise(new) PROVE IpfsInv'
  <2>1. IpfsTypes'
    BY <1>1, <1>v, <1>t, <1>u DEF Ipfs!Revise, Ipfs!Inherited, IpfsTypes, Notes
  <2>2. UploadsOwn'
    BY <1>1, <1>v, <1>t, <1>u
       DEF Ipfs!Revise, Ipfs!Inherited, IpfsTypes, UploadsOwn, Ipfs!Idle
  <2>3. ContentsKnown'
    BY <1>1, <1>v, <1>t, <1>u DEF Ipfs!Revise, Ipfs!Inherited, IpfsTypes, ContentsKnown
  <2>4. Ipfs!HashIsOfContent'
    <3> DEFINE v == lastCopy + 1
               h == copies[lastCopy].hash
    <3>1. /\ v \in 1..MaxVersions /\ lastCopy' = v /\ uploads' = uploads
          /\ copies'[v].hash = h
          /\ copies'[v].content = IF new THEN v ELSE copies[lastCopy].content
          /\ "inherited" \in ipfsPast'[v] <=>
               h # 0 /\ (new \/ "inherited" \in ipfsPast[lastCopy])
          /\ \A x \in Ipfs!Version : x # v =>
               copies'[x] = copies[x] /\ ipfsPast'[x] = ipfsPast[x]
      BY <1>1, <1>v, <1>t DEF Ipfs!Revise, Ipfs!Inherited, IpfsTypes
    <3>2. h # 0 => h \in Ipfs!Upload /\ uploads[h] \in Nat /\ uploads[h] <= lastCopy
      BY <1>v, <1>t DEF IpfsTypes, ContentsKnown
    <3>3. h # 0 =>
            ((uploads[h] # copies[lastCopy].content) = ("inherited" \in ipfsPast[lastCopy]))
      BY <1>v, <1>t DEF IpfsTypes, Ipfs!HashIsOfContent
    <3>4. copies'[v].hash # 0 =>
            ((uploads'[copies'[v].hash] # copies'[v].content) = ("inherited" \in ipfsPast'[v]))
      BY <3>1, <3>2, <3>3, <1>t DEF IpfsTypes, Ipfs!Version
    <3>5. \A x \in 1..lastCopy : x \in Ipfs!Version /\ x # v
      BY <1>v, <1>t DEF IpfsTypes
    <3>6. \A x \in 1..v : x = v \/ x \in 1..lastCopy
      BY <1>v, <1>t DEF IpfsTypes
    <3> HIDE DEF v
    <3> QED
      BY <3>1, <3>4, <3>5, <3>6, <1>t DEF Ipfs!HashIsOfContent
  <2>5. Ipfs!KeyOpensLatest'
    BY <1>1, <1>v, <1>t, <1>u
       DEF Ipfs!Revise, Ipfs!Inherited, IpfsTypes, Ipfs!KeyOpensLatest
  <2> QED
    BY <2>1, <2>2, <2>3, <2>4, <2>5 DEF IpfsInv
<1>2. ASSUME NEW v \in Ipfs!Version, Ipfs!LoseMessage(v) PROVE IpfsInv'
  <2>1. IpfsTypes'
    BY <1>2, <1>v, <1>t, <1>u DEF Ipfs!LoseMessage, IpfsTypes, Notes
  <2>2. UploadsOwn'
    BY <1>2, <1>v, <1>t, <1>u DEF Ipfs!LoseMessage, Ipfs!Idle, UploadsOwn
  <2>3. ContentsKnown'
    BY <1>2, <1>v, <1>t, <1>u DEF Ipfs!LoseMessage, ContentsKnown
  <2>4. Ipfs!HashIsOfContent'
    BY <1>2, <1>v, <1>t, <1>u DEF Ipfs!LoseMessage, Ipfs!HashIsOfContent
  <2>5. Ipfs!KeyOpensLatest'
    BY <1>2, <1>v, <1>t, <1>u DEF Ipfs!LoseMessage, Ipfs!KeyOpensLatest
  <2> QED
    BY <2>1, <2>2, <2>3, <2>4, <2>5 DEF IpfsInv
<1>3. ASSUME NEW w \in Lambda, NEW v \in Ipfs!Version, Ipfs!Receive(w, v) PROVE IpfsInv'
  <2>0. CASE ~Ipfs!Unpublished(v)
    BY <2>0, <1>3, <1>v, <1>t, <1>u
    DEF Ipfs!Receive, IpfsInv, IpfsTypes, UploadsOwn, ContentsKnown, Ipfs!HashIsOfContent,
        Ipfs!KeyOpensLatest
  <2>a. SUFFICES ASSUME Ipfs!Unpublished(v) PROVE IpfsInv'
    BY <2>0
  <2> DEFINE new == [step |-> "upload", version |-> v, upload |-> 0]
  <2>b. /\ uploader' = [uploader EXCEPT ![w] = new] /\ v \in 1..lastCopy
        /\ UNCHANGED <<copies, lastCopy, paywall, secret, uploads, queued, ipfsFaults, ipfsPast>>
    BY <1>3, <2>a, <1>t DEF Ipfs!Receive, IpfsTypes
  <2>c. new \in [step: {"idle", "upload", "retry", "record"},
                version: 0..MaxVersions, upload: {0} \cup Ipfs!Upload]
        /\ new.step = "upload" /\ new.version = v /\ new.upload = 0
    BY <1>v
  <2> HIDE DEF new
  <2>1. IpfsTypes'
    BY <2>b, <2>c, <1>v, <1>t DEF IpfsTypes
  <2>2. UploadsOwn'
    BY <2>b, <2>c, <1>v, <1>t DEF Ipfs!Idle, UploadsOwn
  <2>3. ContentsKnown'
    BY <2>b, <2>c, <1>v, <1>t DEF ContentsKnown
  <2>4. Ipfs!HashIsOfContent'
    BY <2>b, <2>c, <1>v, <1>t DEF Ipfs!HashIsOfContent
  <2>5. Ipfs!KeyOpensLatest'
    BY <2>b, <2>c, <1>v, <1>t DEF Ipfs!KeyOpensLatest
  <2> QED
    BY <2>1, <2>2, <2>3, <2>4, <2>5 DEF IpfsInv
<1>4. ASSUME NEW w \in Lambda, Ipfs!UploadPage(w) PROVE IpfsInv'
  <2>0. Ipfs!NewUpload \in Ipfs!Upload /\ Ipfs!NewUpload \notin Ipfs!Referred
    BY <1>4, <1>t, NewUploadIsFree DEF Ipfs!UploadPage, UploadsOwn
  <2>r. /\ secret \in Ipfs!Referred
        /\ (\A x \in Ipfs!Version : copies[x].hash \in Ipfs!Referred)
        /\ \A x \in Lambda : uploader[x].upload \in Ipfs!Referred
    BY DEF Ipfs!Referred
  <2>1. IpfsTypes'
    BY <1>4, <1>v, <1>t, <1>u, <2>0, <2>r
       DEF Ipfs!UploadPage, IpfsTypes, Notes, UploadsOwn
  <2>2. UploadsOwn'
    BY <1>4, <1>v, <1>t, <1>u, <2>0, <2>r
       DEF Ipfs!UploadPage, IpfsTypes, UploadsOwn, Ipfs!Idle
  <2>3. ContentsKnown'
    BY <1>4, <1>v, <1>t, <1>u, <2>0, <2>r DEF Ipfs!UploadPage, IpfsTypes, ContentsKnown
  <2>4. Ipfs!HashIsOfContent'
    BY <1>4, <1>v, <1>t, <1>u, <2>0, <2>r
       DEF Ipfs!UploadPage, IpfsTypes, Ipfs!HashIsOfContent
  <2>5. Ipfs!KeyOpensLatest'
    BY <1>4, <1>v, <1>t, <1>u, <2>0, <2>r DEF Ipfs!UploadPage, Ipfs!KeyOpensLatest
  <2> QED
    BY <2>1, <2>2, <2>3, <2>4, <2>5 DEF IpfsInv
<1>5. ASSUME NEW w \in Lambda, Ipfs!TimeOut(w) PROVE IpfsInv'
  <2>1. IpfsTypes'
    BY <1>5, <1>v, <1>t, <1>u DEF Ipfs!TimeOut, IpfsTypes
  <2>2. UploadsOwn'
    BY <1>5, <1>v, <1>t, <1>u DEF Ipfs!TimeOut, Ipfs!Idle, UploadsOwn
  <2>3. ContentsKnown'
    BY <1>5, <1>v, <1>t, <1>u DEF Ipfs!TimeOut, ContentsKnown
  <2>4. Ipfs!HashIsOfContent'
    BY <1>5, <1>v, <1>t, <1>u DEF Ipfs!TimeOut, Ipfs!HashIsOfContent
  <2>5. Ipfs!KeyOpensLatest'
    BY <1>5, <1>v, <1>t, <1>u DEF Ipfs!TimeOut, Ipfs!KeyOpensLatest
  <2> QED
    BY <2>1, <2>2, <2>3, <2>4, <2>5 DEF IpfsInv
<1>6. ASSUME NEW w \in Lambda, Ipfs!Record(w) PROVE IpfsInv'
  <2>0. /\ uploader[w].version \in Ipfs!Version /\ uploader[w].upload \in Ipfs!Upload
        /\ Ipfs!Idle \in [step: {"idle", "upload", "retry", "record"},
                          version: 0..MaxVersions, upload: {0} \cup Ipfs!Upload]
    BY <1>6, <1>v, <1>t DEF Ipfs!Record, IpfsTypes, UploadsOwn, Ipfs!Idle
  <2>p. ipfsPast' \in [Ipfs!Version -> SUBSET Notes]
    BY <1>6, <1>v, <1>t DEF Ipfs!Record, IpfsTypes, Notes
  <2>1. IpfsTypes'
    BY <1>6, <1>v, <1>t, <2>0, <2>p
       DEF Ipfs!Record, Ipfs!RecordedFor, Ipfs!KeyOf, IpfsTypes
  <2>2. UploadsOwn'
    BY <1>6, <1>v, <1>t, <1>u
       DEF Ipfs!Record, Ipfs!RecordedFor, Ipfs!KeyOf, Ipfs!Idle, Ipfs!Idle, UploadsOwn
  <2>3. ContentsKnown'
    BY <1>6, <1>v, <1>t, <1>u
       DEF Ipfs!Record, Ipfs!RecordedFor, Ipfs!KeyOf, Ipfs!Idle, ContentsKnown
  <2>4. Ipfs!HashIsOfContent'
    BY <1>6, <1>v, <1>t, <1>u
       DEF Ipfs!Record, Ipfs!RecordedFor, Ipfs!KeyOf, Ipfs!Idle, IpfsTypes, UploadsOwn,
           Ipfs!HashIsOfContent
  <2>5. Ipfs!KeyOpensLatest'
    BY <1>6, <1>v, <1>t, <1>u
       DEF Ipfs!Record, Ipfs!RecordedFor, Ipfs!KeyOf, Ipfs!Idle, IpfsTypes, UploadsOwn,
           Ipfs!KeyOpensLatest
  <2> QED
    BY <2>1, <2>2, <2>3, <2>4, <2>5 DEF IpfsInv
<1>7. ASSUME NEW w \in Lambda, Ipfs!Fail(w) PROVE IpfsInv'
  <2>1. IpfsTypes'
    BY <1>7, <1>v, <1>t, <1>u DEF Ipfs!Fail, Ipfs!Failed, Ipfs!Idle, IpfsTypes
  <2>2. UploadsOwn'
    BY <1>7, <1>v, <1>t, <1>u
       DEF Ipfs!Fail, Ipfs!Failed, Ipfs!Idle, Ipfs!Idle, UploadsOwn
  <2>3. ContentsKnown'
    BY <1>7, <1>v, <1>t, <1>u DEF Ipfs!Fail, Ipfs!Failed, Ipfs!Idle, ContentsKnown
  <2>4. Ipfs!HashIsOfContent'
    BY <1>7, <1>v, <1>t, <1>u
       DEF Ipfs!Fail, Ipfs!Failed, Ipfs!Idle, Ipfs!HashIsOfContent
  <2>5. Ipfs!KeyOpensLatest'
    BY <1>7, <1>v, <1>t, <1>u DEF Ipfs!Fail, Ipfs!Failed, Ipfs!Idle, Ipfs!KeyOpensLatest
  <2> QED
    BY <2>1, <2>2, <2>3, <2>4, <2>5 DEF IpfsInv
<1> QED
  BY <1>1, <1>2, <1>3, <1>4, <1>5, <1>6, <1>7 DEF Ipfs!Next

-----------------------------------------------------------------------------
(* Federation: requests, the event table, the queue and the remote copy.   *)

\* What is sent, recorded, and being asked for.
Sent == {"create", "update", "delete"}
Event == [action: Sent, status: {"queued", "skipped", "failed"}]
Asking == [step: {"idle", "decide", "insert", "send"},
           action: Sent \cup {"none", Fed!OfAuthor}, eligible: BOOLEAN]

FedTypes ==
  /\ post \in [state: {"draft", "active", "archived"}, public: BOOLEAN,
               setting: {"inherit", "enabled", "disabled"}]
  /\ author \in [on: BOOLEAN, archived: BOOLEAN]
  /\ request \in [Request -> Asking]
  /\ events \in Seq(Event)
  /\ copied \in 0..Len(events)
  /\ queue \in Seq(Sent)
  /\ remote \in BOOLEAN /\ twisted \in BOOLEAN /\ silent \in BOOLEAN
  /\ \A r \in Request :
       /\ request[r].step # "idle" => request[r].action # "none"
       /\ request[r].step \in {"insert", "send"} => request[r].action \in Sent

Idling(r) == request[r].step = "idle"

(* What the remote copy will be once the queue is consumed. *)
Exported == IF queue = <<>> THEN remote ELSE queue[Len(queue)] # "delete"

\* The event table tells that the article was exported.
ExportRecorded == \E i \in DOMAIN events :
  events[i].action # "delete" /\ events[i].status = "queued"

(* Without overlaps one request at most is under way, and what was exported,
   or is about to be, is in the table. *)
OneRequest ==
  /\ \A r, s \in Request : ~Idling(r) /\ ~Idling(s) => r = s
  /\ Exported => ExportRecorded
  /\ \A r \in Request : request[r].step = "send" /\ request[r].action # "delete"
       => ExportRecorded

(* The decision a request goes by still stands when it is carried out. *)
DecisionStands ==
  \A r \in Request :
    /\ request[r].step = "insert" /\ request[r].eligible => Fed!IsPublic
    /\ request[r].step = "send" /\ request[r].action # "delete" => Fed!IsPublic

(* A copy the gate no longer allows has somebody at its removal. *)
RemovalUnderWay ==
  /\ Exported => Fed!Eligible \/ \E r \in Request :
       ~Idling(r) /\ request[r].action \in {"delete", Fed!OfAuthor}
  /\ \A r \in Request :
       /\ request[r].step = "insert" /\ request[r].eligible => Fed!Eligible
       /\ request[r].step = "send" /\ request[r].action # "delete" => Fed!Eligible

FedInv ==
  /\ FedTypes
  /\ ~twisted => OneRequest /\ DecisionStands
  /\ ~twisted /\ ~silent => RemovalUnderWay

\* Nothing is published.
LEMMA FedInit == Fed!Init => FedInv
<1> SUFFICES ASSUME Fed!Init PROVE FedInv
  OBVIOUS
<1> USE DEF Fed!Init, Fed!Done
<1>1. FedTypes
  <2>1. author \in [on: BOOLEAN, archived: BOOLEAN] /\ request \in [Request -> Asking]
    BY DEF Asking, Fed!OfAuthor
  <2>2. post \in [state: {"draft", "active", "archived"}, public: BOOLEAN,
                   setting: {"inherit", "enabled", "disabled"}]
    OBVIOUS
  <2>3. events \in Seq(Event) /\ queue \in Seq(Sent) /\ copied \in 0..Len(events)
    OBVIOUS
  <2>4. remote \in BOOLEAN /\ twisted \in BOOLEAN /\ silent \in BOOLEAN
    OBVIOUS
  <2> QED
    BY <2>1, <2>2, <2>3, <2>4 DEF FedTypes
<1>2. OneRequest /\ DecisionStands /\ RemovalUnderWay
  BY DEF OneRequest, DecisionStands, RemovalUnderWay, Exported, ExportRecorded, Idling
<1> QED
  BY <1>1, <1>2 DEF FedInv

\* Every request, the queue and the replica keep the invariant.
LEMMA FedNext == FedInv /\ Fed!Next => FedInv'
<1> SUFFICES ASSUME FedInv, Fed!Next PROVE FedInv'
  OBVIOUS
<1>t. /\ FedTypes
      /\ (~twisted => OneRequest /\ DecisionStands)
      /\ (~twisted /\ ~silent => RemovalUnderWay)
  BY DEF FedInv
<1> USE DEF Fed!Trigger, Fed!Busy, Fed!Done, Fed!OfAuthor, Fed!ShouldQueue
<1>1. ASSUME NEW r \in Request, Fed!Publish(r) PROVE FedInv'
  <2>1. FedTypes'
    BY <1>1, <1>t DEF Fed!Publish, FedTypes, Asking, Sent
  <2>2. ~twisted' => ~twisted
    BY <1>1, <1>t DEF Fed!Publish, FedTypes
  <2>3. ~twisted' => OneRequest'
    BY <1>1, <1>t, <2>2
       DEF Fed!Publish, FedTypes, OneRequest, Exported, ExportRecorded, Idling
  <2>4. ~twisted' => DecisionStands'
    BY <1>1, <1>t, <2>2 DEF Fed!Publish, DecisionStands, Fed!IsPublic
  <2>5. ~twisted' /\ ~silent' => RemovalUnderWay'
    BY <1>1, <1>t, <2>2
       DEF Fed!Publish, FedTypes, RemovalUnderWay, Exported, Fed!IsPublic, Fed!Eligible,
           Idling
  <2> QED
    BY <2>1, <2>3, <2>4, <2>5 DEF FedInv
<1>2. ASSUME NEW r \in Request, Fed!Revise(r) PROVE FedInv'
  <2>1. FedTypes'
    BY <1>2, <1>t DEF Fed!Revise, FedTypes, Asking, Sent
  <2>2. ~twisted' => ~twisted
    BY <1>2, <1>t DEF Fed!Revise, FedTypes
  <2>3. ~twisted' => OneRequest'
    BY <1>2, <1>t, <2>2
       DEF Fed!Revise, FedTypes, OneRequest, Exported, ExportRecorded, Idling
  <2>4. ~twisted' => DecisionStands'
    BY <1>2, <1>t, <2>2 DEF Fed!Revise, DecisionStands, Fed!IsPublic
  <2>5. ~twisted' /\ ~silent' => RemovalUnderWay'
    BY <1>2, <1>t, <2>2
       DEF Fed!Revise, FedTypes, RemovalUnderWay, Exported, Fed!IsPublic, Fed!Eligible,
           Idling
  <2> QED
    BY <2>1, <2>3, <2>4, <2>5 DEF FedInv
<1>3. ASSUME NEW r \in Request, Fed!ArchiveArticle(r) PROVE FedInv'
  <2>1. FedTypes'
    BY <1>3, <1>t DEF Fed!ArchiveArticle, FedTypes, Asking, Sent
  <2>2. ~twisted' => ~twisted
    BY <1>3, <1>t DEF Fed!ArchiveArticle, FedTypes
  <2>3. ~twisted' => OneRequest'
    BY <1>3, <1>t, <2>2
       DEF Fed!ArchiveArticle, FedTypes, OneRequest, Exported, ExportRecorded, Idling
  <2>4. ~twisted' => DecisionStands'
    BY <1>3, <1>t, <2>2
       DEF Fed!ArchiveArticle, FedTypes, OneRequest, DecisionStands, Fed!IsPublic,
           Idling
  <2>5. ~twisted' /\ ~silent' => RemovalUnderWay'
    <3> SUFFICES ASSUME ~twisted' PROVE RemovalUnderWay'
      OBVIOUS
    <3>1. request'[r].step = "decide" /\ request'[r].action = "delete"
      BY <1>3, <1>t DEF Fed!ArchiveArticle, FedTypes, Asking
    <3>2. \A o \in Request : o # r => request'[o].step = "idle"
      BY <1>3, <1>t, <2>2 DEF Fed!ArchiveArticle, FedTypes
    <3> QED
      BY <3>1, <3>2 DEF RemovalUnderWay, Idling
  <2> QED
    BY <2>1, <2>3, <2>4, <2>5 DEF FedInv
<1>4. ASSUME NEW r \in Request, Fed!ChangeAccess(r) PROVE FedInv'
  <2>1. FedTypes'
    BY <1>4, <1>t DEF Fed!ChangeAccess, FedTypes, Asking
  <2>2. ~twisted' => ~twisted
    BY <1>4, <1>t DEF Fed!ChangeAccess, FedTypes
  <2>3. ~twisted' => OneRequest'
    BY <1>4, <1>t, <2>2
       DEF Fed!ChangeAccess, OneRequest, Exported, ExportRecorded, Idling
  <2>4. ~twisted' => DecisionStands'
    BY <1>4, <1>t, <2>2
       DEF Fed!ChangeAccess, FedTypes, OneRequest, DecisionStands, Fed!IsPublic, Idling
  <2>5. ~twisted' /\ ~silent' => RemovalUnderWay'
    BY <1>4, <1>t, <2>2
       DEF Fed!ChangeAccess, RemovalUnderWay, Exported, Fed!IsPublic, Fed!Eligible,
           Idling
  <2> QED
    BY <2>1, <2>3, <2>4, <2>5 DEF FedInv
<1>5. ASSUME NEW r \in Request, Fed!ChangeSilently(r) PROVE FedInv'
  <2>1. FedTypes'
    BY <1>5, <1>t DEF Fed!ChangeSilently, FedTypes, Asking
  <2>2. ~twisted' => ~twisted
    BY <1>5, <1>t DEF Fed!ChangeSilently, FedTypes
  <2>3. ~twisted' => OneRequest'
    BY <1>5, <1>t, <2>2
       DEF Fed!ChangeSilently, OneRequest, Exported, ExportRecorded, Idling
  <2>4. ~twisted' => DecisionStands'
    BY <1>5, <1>t, <2>2
       DEF Fed!ChangeSilently, FedTypes, OneRequest, DecisionStands, Fed!IsPublic,
           Idling
  <2>5. ~twisted' /\ ~silent' => RemovalUnderWay'
    BY <1>5, <1>t, <2>2
       DEF Fed!ChangeSilently, RemovalUnderWay, Exported, Fed!IsPublic, Fed!Eligible,
           Idling
  <2> QED
    BY <2>1, <2>3, <2>4, <2>5 DEF FedInv
<1>6. ASSUME NEW r \in Request, NEW a \in {"inherit", "enabled", "disabled"},
             Fed!SetArticle(r, a)
      PROVE  FedInv'
  <2>1. FedTypes'
    BY <1>6, <1>t DEF Fed!SetArticle, FedTypes, Asking, Sent
  <2>2. ~twisted' => ~twisted
    BY <1>6, <1>t DEF Fed!SetArticle, FedTypes
  <2>3. ~twisted' => OneRequest'
    BY <1>6, <1>t, <2>2
       DEF Fed!SetArticle, FedTypes, OneRequest, Exported, ExportRecorded, Idling
  <2>4. ~twisted' => DecisionStands'
    BY <1>6, <1>t, <2>2 DEF Fed!SetArticle, DecisionStands, Fed!IsPublic
  <2>5. ~twisted' /\ ~silent' => RemovalUnderWay'
    BY <1>6, <1>t, <2>2
       DEF Fed!SetArticle, FedTypes, RemovalUnderWay, Exported, Fed!IsPublic,
           Fed!Eligible, Idling
  <2> QED
    BY <2>1, <2>3, <2>4, <2>5 DEF FedInv
<1>7. ASSUME NEW r \in Request, NEW on \in BOOLEAN, Fed!SetAuthor(r, on) PROVE FedInv'
  <2>1. FedTypes'
    BY <1>7, <1>t DEF Fed!SetAuthor, FedTypes, Asking
  <2>2. ~twisted' => ~twisted
    BY <1>7, <1>t DEF Fed!SetAuthor, FedTypes
  <2>3. ~twisted' => OneRequest'
    BY <1>7, <1>t, <2>2
       DEF Fed!SetAuthor, FedTypes, OneRequest, Exported, ExportRecorded, Idling
  <2>4. ~twisted' => DecisionStands'
    BY <1>7, <1>t, <2>2 DEF Fed!SetAuthor, DecisionStands, Fed!IsPublic
  <2>5. ~twisted' /\ ~silent' => RemovalUnderWay'
    BY <1>7, <1>t, <2>2
       DEF Fed!SetAuthor, FedTypes, RemovalUnderWay, Exported, Fed!IsPublic,
           Fed!Eligible, Idling
  <2> QED
    BY <2>1, <2>3, <2>4, <2>5 DEF FedInv
<1>8. ASSUME NEW r \in Request, Fed!FindExports(r) PROVE FedInv'
  <2> DEFINE known == \E i \in 1..copied :
                       events[i].action # "delete" /\ events[i].status = "queued"
  <2>0. /\ request[r].step = "decide" /\ request[r].action = Fed!OfAuthor
        /\ twisted' = (twisted \/ copied < Len(events))
        /\ UNCHANGED <<post, author, events, copied, queue, remote, toggles, silent>>
    BY <1>8 DEF Fed!FindExports
  <2>a. /\ request' \in [Request -> Asking]
        /\ request'[r].step = (IF known THEN "decide" ELSE "idle")
        /\ known => request'[r].action = "delete"
        /\ \A s \in Request : s # r => request'[s] = request[s]
    BY <1>8, <1>t DEF Fed!FindExports, FedTypes, Asking, Sent
  <2>1. FedTypes'
    BY <2>0, <2>a, <1>t DEF FedTypes
  <2>b. ~twisted' => ~twisted /\ (ExportRecorded => known)
    <3>1. /\ DOMAIN events = 1..Len(events)
          /\ Len(events) \in Nat
          /\ copied \in 0..Len(events)
      BY <1>t DEF FedTypes
    <3>2. ~(copied < Len(events)) => copied = Len(events)
      <4>1. Len(events) \in Nat /\ copied \in 0..Len(events)
        BY <3>1
      <4>2. \A m \in Nat : \A n \in 0..m : ~(n < m) => n = m
        OBVIOUS
      <4> QED
        BY <4>1, <4>2
    <3>3. ~twisted' => ~twisted /\ ~(copied < Len(events))
      BY <2>0, Zenon
    <3> QED
      BY <3>1, <3>2, <3>3 DEF ExportRecorded
  <2>3. ~twisted' => OneRequest'
    BY <2>0, <2>a, <2>b, <1>t DEF OneRequest, Exported, ExportRecorded, Idling
  <2>4. ~twisted' => DecisionStands'
    BY <2>0, <2>a, <2>b, <1>t DEF DecisionStands, Fed!IsPublic
  <2>5. ~twisted' /\ ~silent' => RemovalUnderWay'
    <3> SUFFICES ASSUME ~twisted', ~silent' PROVE RemovalUnderWay'
      OBVIOUS
    <3>1. Exported' = Exported /\ Fed!Eligible' = Fed!Eligible
      BY <2>0 DEF Exported, Fed!Eligible, Fed!IsPublic
    <3>2. Exported => known
      BY <2>b, <1>t DEF OneRequest
    <3>3. Exported' => Fed!Eligible' \/ \E s \in Request :
            ~Idling(s)' /\ request'[s].action \in {"delete", Fed!OfAuthor}
      BY <2>a, <3>1, <3>2 DEF Idling
    <3> HIDE DEF known
    <3> QED
      BY <2>0, <2>a, <2>b, <3>1, <3>3, <1>t DEF RemovalUnderWay, Idling
  <2> QED
    BY <2>1, <2>3, <2>4, <2>5 DEF FedInv
<1>9. ASSUME NEW r \in Request, Fed!Decide(r) PROVE FedInv'
  <2>0. /\ request[r].step = "decide" /\ request[r].action # Fed!OfAuthor
        /\ UNCHANGED <<post, author, events, copied, queue, remote, toggles, twisted, silent>>
    BY <1>9 DEF Fed!Decide
  <2>e. /\ Fed!Eligible \in BOOLEAN
        /\ Fed!Eligible' = Fed!Eligible
        /\ Fed!IsPublic' = Fed!IsPublic
        /\ (Fed!Eligible => Fed!IsPublic)
    BY <2>0, <1>t DEF Fed!Eligible, Fed!IsPublic, FedTypes
  <2>a. /\ request' \in [Request -> Asking]
        /\ request'[r].step = "insert" /\ request'[r].action = request[r].action
        /\ request'[r].eligible = Fed!Eligible
        /\ \A s \in Request : s # r => request'[s] = request[s]
    BY <1>9, <2>e, <1>t DEF Fed!Decide, FedTypes, Asking
  <2>b. request[r].action \in Sent
    BY <2>0, <1>t DEF FedTypes, Asking, Sent
  <2>1. FedTypes'
    BY <2>0, <2>a, <2>b, <1>t DEF FedTypes
  <2>3. ~twisted' => OneRequest'
    BY <2>0, <2>a, <1>t DEF OneRequest, Exported, ExportRecorded, Idling
  <2>4. ~twisted' => DecisionStands'
    BY <2>0, <2>a, <2>e, <1>t DEF DecisionStands
  <2>5. ~twisted' /\ ~silent' => RemovalUnderWay'
    <3>1. Exported' = Exported
      BY <2>0 DEF Exported
    <3> QED
      BY <2>0, <2>a, <2>e, <3>1, <1>t DEF RemovalUnderWay, Idling
  <2> QED
    BY <2>1, <2>3, <2>4, <2>5 DEF FedInv
<1>10. ASSUME NEW r \in Request, Fed!InsertEvent(r) PROVE FedInv'
  <2> DEFINE d == request[r]
             queues == d.eligible \/ d.action = "delete"
             e == [action |-> d.action, status |-> IF queues THEN "queued" ELSE "skipped"]
  <2>0. /\ d.step = "insert" /\ events' = Append(events, e)
        /\ UNCHANGED <<post, author, copied, queue, remote, toggles, twisted, silent>>
    BY <1>10 DEF Fed!InsertEvent
  <2>a. /\ request' \in [Request -> Asking]
        /\ request'[r].step = (IF queues THEN "send" ELSE "idle")
        /\ queues => request'[r].action = d.action /\ request'[r].eligible = d.eligible
        /\ \A s \in Request : s # r => request'[s] = request[s]
    BY <1>10, <1>t DEF Fed!InsertEvent, FedTypes, Asking
  <2>b. d.action \in Sent /\ e \in Event
    BY <2>0, <1>t DEF FedTypes, Event
  <2> HIDE DEF e
  <2>c. /\ events' \in Seq(Event) /\ Len(events') = Len(events) + 1
        /\ events'[Len(events) + 1] = e
        /\ \A i \in 1..Len(events) : events'[i] = events[i]
        /\ Len(events) \in Nat
    BY <2>0, <2>b, <1>t DEF FedTypes
  <2>1. FedTypes'
    <3>1. copied' \in 0..Len(events')
      BY <2>0, <2>c, <1>t DEF FedTypes
    <3>2. \A s \in Request :
            /\ request'[s].step # "idle" => request'[s].action # "none"
            /\ request'[s].step \in {"insert", "send"} => request'[s].action \in Sent
      BY <2>a, <2>b, <1>t DEF FedTypes, Sent
    <3> QED
      BY <2>0, <2>a, <2>c, <3>1, <3>2, <1>t DEF FedTypes
  <2>d. /\ ExportRecorded => ExportRecorded'
        /\ queues /\ d.action # "delete" => ExportRecorded'
    <3>1. DOMAIN events = 1..Len(events) /\ DOMAIN events' = 1..Len(events')
      BY <2>c, <1>t DEF FedTypes
    <3>2. ExportRecorded => ExportRecorded'
      BY <2>c, <3>1 DEF ExportRecorded
    <3>3. queues /\ d.action # "delete" => ExportRecorded'
      BY <2>c, <3>1 DEF ExportRecorded, e
    <3> QED
      BY <3>2, <3>3
  <2>3. ~twisted' => OneRequest'
    <3>1. Exported' = Exported
      BY <2>0 DEF Exported
    <3> QED
      BY <2>0, <2>a, <2>d, <3>1, <1>t DEF OneRequest, Idling
  <2>4. ~twisted' => DecisionStands'
    <3>1. Fed!IsPublic' = Fed!IsPublic
      BY <2>0 DEF Fed!IsPublic
    <3> QED
      BY <2>0, <2>a, <3>1, <1>t DEF DecisionStands
  <2>5. ~twisted' /\ ~silent' => RemovalUnderWay'
    <3> SUFFICES ASSUME ~twisted', ~silent' PROVE RemovalUnderWay'
      OBVIOUS
    <3>1. Exported' = Exported /\ Fed!Eligible' = Fed!Eligible
      BY <2>0 DEF Exported, Fed!Eligible, Fed!IsPublic
    <3>2. /\ d.eligible => Fed!Eligible
          /\ Exported => Fed!Eligible \/ queues
      BY <2>0, <2>b, <1>t DEF OneRequest, RemovalUnderWay, Idling, Sent
    <3>3. Exported /\ ~Fed!Eligible => d.action = "delete"
      BY <3>2
    <3> QED
      BY <2>0, <2>a, <3>1, <3>2, <3>3, <1>t DEF RemovalUnderWay, Idling
  <2> QED
    BY <2>1, <2>3, <2>4, <2>5 DEF FedInv
<1>11. ASSUME NEW r \in Request, Fed!SendMessage(r) PROVE FedInv'
  <2>0. /\ request[r].step = "send" /\ queue' = Append(queue, request[r].action)
        /\ UNCHANGED <<post, author, events, copied, remote, toggles, twisted, silent>>
    BY <1>11 DEF Fed!SendMessage
  <2>a. /\ request' \in [Request -> Asking]
        /\ request'[r].step = "idle"
        /\ \A s \in Request : s # r => request'[s] = request[s]
    BY <1>11, <1>t DEF Fed!SendMessage, FedTypes, Asking
  <2>b. request[r].action \in Sent
    BY <2>0, <1>t DEF FedTypes
  <2>c. queue' \in Seq(Sent) /\ (Exported' <=> request[r].action # "delete")
    BY <2>0, <2>b, <1>t DEF FedTypes, Exported
  <2>1. FedTypes'
    BY <2>0, <2>a, <2>c, <1>t DEF FedTypes
  <2>3. ~twisted' => OneRequest'
    <3>1. ExportRecorded' = ExportRecorded
      BY <2>0 DEF ExportRecorded
    <3> QED
      BY <2>0, <2>a, <2>c, <3>1, <1>t DEF OneRequest, Idling
  <2>4. ~twisted' => DecisionStands'
    <3>1. Fed!IsPublic' = Fed!IsPublic
      BY <2>0 DEF Fed!IsPublic
    <3> QED
      BY <2>0, <2>a, <3>1, <1>t DEF DecisionStands
  <2>5. ~twisted' /\ ~silent' => RemovalUnderWay'
    <3>1. Fed!Eligible' = Fed!Eligible
      BY <2>0 DEF Fed!Eligible, Fed!IsPublic
    <3> QED
      BY <2>0, <2>a, <2>c, <3>1, <1>t DEF RemovalUnderWay, Idling
  <2> QED
    BY <2>1, <2>3, <2>4, <2>5 DEF FedInv
<1>12. ASSUME NEW r \in Request, Fed!CutOff(r) PROVE FedInv'
  <2>1. twisted'
    BY <1>12 DEF Fed!CutOff
  <2>2. events' \in Seq(Event) /\ Len(events') = Len(events)
    <3>1. ASSUME NEW i \in DOMAIN events, events' = [events EXCEPT ![i].status = "failed"]
          PROVE  events' \in Seq(Event) /\ Len(events') = Len(events)
      <4>0. events[i] \in Event
        BY <1>t DEF FedTypes
      <4>1. [events[i] EXCEPT !.status = "failed"] \in Event
        BY <4>0 DEF Event
      <4> QED
        BY <1>t, <3>1, <4>1 DEF FedTypes
    <3> QED
      BY <1>12, <1>t, <3>1 DEF Fed!CutOff, FedTypes
  <2>3. request' \in [Request -> Asking] /\ request'[r].step = "idle"
        /\ \A s \in Request : s # r => request'[s] = request[s]
    BY <1>12, <1>t DEF Fed!CutOff, FedTypes, Asking
  <2> QED
    BY <1>12, <1>t, <2>1, <2>2, <2>3 DEF Fed!CutOff, FedInv, FedTypes
<1>13. CASE Fed!Replicate
  <2>1. FedTypes'
    BY <1>13, <1>t DEF Fed!Replicate, FedTypes
  <2>2. (OneRequest' <=> OneRequest) /\ (DecisionStands' <=> DecisionStands)
        /\ (RemovalUnderWay' <=> RemovalUnderWay)
    BY <1>13 DEF Fed!Replicate, OneRequest, DecisionStands, RemovalUnderWay, Exported,
       ExportRecorded, Fed!IsPublic, Fed!Eligible, Idling
  <2> QED
    BY <1>13, <1>t, <2>1, <2>2 DEF Fed!Replicate, FedInv
<1>14. CASE Fed!Consume
  <2>0. queue # <<>> /\ remote' = (Head(queue) # "delete") /\ queue' = Tail(queue)
        /\ UNCHANGED <<post, author, request, events, copied, toggles, twisted, silent>>
    BY <1>14 DEF Fed!Consume
  <2>1. FedTypes'
    BY <2>0, <1>t DEF FedTypes
  <2>2. Exported' = Exported
    <3>1. /\ queue \in Seq(Sent)
          /\ queue' \in Seq(Sent)
          /\ Len(queue) \in Nat
          /\ Len(queue) > 0
      BY <2>0, <1>t DEF FedTypes
    <3>2. \A q \in Seq(Sent) : q = <<>> <=> Len(q) = 0
      OBVIOUS
    <3>3. /\ Len(queue') = Len(queue) - 1 /\ Head(queue) = queue[1]
          /\ \A i \in 1..Len(queue') : queue'[i] = queue[i + 1]
      BY <2>0, <3>1
    <3>4. CASE queue' = <<>>
      <4>1. Len(queue) = 1
        BY <3>1, <3>2, <3>3, <3>4
      <4> QED
        BY <2>0, <3>3, <3>4, <4>1 DEF Exported
    <3>5. CASE queue' # <<>>
      <4>1. Len(queue') \in 1..Len(queue')
        BY <3>1, <3>2, <3>5
      <4>2. queue'[Len(queue')] = queue[Len(queue)]
        BY <3>1, <3>3, <4>1
      <4> QED
        BY <2>0, <3>5, <4>2 DEF Exported
    <3> QED
      BY <3>4, <3>5
  <2>3. (OneRequest' <=> OneRequest) /\ (DecisionStands' <=> DecisionStands)
        /\ (RemovalUnderWay' <=> RemovalUnderWay)
    BY <2>0, <2>2 DEF OneRequest, DecisionStands, RemovalUnderWay,
       ExportRecorded, Fed!IsPublic, Fed!Eligible, Idling
  <2> QED
    BY <2>0, <1>t, <2>1, <2>3 DEF FedInv
<1> QED
  BY <1>1, <1>2, <1>3, <1>4, <1>5, <1>6, <1>7, <1>8, <1>9, <1>10, <1>11, <1>12, <1>13,
     <1>14
     DEF Fed!Next

\* An export was decided by a gate that an archived article does not pass.
LEMMA FedRemoval ==
  FedInv /\ Fed!Next =>
    (post.state = "archived" /\ ~twisted /\ Len(queue') > Len(queue)
       => Fed!Last(queue') = "delete")
<1> SUFFICES ASSUME FedInv, Fed!Next,
                    post.state = "archived", ~twisted, Len(queue') > Len(queue)
             PROVE  Fed!Last(queue') = "delete"
  OBVIOUS
<1>1. queue \in Seq(Sent)
  BY DEF FedInv, FedTypes
<1>2. PICK r \in Request : Fed!SendMessage(r)
  <2>1. (\E r \in Request : Fed!SendMessage(r)) \/ queue' = queue \/ Fed!Consume
    BY DEF Fed!Next, Fed!Publish, Fed!Revise, Fed!ArchiveArticle, Fed!ChangeAccess,
       Fed!ChangeSilently, Fed!SetArticle, Fed!SetAuthor, Fed!FindExports, Fed!Decide,
       Fed!InsertEvent, Fed!CutOff, Fed!Replicate, Fed!Trigger
  <2>2. Fed!Consume => Len(queue') <= Len(queue)
    BY <1>1 DEF Fed!Consume
  <2>3. Len(queue) \in Nat /\ (queue' = queue => Len(queue') = Len(queue))
    BY <1>1
  <2>4. Len(queue') > Len(queue)
    OBVIOUS
  <2>5. Fed!Consume => Len(queue') \in Nat
    BY <1>1 DEF Fed!Consume
  <2> QED
    BY <2>1, <2>2, <2>3, <2>4, <2>5
<1>3. request[r].action = "delete"
  BY <1>2 DEF Fed!SendMessage, FedInv, DecisionStands, Fed!IsPublic
<1> QED
  BY <1>1, <1>2, <1>3 DEF Fed!SendMessage, Fed!Last

\* At rest there is no removal under way, so the copy is allowed.
LEMMA FedEligible == FedInv => Fed!CopyIsEligible
BY DEF FedInv, RemovalUnderWay, Fed!CopyIsEligible, Fed!Busy, Exported, Idling

-----------------------------------------------------------------------------
(* Revision: edits of an article and the mentions they make.               *)

\* A version, and a request between loading one and counting its own.
Version == [title: Title, people: SUBSET Person]
Edit == [step: {"idle", "write", "count"}, base: Nat, count: Nat,
         title: Rev!Changes(Title), people: Rev!Changes(SUBSET Person)]

RevTypes ==
  /\ article \in [active: BOOLEAN, count: Nat]
  /\ versions \in Seq(Version) /\ Len(versions) > 0
  /\ editing \in [Editing -> Edit]
  /\ noticed \in [Person -> Nat]
  /\ muddled \in BOOLEAN
  /\ \A e \in Editing : editing[e].step # "idle" => editing[e].base \in 1..Len(versions)

\* A request has written its version and not counted it yet.
Counting == \E e \in Editing : editing[e].step = "count"

(* No request goes on beyond the limit. *)
UnderLimit ==
  /\ article.count <= MaxRevisions
  /\ \A e \in Editing : editing[e].step # "idle" => editing[e].count + 1 <= MaxRevisions

(* Without overlaps the request under way goes by the latest version and the
   number of revisions there is, and a job is for two versions in a row. *)
InTurn ==
  ~muddled =>
    /\ \A e, o \in Editing : editing[e].step # "idle" /\ editing[o].step # "idle" => e = o
    /\ \A e \in Editing :
         /\ editing[e].step # "idle" => editing[e].count = article.count
         /\ editing[e].step = "write" => editing[e].base = Len(versions)
         /\ editing[e].step = "count" =>
              /\ editing[e].base = Len(versions) - 1
              /\ versions[Len(versions)] =
                   Rev!NextVersion(editing[e], versions[editing[e].base])
    /\ article.count = IF Counting THEN Len(versions) - 2 ELSE Len(versions) - 1
    /\ \A j \in published :
         /\ j = [old |-> j.new - 1, new |-> j.new] /\ j.new \in 2..Len(versions)
         /\ Counting => j.new < Len(versions)

(* The versions that newly mention p, and those whose job is over. *)
MentionsAt(p) == {i \in 2..Len(versions) :
                    p \in versions[i].people /\ p \notin versions[i - 1].people}
Settled(p) == {i \in MentionsAt(p) :
                 (\A j \in published : j.new # i) /\ (Counting => i < Len(versions))}

\* A mention was told at most once for each version that makes it.
ToldWhenSettled == ~muddled => \A p \in Person : noticed[p] <= Cardinality(Settled(p))

RevInv == RevTypes /\ UnderLimit /\ InTurn /\ ToldWhenSettled

\* The versions that mention somebody can be counted.
LEMMA SettledFinite ==
  ASSUME RevTypes, NEW p
  PROVE  /\ IsFiniteSet(MentionsAt(p)) /\ IsFiniteSet(Settled(p))
         /\ Cardinality(MentionsAt(p)) \in Nat /\ Cardinality(Settled(p)) \in Nat
         /\ Cardinality(Settled(p)) <= Cardinality(MentionsAt(p))
<1>1. IsFiniteSet(2..Len(versions))
  BY FS_Interval DEF RevTypes
<1>2. MentionsAt(p) \in SUBSET (2..Len(versions)) /\ Settled(p) \in SUBSET MentionsAt(p)
  BY DEF MentionsAt, Settled
<1>3. IsFiniteSet(MentionsAt(p))
  BY <1>1, <1>2, FS_Subset
<1> QED
  BY <1>2, <1>3, FS_Subset, FS_CardinalityType

\* One version, no edits.
LEMMA RevInit == Rev!Init => RevInv
<1> SUFFICES ASSUME Rev!Init PROVE RevInv
  OBVIOUS
<1>1. PICK t \in Title : versions = <<[title |-> t, people |-> {}]>>
  BY DEF Rev!Init
<1>2. /\ article = [active |-> TRUE, count |-> 0] /\ published = {} /\ muddled = FALSE
      /\ noticed = [p \in Person |-> 0] /\ editing = [e \in Editing |-> Rev!Nothing]
  BY DEF Rev!Init
<1>3. Rev!Nothing \in Edit /\ Rev!Nothing.step = "idle"
  BY DEF Rev!Nothing, Edit, Rev!Changes
<1>4. \A e \in Editing : editing[e].step = "idle"
  BY <1>2, <1>3
<1>5. versions \in Seq(Version) /\ Len(versions) = 1
  BY <1>1 DEF Version
<1>6. article \in [active: BOOLEAN, count: Nat] /\ article.count = 0
  BY <1>2
<1>7. RevTypes
  <2>1. /\ muddled \in BOOLEAN
        /\ noticed \in [Person -> Nat]
        /\ editing \in [Editing -> Edit]
    BY <1>2, <1>3
  <2> QED
    BY <1>4, <1>5, <1>6, <2>1 DEF RevTypes
<1>8. UnderLimit
  BY <1>4, <1>6, ContentAssumption DEF UnderLimit
<1>9. InTurn
  BY <1>2, <1>4, <1>5, <1>6 DEF InTurn, Counting
<1>10. ToldWhenSettled
  BY <1>2, <1>7, SettledFinite DEF ToldWhenSettled
<1> QED
  BY <1>7, <1>8, <1>9, <1>10 DEF RevInv

\* An edit keeps what it was not given.
LEMMA NextVersionType ==
  ASSUME NEW r \in Edit, NEW v \in Version
  PROVE  /\ Rev!NextVersion(r, v) \in Version
         /\ r.title = {} => Rev!NextVersion(r, v).title = v.title
         /\ r.people = {} => Rev!NextVersion(r, v).people = v.people
         /\ Rev!NextVersion(r, v).people = Rev!Given(r.people, v.people)
<1>1. \A x : Rev!Given({x}, v.title) = x /\ Rev!Given({x}, v.people) = x
  BY DEF Rev!Given
<1>2. Rev!Given({}, v.title) = v.title /\ Rev!Given({}, v.people) = v.people
  BY DEF Rev!Given
<1>a. v.title \in Title /\ v.people \in SUBSET Person
  BY DEF Version
<1>b. r.title = {} \/ \E x \in Title : r.title = {x}
  BY DEF Edit, Rev!Changes
<1>c. r.people = {} \/ \E x \in SUBSET Person : r.people = {x}
  BY DEF Edit, Rev!Changes
<1>3. Rev!Given(r.title, v.title) \in Title
  BY <1>1, <1>2, <1>a, <1>b
<1>4. Rev!Given(r.people, v.people) \in SUBSET Person
  BY <1>1, <1>2, <1>a, <1>c
<1> QED
  BY <1>2, <1>3, <1>4 DEF Rev!NextVersion, Version

\* Every step of an edit and the job keeps the invariant.
LEMMA RevNext == RevInv /\ Rev!Next => RevInv'
<1> SUFFICES ASSUME RevInv, Rev!Next PROVE RevInv'
  OBVIOUS
<1>t. RevTypes /\ UnderLimit /\ InTurn /\ ToldWhenSettled /\ Len(versions) \in Nat
  BY DEF RevInv, RevTypes
<1>1. ASSUME NEW e \in Editing, NEW t \in Rev!Changes(Title),
             NEW ps \in Rev!Changes(SUBSET Person),
             Rev!LoadArticle(e, t, ps)
      PROVE  RevInv'
  <2> DEFINE r == [step |-> "write", base |-> Rev!Latest, count |-> article.count,
                   title |-> t, people |-> ps]
  <2>0. /\ editing[e].step = "idle" /\ article.count + 1 <= MaxRevisions
        /\ editing' = [editing EXCEPT ![e] = r]
        /\ muddled' = (muddled \/ \E o \in Editing : editing[o].step # "idle")
        /\ UNCHANGED <<article, versions, published, noticed>>
    BY <1>1 DEF Rev!LoadArticle, Rev!Under
  <2>1. /\ r \in Edit
        /\ r.step = "write"
        /\ r.base = Len(versions)
        /\ r.count = article.count
    BY <1>t DEF Edit, RevTypes, Rev!Latest
  <2> HIDE DEF r
  <2>2. editing' \in [Editing -> Edit] /\ editing'[e] = r
        /\ \A o \in Editing : o # e => editing'[o] = editing[o]
    BY <2>0, <2>1, <1>t DEF RevTypes
  <2>3. RevTypes'
    <3>1. muddled' \in BOOLEAN
      BY <2>0
    <3> QED
      BY <2>0, <2>1, <2>2, <3>1, <1>t DEF RevTypes
  <2>4. UnderLimit'
    BY <2>0, <2>1, <2>2, <1>t DEF UnderLimit
  <2>5. ~muddled' => ~muddled /\ \A o \in Editing : editing[o].step = "idle"
    BY <2>0
  <2>6. ~muddled' => ~Counting /\ ~Counting'
    BY <2>1, <2>2, <2>5 DEF Counting
  <2>7. InTurn'
    BY <2>0, <2>1, <2>2, <2>5, <2>6, <1>t DEF InTurn
  <2>8. ToldWhenSettled'
    <3> SUFFICES ASSUME ~muddled', NEW p \in Person
                 PROVE  noticed'[p] <= Cardinality(Settled(p)')
      BY DEF ToldWhenSettled
    <3>1. MentionsAt(p)' = MentionsAt(p)
      BY <2>0 DEF MentionsAt
    <3>2. Settled(p)' = Settled(p)
      BY <2>0, <2>6, <3>1 DEF Settled
    <3> QED
      BY <2>0, <2>5, <3>2, <1>t DEF ToldWhenSettled
  <2> QED
    BY <2>3, <2>4, <2>7, <2>8 DEF RevInv
<1>2. ASSUME NEW e \in Editing, Rev!WriteVersion(e) PROVE RevInv'
  <2> DEFINE r == editing[e]
             v == Rev!NextVersion(r, versions[r.base])
             r1 == [r EXCEPT !.step = "count"]
             n == Len(versions)
  <2>0. /\ r.step = "write" /\ versions' = Append(versions, v)
        /\ editing' = [editing EXCEPT ![e] = r1]
        /\ UNCHANGED <<article, published, noticed, edits, muddled>>
    BY <1>2 DEF Rev!WriteVersion
  <2>a. r \in Edit /\ r.base \in 1..n /\ versions[r.base] \in Version
    BY <2>0, <1>t DEF RevTypes
  <2>1. v \in Version
    BY <2>a, NextVersionType
  <2>2. /\ r1 \in Edit /\ r1.step = "count" /\ r1.base = r.base /\ r1.count = r.count
        /\ r1.title = r.title /\ r1.people = r.people
    BY <2>a DEF Edit
  <2>b. \A x : Rev!NextVersion(r1, x) = Rev!NextVersion(r, x)
    BY <2>2 DEF Rev!NextVersion
  <2> HIDE DEF v, r1
  <2>3. /\ versions' \in Seq(Version) /\ Len(versions') = n + 1 /\ versions'[n + 1] = v
        /\ \A i \in 1..n : versions'[i] = versions[i]
    BY <2>0, <2>1, <1>t DEF RevTypes
  <2>4. editing' \in [Editing -> Edit] /\ editing'[e] = r1
        /\ \A o \in Editing : o # e => editing'[o] = editing[o]
    BY <2>0, <2>2, <1>t DEF RevTypes
  <2>5. RevTypes'
    BY <2>0, <2>2, <2>3, <2>4, <1>t DEF RevTypes
  <2>6. UnderLimit'
    BY <2>0, <2>2, <2>4, <1>t DEF UnderLimit
  <2>7. ~muddled' => ~muddled /\ ~Counting /\ Counting'
                     /\ \A o \in Editing : o # e => editing[o].step = "idle"
    BY <2>0, <2>2, <2>4, <1>t DEF InTurn, Counting
  <2>8. ~muddled' => r.base = n /\ r.count = article.count /\ article.count = n - 1
    BY <2>0, <2>7, <1>t DEF InTurn
  <2>9. InTurn'
    <3> SUFFICES ASSUME ~muddled' PROVE InTurn'
      BY DEF InTurn
    <3>1. versions'[Len(versions')] = Rev!NextVersion(editing'[e], versions'[editing'[e].base])
      BY <2>2, <2>3, <2>4, <2>b, <2>a DEF v
    <3>2. \A o \in Editing : o # e => editing'[o].step = "idle"
      BY <2>4, <2>7
    <3>3. \A j \in published' :
             j = [old |-> j.new - 1, new |-> j.new] /\ j.new \in 2..Len(versions') /\ j.new < Len(versions')
      BY <2>0, <2>3, <2>7, <1>t DEF InTurn
    <3> QED
      <4>1. \A o \in Editing : editing'[o].step # "idle" => o = e
        BY <3>2
      <4>2. /\ editing'[e].step = "count" /\ editing'[e].count = article'.count
            /\ editing'[e].base = Len(versions') - 1
        BY <2>0, <2>2, <2>3, <2>4, <2>8, <1>t
      <4>3. article'.count = Len(versions') - 2
        BY <2>0, <2>3, <2>8, <1>t
      <4> QED
        BY <2>7, <3>1, <3>3, <4>1, <4>2, <4>3 DEF InTurn
  <2>10. ToldWhenSettled'
    <3> SUFFICES ASSUME ~muddled', NEW p \in Person
                 PROVE  noticed'[p] <= Cardinality(Settled(p)')
      BY DEF ToldWhenSettled
    <3>1. \A i \in 2..n : i \in MentionsAt(p)' <=> i \in MentionsAt(p)
      BY <2>3, <1>t DEF MentionsAt
    <3>2. Settled(p)' = Settled(p)
      <4>1. \A i : i \in Settled(p)' => i \in 2..n
        BY <2>3, <2>7, <1>t DEF Settled, MentionsAt
      <4>2. \A i : i \in Settled(p) => i \in 2..n
        BY DEF Settled, MentionsAt
      <4>3. \A i \in 2..n : i \in Settled(p)' <=> i \in Settled(p)
        BY <2>0, <2>3, <2>7, <3>1, <1>t DEF Settled
      <4> QED
        BY <4>1, <4>2, <4>3
    <3> QED
      BY <2>0, <2>7, <3>2, <1>t DEF ToldWhenSettled
  <2> QED
    BY <2>5, <2>6, <2>9, <2>10 DEF RevInv
<1>3. ASSUME NEW e \in Editing, Rev!WriteCount(e) PROVE RevInv'
  <2> DEFINE r == editing[e]
             old == versions[r.base]
             v == Rev!NextVersion(r, old)
             new == CHOOSE i \in DOMAIN versions : i > r.base /\ versions[i] = v
             job == [old |-> r.base, new |-> new]
             n == Len(versions)
  <2>0. /\ r.step = "count"
        /\ article' = [article EXCEPT !.count = r.count + 1]
        /\ published' = (IF Rev!Given(r.people, old.people) # old.people
                         THEN published \cup {job} ELSE published)
        /\ editing' = [editing EXCEPT ![e] = Rev!Nothing]
        /\ UNCHANGED <<versions, noticed, edits, muddled>>
    BY <1>3 DEF Rev!WriteCount
  <2>a. r \in Edit /\ r.base \in 1..n /\ old \in Version
    BY <2>0, <1>t DEF RevTypes
  <2>1. Rev!Nothing \in Edit /\ Rev!Nothing.step = "idle"
    BY DEF Rev!Nothing, Edit, Rev!Changes
  <2>2. /\ editing' \in [Editing -> Edit] /\ editing'[e].step = "idle"
        /\ \A o \in Editing : o # e => editing'[o] = editing[o]
    BY <2>0, <2>1, <1>t DEF RevTypes
  <2>3. /\ article' \in [active: BOOLEAN, count: Nat] /\ article'.count = r.count + 1
    BY <2>0, <2>a, <1>t DEF RevTypes, Edit
  <2>4. UnderLimit'
    BY <2>0, <2>2, <2>3, <1>t DEF UnderLimit
  <2>5. ~muddled' => ~muddled /\ Counting /\ ~Counting'
                     /\ \A o \in Editing : o # e => editing[o].step = "idle"
    BY <2>0, <2>2, <1>t DEF InTurn, Counting
  <2>6. ~muddled' => /\ r.base = n - 1 /\ r.count = article.count /\ article.count = n - 2
                     /\ versions[n] = v
    BY <2>0, <2>5, <1>t DEF InTurn
  <2>7. ~muddled' => new = n
    <3>1. SUFFICES ASSUME ~muddled' PROVE new = n
      OBVIOUS
    <3>2. n \in DOMAIN versions /\ n > r.base /\ versions[n] = v
      BY <2>6, <3>1, <1>t DEF RevTypes
    <3>3. new \in DOMAIN versions /\ new > r.base
      BY <3>2
    <3>4. DOMAIN versions = 1..n
      BY <1>t DEF RevTypes
    <3> HIDE DEF new
    <3> QED
      BY <2>6, <3>1, <3>3, <3>4, <1>t
  <2>8. ~muddled' => InTurn' 
    <3> SUFFICES ASSUME ~muddled' PROVE InTurn'
      OBVIOUS
    <3> HIDE DEF new
    <3>1. job = [old |-> job.new - 1, new |-> job.new] /\ job.new = n /\ n \in 2..n
      BY <2>6, <2>7, <2>a, <1>t
    <3> HIDE DEF job
    <3>2. \A j \in published' :
             j = [old |-> j.new - 1, new |-> j.new] /\ j.new \in 2..Len(versions')
      BY <2>0, <2>5, <3>1, <1>t DEF InTurn
    <3>3. \A o \in Editing : editing'[o].step = "idle"
      BY <2>2, <2>5
    <3>4. article'.count = n - 1
      BY <2>3, <2>6, <1>t
    <3> QED
      BY <2>0, <2>5, <3>2, <3>3, <3>4 DEF InTurn
  <2>9. InTurn'
    BY <2>8 DEF InTurn
  <2>10. RevTypes'
    BY <2>0, <2>2, <2>3, <1>t DEF RevTypes
  <2>11. ToldWhenSettled'
    <3> SUFFICES ASSUME ~muddled', NEW p \in Person
                 PROVE  noticed'[p] <= Cardinality(Settled(p)')
      BY DEF ToldWhenSettled
    <3> HIDE DEF new
    <3>1. MentionsAt(p)' = MentionsAt(p)
      BY <2>0 DEF MentionsAt
    <3>2. CASE Rev!Given(r.people, old.people) # old.people
      <4>1. published' = published \cup {job} /\ job.new = n
        BY <2>0, <2>7, <3>2
      <4>a. \A i \in MentionsAt(p) : i < n <=> i # n
        BY <1>t DEF MentionsAt
      <4>2. \A i : i \in Settled(p)' <=> i \in Settled(p)
        BY <2>0, <2>5, <3>1, <4>1, <4>a DEF Settled
      <4>3. Settled(p)' = Settled(p)
        BY <4>2
      <4> QED
        BY <2>0, <2>5, <4>3, <1>t DEF ToldWhenSettled
    <3>3. CASE Rev!Given(r.people, old.people) = old.people
      <4>1. published' = published
        BY <2>0, <3>3
      <4>2. versions[n].people = versions[n - 1].people
        BY <2>6, <2>a, <2>5, <3>3, NextVersionType
      <4>3. n \notin MentionsAt(p)
        BY <4>2 DEF MentionsAt
      <4>a. \A i \in MentionsAt(p) : i < n <=> i # n
        BY <1>t DEF MentionsAt
      <4>4. \A i : i \in Settled(p)' <=> i \in Settled(p)
        BY <2>0, <2>5, <3>1, <4>1, <4>3, <4>a DEF Settled
      <4>5. Settled(p)' = Settled(p)
        BY <4>4
      <4> QED
        BY <2>0, <2>5, <4>5, <1>t DEF ToldWhenSettled
    <3> QED
      BY <3>2, <3>3
  <2> QED
    BY <2>4, <2>9, <2>10, <2>11 DEF RevInv
<1>4. ASSUME NEW e \in Editing, Rev!Cut(e) PROVE RevInv'
  <2>0. /\ muddled' /\ editing' = [editing EXCEPT ![e] = Rev!Nothing]
        /\ UNCHANGED <<article, versions, published, noticed, edits>>
    BY <1>4 DEF Rev!Cut
  <2>1. Rev!Nothing \in Edit /\ Rev!Nothing.step = "idle"
    BY DEF Rev!Nothing, Edit, Rev!Changes
  <2>2. /\ editing' \in [Editing -> Edit] /\ editing'[e].step = "idle"
        /\ \A o \in Editing : o # e => editing'[o] = editing[o]
    BY <2>0, <2>1, <1>t DEF RevTypes
  <2>3. muddled' \in BOOLEAN
    BY <1>4 DEF Rev!Cut
  <2> QED
    BY <2>0, <2>2, <2>3, <1>t DEF RevInv, RevTypes, UnderLimit, InTurn, ToldWhenSettled
<1>5. CASE Rev!Archive
  <2>0. /\ article' = [article EXCEPT !.active = FALSE]
        /\ UNCHANGED <<versions, editing, published, noticed, edits, muddled>>
    BY <1>5 DEF Rev!Archive
  <2>1. article' \in [active: BOOLEAN, count: Nat] /\ article'.count = article.count
    BY <2>0, <1>t DEF RevTypes
  <2>2. RevTypes' /\ UnderLimit'
    BY <2>0, <2>1, <1>t DEF RevTypes, UnderLimit
  <2>3. InTurn'
    <3>1. Counting' = Counting
      BY <2>0 DEF Counting
    <3> QED
      BY <2>0, <2>1, <3>1, <1>t DEF InTurn
  <2>4. ToldWhenSettled'
    <3>1. \A p : Settled(p)' = Settled(p)
      BY <2>0 DEF Counting, Settled, MentionsAt
    <3> QED
      BY <2>0, <3>1, <1>t DEF ToldWhenSettled
  <2> QED
    BY <2>2, <2>3, <2>4 DEF RevInv
<1>6. CASE Rev!PublishRevisedArticle
  <2>1. PICK j \in published :
          /\ published' = published \ {j}
          /\ noticed' = [p \in Person |->
               IF article.active /\ p \in Rev!NewlyMentioned(versions[j.old], versions[j.new])
                 THEN noticed[p] + 1 ELSE noticed[p]]
          /\ UNCHANGED <<article, versions, editing, edits, muddled>>
    BY <1>6 DEF Rev!PublishRevisedArticle
  <2>2. RevTypes'
    <3>1. noticed' \in [Person -> Nat]
      BY <2>1, <1>t DEF RevTypes
    <3> QED
      BY <2>1, <3>1, <1>t DEF RevTypes
  <2>3. UnderLimit'
    BY <2>1, <1>t DEF UnderLimit
  <2>4. InTurn'
    BY <2>1, <1>t DEF InTurn, Counting
  <2>5. ToldWhenSettled'
    <3> SUFFICES ASSUME ~muddled', NEW p \in Person
                 PROVE  noticed'[p] <= Cardinality(Settled(p)')
      BY DEF ToldWhenSettled
    <3>1. ~muddled /\ Counting' = Counting /\ MentionsAt(p)' = MentionsAt(p)
      BY <2>1 DEF Counting, MentionsAt
    <3>2. /\ j = [old |-> j.new - 1, new |-> j.new] /\ j.new \in 2..Len(versions)
          /\ Counting => j.new < Len(versions)
          /\ \A k \in published : k = [old |-> k.new - 1, new |-> k.new]
      BY <2>1, <3>1, <1>t DEF InTurn
    <3>3. \A k \in published' : k.new # j.new
      BY <2>1, <3>2
    <3>4. Settled(p) \in SUBSET (Settled(p)') /\ j.new \notin Settled(p)
      BY <2>1, <3>1 DEF Settled
    <3>5. /\ IsFiniteSet(Settled(p)) /\ IsFiniteSet(Settled(p)')
          /\ Cardinality(Settled(p)) \in Nat /\ Cardinality(Settled(p)') \in Nat
      <4>1. IsFiniteSet(Settled(p)) /\ Cardinality(Settled(p)) \in Nat
        BY <1>t, SettledFinite
      <4>2. IsFiniteSet(2..Len(versions)) /\ Settled(p)' \in SUBSET (2..Len(versions))
        BY <3>1, <1>t, FS_Interval DEF Settled, MentionsAt
      <4> QED
        BY <4>1, <4>2, FS_Subset, FS_CardinalityType
    <3>6. noticed[p] <= Cardinality(Settled(p)) /\ noticed[p] \in Nat
      BY <3>1, <1>t DEF ToldWhenSettled, RevTypes
    <3>7. CASE j.new \in MentionsAt(p)
      <4>1. j.new \in Settled(p)'
        BY <2>1, <3>1, <3>2, <3>3, <3>7 DEF Settled
      <4>2. Settled(p) \cup {j.new} \in SUBSET (Settled(p)')
        BY <3>4, <4>1
      <4>3. Cardinality(Settled(p) \cup {j.new}) = Cardinality(Settled(p)) + 1
        BY <3>4, <3>5, FS_AddElement
      <4>4. Cardinality(Settled(p)) + 1 <= Cardinality(Settled(p)')
        BY <3>5, <4>2, <4>3, FS_Subset
      <4>5. noticed'[p] <= noticed[p] + 1
        BY <2>1, <3>6
      <4>6. noticed'[p] \in Nat
        BY <2>2 DEF RevTypes
      <4> QED
        BY <3>5, <3>6, <4>4, <4>5, <4>6
    <3>8. CASE j.new \notin MentionsAt(p)
      <4>1. noticed'[p] = noticed[p]
        BY <2>1, <3>2, <3>8 DEF MentionsAt, Rev!NewlyMentioned
      <4>2. Cardinality(Settled(p)) <= Cardinality(Settled(p)')
        BY <3>4, <3>5, FS_Subset
      <4> QED
        BY <3>5, <3>6, <4>1, <4>2
    <3> QED
      BY <3>7, <3>8
  <2> QED
    BY <2>2, <2>3, <2>4, <2>5 DEF RevInv
<1> QED
  BY <1>1, <1>2, <1>3, <1>4, <1>5, <1>6 DEF Rev!Next

\* A version is built on the latest one: what it was not given, it takes from
\* there.
LEMMA RevReverts ==
  RevInv /\ Rev!Next =>
    (Len(versions') > Len(versions) /\ ~muddled =>
       \E e \in Editing :
         /\ editing[e].title = {} =>
              versions'[Len(versions) + 1].title = versions[Len(versions)].title
         /\ editing[e].people = {} =>
              versions'[Len(versions) + 1].people = versions[Len(versions)].people)
<1> SUFFICES ASSUME RevInv, Rev!Next, Len(versions') > Len(versions), ~muddled
             PROVE  \E e \in Editing :
               /\ editing[e].title = {} =>
                    versions'[Len(versions) + 1].title = versions[Len(versions)].title
               /\ editing[e].people = {} =>
                    versions'[Len(versions) + 1].people = versions[Len(versions)].people
  OBVIOUS
<1>1. RevTypes /\ InTurn /\ Len(versions) \in Nat
  BY DEF RevInv, RevTypes
<1>2. PICK e \in Editing : Rev!WriteVersion(e)
  <2>1. (\E e \in Editing : Rev!WriteVersion(e)) \/ versions' = versions
    BY
       DEF Rev!Next, Rev!LoadArticle, Rev!WriteCount, Rev!Cut, Rev!Archive,
           Rev!PublishRevisedArticle
  <2>2. versions' # versions
    BY <1>1
  <2> QED
    BY <2>1, <2>2
<1> DEFINE v == Rev!NextVersion(editing[e], versions[Len(versions)])
<1>3. /\ editing[e] \in Edit
      /\ editing[e].base = Len(versions)
      /\ versions[Len(versions)] \in Version
  BY <1>1, <1>2 DEF Rev!WriteVersion, RevTypes, InTurn
<1>4. versions' = Append(versions, v)
  BY <1>2, <1>3 DEF Rev!WriteVersion
<1>5. /\ v \in Version
      /\ editing[e].title = {} => v.title = versions[Len(versions)].title
      /\ editing[e].people = {} => v.people = versions[Len(versions)].people
  BY <1>3, NextVersionType
<1> HIDE DEF v
<1>6. versions'[Len(versions) + 1] = v
  BY <1>1, <1>4, <1>5 DEF RevTypes
<1> QED
  BY <1>5, <1>6

\* The invariant bounds revisions and what was told.
LEMMA RevConsequences == RevInv => Rev!RevisionsLimited /\ Rev!MentionsToldOnce
<1> SUFFICES ASSUME RevInv PROVE Rev!RevisionsLimited /\ Rev!MentionsToldOnce
  OBVIOUS
<1>1. RevTypes /\ UnderLimit /\ InTurn /\ ToldWhenSettled /\ Len(versions) \in Nat
  BY DEF RevInv, RevTypes
<1>2. Rev!RevisionsLimited
  <2>1. ASSUME ~muddled PROVE Len(versions) <= MaxRevisions + 1
    <3>1. CASE Counting
      <4>1. PICK e \in Editing : editing[e].step = "count"
        BY <3>1 DEF Counting
      <4>2. editing[e].count = article.count /\ editing[e].count + 1 <= MaxRevisions
            /\ article.count = Len(versions) - 2
        BY <1>1, <2>1, <3>1, <4>1 DEF InTurn, UnderLimit
      <4>3. article.count \in Nat
        BY <1>1 DEF RevTypes
      <4> QED
        BY <1>1, <4>2, <4>3, ContentAssumption
    <3>2. CASE ~Counting
      <4>1. article.count = Len(versions) - 1 /\ article.count <= MaxRevisions
        BY <1>1, <2>1, <3>2 DEF InTurn, UnderLimit
      <4> QED
        BY <1>1, <4>1, ContentAssumption
    <3> QED
      BY <3>1, <3>2
  <2>2. ~muddled /\ (\A e \in Editing : editing[e].step # "count") =>
          article.count = Len(versions) - 1
    BY <1>1 DEF InTurn, Counting
  <2> QED
    BY <1>1, <2>1, <2>2 DEF Rev!RevisionsLimited, Rev!Latest, UnderLimit
<1>3. Rev!MentionsToldOnce
  <2> SUFFICES ASSUME ~muddled, NEW p \in Person PROVE noticed[p] <= Rev!Mentions(p)
    BY DEF Rev!MentionsToldOnce
  <2>1. Rev!Mentions(p) = Cardinality(MentionsAt(p))
    BY SameCount DEF Rev!Mentions, Rev!Latest, MentionsAt
  <2>2. noticed[p] <= Cardinality(Settled(p)) /\ noticed[p] \in Nat
    BY <1>1 DEF ToldWhenSettled, RevTypes
  <2> QED
    BY <1>1, <2>1, <2>2, SettledFinite
<1> QED
  BY <1>2, <1>3

-----------------------------------------------------------------------------
(* The parts together.                                                     *)

\* The invariant of whichever part is in focus.
Inv ==
  /\ focus = "publication" => PubInv
  /\ focus = "revision" => RevInv
  /\ focus = "federation" => FedInv
  /\ focus = "feed" => FeedInv
  /\ focus = "notice" => NoteInv
  /\ focus = "ipfs" => IpfsInv

\* It holds of every initial state.
LEMMA InitInv == Init => Inv
BY PubInit, RevInit, FedInit, FeedInit, NoteInit, IpfsInit DEF Init, Inv

\* A part nobody touches keeps its invariant.
LEMMA Stutters ==
  /\ UNCHANGED pubVars => (PubInv => PubInv')
  /\ UNCHANGED revVars => (RevInv => RevInv')
  /\ UNCHANGED fedVars => (FedInv => FedInv')
  /\ UNCHANGED feedVars => (FeedInv => FeedInv')
  /\ UNCHANGED noticeVars => (NoteInv => NoteInv')
  /\ UNCHANGED ipfsVars => (IpfsInv => IpfsInv')
<1>1. UNCHANGED pubVars => (PubInv => PubInv')
  BY
     DEF pubVars, PubInv, PubTypes, Diligence, PendingHeld, PublishedHasArticle,
         OneAtWork, Engaged
<1>2. UNCHANGED revVars => (RevInv => RevInv')
  BY
     DEF revVars, RevInv, RevTypes, UnderLimit, InTurn, Counting, ToldWhenSettled,
         Settled, MentionsAt
<1>3. UNCHANGED fedVars => (FedInv => FedInv')
  BY DEF fedVars, FedInv, FedTypes, OneRequest, DecisionStands, RemovalUnderWay,
     Exported, ExportRecorded, Idling, Fed!IsPublic, Fed!Eligible
<1>4. UNCHANGED feedVars => (FeedInv => FeedInv')
  BY
     DEF feedVars, FeedInv, FeedTypes, BatchUndecided, Feed!ApprovedWereTold,
         ApprovalKnown
<1>5. UNCHANGED noticeVars => (NoteInv => NoteInv')
  BY
     DEF noticeVars, NoteInv, NoteTypes, Turns, RecordsShown, LikeUnderWay, Undisturbed,
         OneLambda,
     FreshAreRecorded, Withdrawal, Withdrawn, AllIdle, NobodyWorks, Working
<1>6. UNCHANGED ipfsVars => (IpfsInv => IpfsInv')
  BY
     DEF ipfsVars, IpfsInv, IpfsTypes, UploadsOwn, ContentsKnown, Ipfs!HashIsOfContent,
         Ipfs!KeyOpensLatest
<1> QED
  BY <1>1, <1>2, <1>3, <1>4, <1>5, <1>6

\* Every step is one of the part in focus, which leaves the others alone.
LEMMA NextInv == Inv /\ [Next]_vars => Inv'
<1> SUFFICES ASSUME Inv, [Next]_vars PROVE Inv'
  OBVIOUS
<1>1. CASE PubStep
  BY <1>1, PubNext DEF PubStep, Inv
<1>2. CASE RevStep
  BY <1>2, RevNext DEF RevStep, Inv
<1>3. CASE FedStep
  BY <1>3, FedNext DEF FedStep, Inv
<1>4. CASE FeedStep
  BY <1>4, FeedNext DEF FeedStep, Inv
<1>5. CASE NoteStep
  BY <1>5, NoteNext DEF NoteStep, Inv
<1>6. CASE IpfsStep
  BY <1>6, IpfsNext DEF IpfsStep, Inv
<1>7. CASE UNCHANGED vars
  <2>1. /\ UNCHANGED focus /\ UNCHANGED pubVars /\ UNCHANGED revVars /\ UNCHANGED fedVars
        /\ UNCHANGED feedVars /\ UNCHANGED noticeVars /\ UNCHANGED ipfsVars
    BY <1>7 DEF vars
  <2> QED
    BY <2>1, Stutters DEF Inv
<1> QED
  BY <1>1, <1>2, <1>3, <1>4, <1>5, <1>6, <1>7 DEF Next

\* However its requests, jobs and invocations interleave, every part of Content
\* stays within its invariant.
THEOREM Inductive == Spec => []Inv
<1>1. Init => Inv
  BY InitInv
<1>2. Inv /\ [Next]_vars => Inv'
  BY NextInv
<1> QED
  BY <1>1, <1>2, PTL DEF Spec

\* The invariants hold the types the parts are checked for.
LEMMA InvTypes == Inv => TypeOK
<1> SUFFICES ASSUME Inv PROVE TypeOK
  OBVIOUS
<1>1. PubInv => Pub!TypeOK
  BY DEF PubInv, PubTypes, Draft, Work, Steps, PublishedHasArticle, Pub!TypeOK
<1>2. FedInv => Fed!TypeOK
  <2> SUFFICES ASSUME FedInv PROVE Fed!TypeOK
    OBVIOUS
  <2>1. /\ events \in Seq(Event) /\ queue \in Seq(Sent) /\ copied \in 0..Len(events)
    BY DEF FedInv, FedTypes
  <2>2. \A i \in DOMAIN queue : queue[i] \in Sent
    BY <2>1
  <2>3. \A i \in DOMAIN events : events[i] \in Event
    BY <2>1
  <2> QED
    BY <2>1, <2>2, <2>3 DEF Fed!TypeOK, Event, Sent
<1>3. FeedInv => Feed!TypeOK
  BY DEF FeedInv, FeedTypes, Rows, Reviews, Feed!TypeOK
<1>4. NoteInv => Note!TypeOK
  BY DEF NoteInv, NoteTypes, Asks, Jobs, Note!TypeOK, Note!At
<1>5. IpfsInv => Ipfs!TypeOK
  <2> SUFFICES ASSUME IpfsInv PROVE Ipfs!TypeOK
    OBVIOUS
  <2>1. /\ Ipfs!Upload = 1..Ipfs!Cardinality(Ipfs!Upload) /\ Ipfs!Cardinality(Ipfs!Upload) \in Nat
    BY UploadCount, SameCount, ContentAssumption
  <2>2. {0} \cup Ipfs!Upload = 0..Ipfs!Cardinality(Ipfs!Upload)
    BY <2>1
  <2>3. IpfsTypes /\ Ipfs!Version = 1..MaxVersions
    BY DEF IpfsInv, Ipfs!Version
  <2> HIDE DEF IpfsTypes
  <2>4. \A v \in Ipfs!Version : copies[v].content \in 0..MaxVersions
                               /\ copies[v].hash \in 0..Ipfs!Cardinality(Ipfs!Upload)
    BY <2>2, <2>3 DEF IpfsTypes
  <2>5. /\ lastCopy \in Ipfs!Version /\ secret \in 0..Ipfs!Cardinality(Ipfs!Upload)
        /\ queued \subseteq Ipfs!Version
    BY <2>2, <2>3, ContentAssumption DEF IpfsTypes
  <2>6. /\ \A w \in Lambda : uploader[w].step \in {"idle", "upload", "retry", "record"}
        /\ \A v \in Ipfs!Version : ipfsPast[v] \subseteq Notes
    BY <2>3 DEF IpfsTypes
  <2> QED
    BY <2>4, <2>5, <2>6 DEF Ipfs!TypeOK, Notes
<1> QED
  BY <1>1, <1>2, <1>3, <1>4, <1>5 DEF Inv, TypeOK

(* Every part keeps its types (TypeOK). *)
THEOREM TypeCorrect == Spec => []TypeOK
BY Inductive, InvTypes, PTL

\* Two articles take two that were engaged, or a fault.
LEMMA PubConsequences == PubInv => Pub!PublishedOnce /\ Pub!PendingIsWorkedOn
<1> SUFFICES ASSUME PubInv PROVE Pub!PublishedOnce /\ Pub!PendingIsWorkedOn
  OBVIOUS
<1>1. Pub!PendingIsWorkedOn
  BY DEF PubInv, PendingHeld, Engaged, Pub!PendingIsWorkedOn
<1>2. ~raced /\ faults = 0 => articles \in 0..1
  <2>1. SUFFICES ASSUME ~raced, faults = 0 PROVE articles \in 0..1
    OBVIOUS
  <2>2. CASE draft.state = "pending"
    <3>1. PICK w \in Pub!Worker : Engaged(w)
      BY <2>1, <2>2 DEF PubInv, PendingHeld
    <3> QED
      BY <2>1, <3>1 DEF PubInv, OneAtWork
  <2>3. CASE draft.state # "pending"
    BY <2>1, <2>3 DEF PubInv, PubTypes, Draft, OneAtWork
  <2> QED
    BY <2>2, <2>3
<1>3. faults \in Nat /\ articles \in 0..2
  BY DEF PubInv, PubTypes
<1>4. Pub!PublishedOnce
  BY <1>2, <1>3 DEF Pub!PublishedOnce
<1> QED
  BY <1>1, <1>4

(* One article per draft, and a pending draft is worked on
   (DraftsPublishedOnce), for every number of sessions. *)
THEOREM OneArticlePerDraft == Spec => []DraftsPublishedOnce
<1>1. Inv => DraftsPublishedOnce
  BY PubConsequences DEF Inv, DraftsPublishedOnce
<1> QED
  BY <1>1, Inductive, PTL

\* At rest nobody works, and what is shown was recorded or is aged.
LEMMA NoteConsequences ==
  NoteInv => Note!WithdrawnLeavesNothing /\ Note!LikeIsTold /\ Note!ToldOnce
<1> SUFFICES ASSUME NoteInv
             PROVE  Note!WithdrawnLeavesNothing /\ Note!LikeIsTold /\ Note!ToldOnce
  OBVIOUS
<1>1. Note!AtRest <=> sent = 0 /\ AllIdle /\ NobodyWorks
  BY DEF Note!AtRest, Note!At, AllIdle, NobodyWorks, Working
<1>2. Note!WithdrawnLeavesNothing
  BY <1>1 DEF NoteInv, Undisturbed, Withdrawn, Note!WithdrawnLeavesNothing
<1>3. Note!LikeIsTold
  BY <1>1 DEF NoteInv, LikeUnderWay, Note!LikeIsTold
<1>4. Note!ToldOnce
  <2>1. SUFFICES ASSUME Undisturbed PROVE Cardinality(shown \ aged) <= 1
    BY SameCount DEF Note!ToldOnce, Undisturbed
  <2>2. OneLambda /\ FreshAreRecorded
    BY <2>1 DEF NoteInv
  <2>3. \A m, n \in shown \ aged : m = n
    BY <2>2 DEF OneLambda, FreshAreRecorded, Working
  <2>4. CASE shown \ aged = {}
    BY <2>4, FS_EmptySet
  <2>5. CASE shown \ aged # {}
    <3>1. PICK n \in shown \ aged : shown \ aged = {n}
      BY <2>3, <2>5
    <3> QED
      BY <3>1, FS_Singleton
  <2> QED
    BY <2>4, <2>5
<1> QED
  BY <1>2, <1>3, <1>4

(* Once all rests, a like that stands has its notice, one taken back has none,
   and repeated likes are told once (NoticesFollowLikes), for every number of
   requests and invocations. *)
THEOREM NoticesOfLikes == Spec => []NoticesFollowLikes
<1>1. Inv => NoticesFollowLikes
  BY NoteConsequences DEF Inv, NoticesFollowLikes
<1> QED
  BY <1>1, Inductive, PTL

(* An edit goes over what its author saw, brings nothing back, and stays within
   the limit; a mention is told once (EditsLoseNothing). *)
THEOREM EditsSafe == Spec => EditsLoseNothing
<1>1. Inv /\ [Next]_vars =>
        [ /\ focus = "publication" => Pub!EditsOnLatestDraft
          /\ focus = "revision" =>
               Rev!NothingReverted /\ Rev!RevisionsLimited' /\ Rev!MentionsToldOnce' ]_vars
  <2> SUFFICES ASSUME Inv, Next
               PROVE  /\ focus = "publication" => Pub!EditsOnLatestDraft
                      /\ focus = "revision" =>
                           Rev!NothingReverted /\ Rev!RevisionsLimited' /\ Rev!MentionsToldOnce'
    OBVIOUS
  <2>1. ASSUME focus = "publication" PROVE Pub!EditsOnLatestDraft
    <3>1. \A s \in Session : s \in Pub!Worker
      BY DEF Pub!Worker
    <3> QED
      BY <2>1, <3>1 DEF Inv, PubInv, Diligence, Pub!EditsOnLatestDraft
  <2>2. ASSUME focus = "revision"
        PROVE  Rev!NothingReverted /\ Rev!RevisionsLimited' /\ Rev!MentionsToldOnce'
    <3>1. RevInv /\ Rev!Next
      BY <2>2 DEF Inv, Next, PubStep, RevStep, FedStep, FeedStep, NoteStep, IpfsStep
    <3>2. Rev!RevisionsLimited' /\ Rev!MentionsToldOnce'
      <4>1. RevInv'
        BY <3>1, RevNext
      <4> QED
        BY <4>1, RevConsequences, PTL
    <3>3. Rev!NothingReverted
      BY <3>1, RevReverts DEF Rev!NothingReverted, Rev!Latest
    <3> QED
      BY <3>2, <3>3
  <2> QED
    BY <2>1, <2>2
<1> QED
  BY <1>1, Inductive, PTL DEF Spec, EditsLoseNothing

(* Copies elsewhere follow the settings of the article: the fediverse and IPFS
   (CopiesFollowSettings). *)
THEOREM CopiesSafe == Spec => CopiesFollowSettings
<1>1. Inv /\ [Next]_vars =>
        [ /\ focus = "federation" => Fed!CopyIsEligible' /\ Fed!OnlyRemovalAfterArchive
          /\ focus = "ipfs" => Ipfs!HashIsOfContent' /\ Ipfs!KeyOpensLatest' ]_vars
  <2> SUFFICES ASSUME Inv, Next
               PROVE  /\ focus = "federation" => Fed!CopyIsEligible' /\ Fed!OnlyRemovalAfterArchive
                      /\ focus = "ipfs" => Ipfs!HashIsOfContent' /\ Ipfs!KeyOpensLatest'
    OBVIOUS
  <2>1. ASSUME focus = "federation"
        PROVE  Fed!CopyIsEligible' /\ Fed!OnlyRemovalAfterArchive
    <3>1. FedInv /\ Fed!Next
      BY <2>1 DEF Inv, Next, PubStep, RevStep, FedStep, FeedStep, NoteStep, IpfsStep
    <3>2. FedInv'
      BY <3>1, FedNext
    <3>3. Fed!CopyIsEligible'
      BY <3>2, FedEligible, PTL
    <3>4. Fed!OnlyRemovalAfterArchive
      BY <3>1, FedRemoval DEF Fed!OnlyRemovalAfterArchive
    <3> QED
      BY <3>3, <3>4
  <2>2. ASSUME focus = "ipfs" PROVE Ipfs!HashIsOfContent' /\ Ipfs!KeyOpensLatest'
    <3>1. IpfsInv /\ Ipfs!Next
      BY <2>2 DEF Inv, Next, PubStep, RevStep, FedStep, FeedStep, NoteStep, IpfsStep
    <3> QED
      BY <3>1, IpfsNext DEF IpfsInv
  <2> QED
    BY <2>1, <2>2
<1> QED
  BY <1>1, Inductive, PTL DEF Spec, CopiesFollowSettings

(* Staff's decisions on the moment feed stand against the job, and who is in the
   feed was told (ReviewsStand). *)
THEOREM ReviewsSafe == Spec => ReviewsStand
<1>1. Inv /\ [Next]_vars =>
        [ focus = "feed" => Feed!StaffOverruledByOldListOnly /\ Feed!ApprovedWereTold' ]_vars
  <2> SUFFICES ASSUME Inv, Next, focus = "feed"
               PROVE  Feed!StaffOverruledByOldListOnly /\ Feed!ApprovedWereTold'
    OBVIOUS
  <2>1. FeedInv /\ Feed!Next
    BY DEF Inv, Next, PubStep, RevStep, FedStep, FeedStep, NoteStep, IpfsStep
  <2> QED
    BY <2>1, FeedNext DEF FeedInv, StaffStands, Feed!StaffOverruledByOldListOnly
<1> QED
  BY <1>1, Inductive, PTL DEF Spec, ReviewsStand
=============================================================================
