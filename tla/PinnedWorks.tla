----------------------------- MODULE PinnedWorks -----------------------------
(* The works an author pins on top of the profile: articles
   (articleService.updatePinned, by editArticle) and collections
   (collectionService.updatePinned and createCollection, by putCollection), which
   share one limit and are counted in two tables, one after the other. *)
EXTENDS Naturals, FiniteSets

CONSTANTS
  Paper,     \* the author's articles
  Shelf,     \* the author's collections, made in any order
  Writer,    \* requests at once
  PinLimit,  \* MAX_PINNED_WORKS_LIMIT
  MaxAsked,  \* requests made
  MaxFaults  \* overlaps, and changes of an article's state

VARIABLES
  works,     \* article and collection: does it exist, is it active, is it pinned
  writer,    \* per request: next step, work, what it has read and counted
  asked,     \* requests and faults so far
  slips      \* what happened that the properties except (history variable)

pinnedVars == <<works, writer, asked, slips>>

Work == Paper \cup Shelf
Idle == [step |-> "idle", work |-> "none", pin |-> FALSE, seen |-> FALSE, count |-> 0]

Init ==
  /\ works = [w \in Work |-> [made |-> w \in Paper, active |-> TRUE, pinned |-> FALSE]]
  /\ writer = [r \in Writer |-> Idle]
  /\ asked = [requests |-> 0, faults |-> 0]
  /\ slips = {}

\* totalPinnedWorks: an article that is not active does not count.
Counted(w) == works[w].made /\ works[w].pinned /\ works[w].active
Pinned(kind) == {w \in kind : Counted(w)}

\* updatePinned begins by loading the work.
AskPin(r, w, pin) ==
  LET beside == \E q \in Writer \ {r} : writer[q] # Idle IN
  /\ writer[r] = Idle
  /\ works[w].made /\ works[w].active
  /\ asked.requests < MaxAsked
  /\ beside => asked.faults < MaxFaults
  /\ writer' = [writer EXCEPT ![r] =
       [step |-> "articles", work |-> w, pin |-> pin, seen |-> works[w].pinned, count |-> 0]]
  /\ asked' = [requests |-> asked.requests + 1,
               faults |-> asked.faults + IF beside THEN 1 ELSE 0]
  /\ slips' = IF beside THEN slips \cup {"overlap"} ELSE slips
  /\ UNCHANGED works

CountArticles(r) ==
  /\ writer[r].step = "articles"
  /\ writer' = [writer EXCEPT ![r].step = "collections",
                              ![r].count = Cardinality(Pinned(Paper))]
  /\ UNCHANGED <<works, asked, slips>>

CountCollections(r) ==
  /\ writer[r].step = "collections"
  /\ writer' = [writer EXCEPT ![r].step = "update", ![r].count = @ + Cardinality(Pinned(Shelf))]
  /\ UNCHANGED <<works, asked, slips>>

MayPin_UpToLimit(count) == count <= PinLimit

MayPin(count) == count < PinLimit

\* Nothing to do, or no room, or the row is written.
UpdatePinned(r) ==
  LET q == writer[r] IN
  /\ q.step = "update"
  /\ works' = IF works[q.work].made /\ q.pin # q.seen /\ (q.pin => MayPin(q.count))
                THEN [works EXCEPT ![q.work].pinned = q.pin] ELSE works
  /\ writer' = [writer EXCEPT ![r] = Idle]
  /\ UNCHANGED <<asked, slips>>

\* A new collection may come pinned, and nothing counts.
CreateCollection(w, pin) ==
  /\ ~works[w].made /\ \A r \in Writer : writer[r].work # w
  /\ asked.requests < MaxAsked
  /\ works' = [works EXCEPT ![w].made = TRUE, ![w].pinned = pin]
  /\ asked' = [asked EXCEPT !.requests = @ + 1]
  /\ slips' = IF pin THEN slips \cup {"made pinned"} ELSE slips
  /\ UNCHANGED writer

DeleteCollection(w) ==
  /\ w \in Shelf /\ works[w].made
  /\ asked.requests < MaxAsked
  /\ works' = [works EXCEPT ![w].made = FALSE, ![w].pinned = FALSE]
  /\ asked' = [asked EXCEPT !.requests = @ + 1]
  /\ UNCHANGED <<writer, slips>>

AfterArchive_StaysPinned(w) == [works[w] EXCEPT !.active = FALSE]

\* An archived article loses its pin; one that staff ban keeps it.
AfterArchive(w) == [works[w] EXCEPT !.active = FALSE, !.pinned = FALSE]

ChangeState(w) ==
  /\ asked.faults < MaxFaults
  /\ asked' = [asked EXCEPT !.faults = @ + 1]
  /\ \E ban \in BOOLEAN :
       /\ ban => works[w].active
       /\ works' = [works EXCEPT ![w] =
            IF works[w].active /\ ~ban THEN AfterArchive(w)
                                       ELSE [works[w] EXCEPT !.active = ~@]]
       /\ slips' = slips \cup (IF ban THEN {"banned"} ELSE {})
            \cup (IF \E r \in Writer : writer[r] # Idle THEN {"overlap"} ELSE {})
  /\ UNCHANGED writer

Next ==
  \/ \E r \in Writer :
       \/ \E w \in Work, pin \in BOOLEAN : AskPin(r, w, pin)
       \/ CountArticles(r) \/ CountCollections(r) \/ UpdatePinned(r)
  \/ \E w \in Shelf : DeleteCollection(w) \/ \E pin \in BOOLEAN : CreateCollection(w, pin)
  \/ \E w \in Paper : ChangeState(w)

Spec == Init /\ [][Next]_pinnedVars

-----------------------------------------------------------------------------
(* Works and requests keep their types. *)
TypeOK ==
  /\ \A w \in Work : works[w].made \in BOOLEAN /\ works[w].pinned \in BOOLEAN
  /\ \A r \in Writer : writer[r].count <= Cardinality(Work)

(* Articles and collections pinned stay within their common limit, through
   archiving and coming back - unless two requests overlapped, a collection was
   made pinned, or an article was banned with its pin
   (articleService.ts:555-566, 580-593, collectionService.ts:361-376). *)
PinnedWithinLimit ==
  (slips = {}) => Cardinality(Pinned(Work)) <= PinLimit
=============================================================================
