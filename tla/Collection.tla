----------------------------- MODULE Collection -----------------------------
(* The articles of one collection of an author (connectors/collectionService.ts).

   The table gives every article an order, a fraction; what is shown are the
   active articles by descending order.  Adding and reordering read it on the
   replica and write the orders they compute from what they read, one row after
   the other when they reorder.  Orders are counted in the smallest unit that can
   be told apart. *)
EXTENDS Naturals, FiniteSets, SequencesExt

CONSTANTS
  Article,   \* the author's articles
  Request,   \* requests at once
  Limit,     \* MAX_ARTICLES_PER_COLLECTION_LIMIT
  Unit,      \* units in 1: how often a gap can be halved
  MaxAsked,  \* requests made
  MaxFaults  \* overlaps, outdated reads and changes of an article's state

VARIABLES
  orders,    \* collection_article: order of the articles it has
  replica,   \* what the replica has of it
  active,    \* the articles in state "active"
  request,   \* per request: next step, what it holds and has to do
  asked,     \* requests and faults so far
  slips      \* what happened that the properties except (history variable)

collectionVars == <<orders, replica, active, request, asked, slips>>

Idle == [step |-> "idle", list |-> <<>>, orders |-> <<>>, moves |-> <<>>,
         wanted |-> <<>>, next |-> 0]

\* Some articles in some order: which ones and in which makes no difference.
Init ==
  /\ LET s == CHOOSE s \in SetToSeqs(Article) : TRUE IN
     \E n \in 0..Limit : n <= Len(s) /\ orders = [a \in {s[i] : i \in 1..n} |->
                                   Unit * CHOOSE i \in 1..n : s[i] = a]
  /\ replica = orders
  /\ active = Article
  /\ request = [r \in Request |-> Idle]
  /\ asked = [requests |-> 0, faults |-> 0]
  /\ slips = {}

\* The active articles of rows, the highest order first; equals in any order.
Listings(rows) ==
  LET shown == DOMAIN rows \cap active IN
  {s \in SetToSeqs(shown) : \A i, j \in DOMAIN s : i < j => rows[s[i]] >= rows[s[j]]}

Free(r) == request[r] = Idle /\ asked.requests < MaxAsked

Begin(r, first, faults) ==
  LET all == faults \cup (IF \E q \in Request \ {r} : request[q] # Idle THEN {"overlap"} ELSE {})
                    \cup (IF replica # orders THEN {"outdated"} ELSE {})
  IN
  /\ asked.faults + Cardinality(all) <= MaxFaults
  /\ request' = [request EXCEPT ![r] = first]
  /\ asked' = [requests |-> asked.requests + 1, faults |-> asked.faults + Cardinality(all)]
  /\ slips' = slips \cup all

-----------------------------------------------------------------------------
(* addArticles *)

Room_ByWhatIsThere(count, new) == count <= Limit

Room(count, new) == count + new <= Limit

\* validateAddArticles: those already there do count but are passed over.
ValidateAdd(r, new, there) ==
  /\ ToSet(new) \subseteq active \ DOMAIN replica /\ new # <<>>
  /\ there \subseteq DOMAIN replica \cap active
  /\ Room(Cardinality(DOMAIN replica \cap active), Len(new) + Cardinality(there))
  /\ Begin(r, [Idle EXCEPT !.step = "max", !.list = new], {})
  /\ UNCHANGED <<orders, replica, active>>

\* The highest order, or 0.
ReadMax(r) ==
  /\ request[r].step = "max"
  /\ \E top \in {0} \cup {replica[a] : a \in DOMAIN replica} :
       /\ \A a \in DOMAIN replica : replica[a] <= top
       /\ request' = [request EXCEPT ![r].step = "insert", ![r].next = Unit + top]
  /\ slips' = IF replica # orders THEN slips \cup {"outdated"} ELSE slips
  /\ UNCHANGED <<orders, replica, active, asked>>

\* One statement; an article that is there by now makes it fail.
InsertArticles(r) ==
  LET list == request[r].list
      new  == [a \in ToSet(list) |->
                 request[r].next + Unit * ((CHOOSE i \in DOMAIN list : list[i] = a) - 1)]
  IN
  /\ request[r].step = "insert"
  /\ orders' = IF ToSet(list) \cap DOMAIN orders # {} THEN orders
               ELSE [a \in DOMAIN orders \cup ToSet(list) |->
                       IF a \in ToSet(list) THEN new[a] ELSE orders[a]]
  /\ request' = [request EXCEPT ![r] = Idle]
  /\ UNCHANGED <<replica, active, asked, slips>>

\* removeArticles, deleteCollectionArticles
RemoveArticles(articles) ==
  /\ asked.requests < MaxAsked
  /\ asked' = [asked EXCEPT !.requests = @ + 1]
  /\ orders' = [a \in DOMAIN orders \ articles |-> orders[a]]
  /\ slips' = IF \E r \in Request : request[r] # Idle THEN slips \cup {"overlap"} ELSE slips
  /\ UNCHANGED <<replica, active, request>>

-----------------------------------------------------------------------------
(* reorderArticles *)

\* Every move names a listed article and a position in the list; one or two here.
MovesIn(list) ==
  LET move == [article : ToSet(list), to : DOMAIN list] IN
  {<<m>> : m \in move} \cup {<<m, n>> : m, n \in move}

ReadOrder(r) ==
  /\ Free(r)
  /\ \E list \in Listings(replica) : \E moves \in MovesIn(list) :
         Begin(r, [Idle EXCEPT !.step = "move", !.list = list, !.moves = moves,
           !.orders = [i \in DOMAIN list |-> replica[list[i]]], !.wanted = list], {})
  /\ UNCHANGED <<orders, replica, active>>

\* The sequence with its element at position from put at position to.
Moved(s, from, to) == InsertAt(RemoveAt(s, from), to, s[from])

\* Half way between the two neighbours in what remains.
Between(rest, to) == (rest[to] + rest[to - 1]) \div 2

NewOrder_NotSetAside(held, from, to) ==
  IF to = 1 THEN held[1] + Unit
  ELSE IF to = Len(held) THEN held[to] \div 2
  ELSE Between(held, to)

\* The order that takes an article from a position to another.
NewOrder(held, from, to) ==
  IF to = 1 THEN held[1] + Unit
  ELSE IF to = Len(held) THEN held[to] \div 2
  ELSE Between(RemoveAt(held, from), to)

PlaceOf(list, article) == CHOOSE i \in DOMAIN list : list[i] = article

\* One move, in the table and in the list held.
MoveArticle(r) ==
  LET q     == request[r]
      move  == Head(q.moves)
      from  == PlaceOf(q.list, move.article)
      new   == NewOrder(q.orders, from, move.to)
      held  == Moved([q.orders EXCEPT ![from] = new], from, move.to)
      done  == IF from = move.to THEN q
               ELSE [q EXCEPT !.list = Moved(q.list, from, move.to), !.orders = held]
      after == [done EXCEPT
                  !.moves = Tail(q.moves),
                  !.wanted = Moved(q.wanted, PlaceOf(q.wanted, move.article), move.to)]
  IN
  /\ q.step = "move"
  /\ IF from = move.to THEN UNCHANGED <<orders, slips>>
     ELSE /\ orders' = IF move.article \notin DOMAIN orders THEN orders
                       ELSE [orders EXCEPT ![move.article] = new]
          /\ slips' = IF \E i \in DOMAIN held : i # move.to /\ held[i] = new
                      THEN slips \cup {"too_fine"} ELSE slips
  /\ request' = [request EXCEPT ![r] =
       IF after.moves = <<>> THEN [after EXCEPT !.step = "answer"] ELSE after]
  /\ UNCHANGED <<replica, active, asked>>

Answer(r) ==
  /\ request[r].step = "answer"
  /\ request' = [request EXCEPT ![r] = Idle]
  /\ UNCHANGED <<orders, replica, active, asked, slips>>

-----------------------------------------------------------------------------
(* An article is archived or banned, and comes back; its row stays. *)
ChangeState(a) ==
  /\ asked.faults < MaxFaults
  /\ asked' = [asked EXCEPT !.faults = @ + 1]
  /\ active' = IF a \in active THEN active \ {a} ELSE active \cup {a}
  /\ slips' = slips \cup (IF a \in active THEN {} ELSE {"returned"})
                    \cup (IF \E r \in Request : request[r] # Idle THEN {"overlap"} ELSE {})
  /\ UNCHANGED <<orders, replica, request>>

Replicate ==
  /\ replica # orders
  /\ replica' = orders
  /\ UNCHANGED <<orders, active, request, asked, slips>>

Next ==
  \/ \E r \in Request :
       \/ Free(r) /\ \E new \in SetToAllKPermutations(Article), there \in SUBSET Article :
                       ValidateAdd(r, new, there)
       \/ ReadOrder(r) \/ ReadMax(r) \/ InsertArticles(r) \/ MoveArticle(r) \/ Answer(r)
  \/ \E a \in Article : RemoveArticles({a}) \/ ChangeState(a)
  \/ Replicate

Spec == Init /\ [][Next]_collectionVars

-----------------------------------------------------------------------------
(* Orders are those of articles of the author, on the replica too. *)
TypeOK ==
  /\ DOMAIN orders \subseteq Article /\ DOMAIN replica \subseteq Article
  /\ \A a \in DOMAIN orders : orders[a] \in Nat
  /\ active \subseteq Article

(* A reordering leaves the articles shown in the very order its moves make of the
   list, and no two of them with one order - unless it overlapped with another
   request, read an outdated replica, ran out of digits, or an article came back
   whose order nobody had looked at (collectionService.ts:270-340). *)
ReorderedAsAsked ==
  (slips = {}) =>
    \A r \in Request : request[r].step = "answer" =>
      Listings(orders) = {request[r].wanted}

(* The articles shown stay within the limit, unless two requests overlapped, the
   count was outdated or an article came back (collectionService.ts:115-147). *)
WithinCapacity ==
  (slips \cap {"overlap", "outdated", "returned"} = {}) =>
    Cardinality(DOMAIN orders \cap active) <= Limit
=============================================================================
