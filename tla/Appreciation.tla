----------------------------- MODULE Appreciation -----------------------------
(* What one member gives one article (appreciateArticle.ts,
   appreciateLeftByUser and appreciate of connectors/article/articleService.ts):
   the rest up to the limit is read, a row to add to is looked for, and the row is
   written, by separate statements; LikeCoin is told what the first one allowed. *)
EXTENDS Naturals, FiniteSets, FiniteSetsExt

CONSTANTS
  Request,  \* requests of the member at once
  Limit,    \* ARTICLE_APPRECIATE_LIMIT
  MaxRows,  \* rows there may be
  MaxAsked  \* requests there are

VARIABLES
  amount,   \* per row of `appreciation`: its amount, 0 if it is not there
  old,      \* rows made or added to more than 5 minutes ago
  request,  \* per request: step, amount allowed, row to add to, its amount
  asked,
  told,     \* what LikeCoin was told in all
  overlap

appreciationVars == <<amount, old, request, asked, told, overlap>>

Row == 1..MaxRows
Rows == {i \in Row : amount[i] > 0}
Idle == [step |-> "idle", valid |-> 0, row |-> 0, was |-> 0]
Least(a, b) == IF a < b THEN a ELSE b
TotalOf(f) == MapThenSumSet(LAMBDA i : f[i], Row)
Total == TotalOf(amount)

Init ==
  /\ amount = [i \in Row |-> 0] /\ old = {}
  /\ request = [r \in Request |-> Idle]
  /\ asked = 0 /\ told = 0 /\ overlap = FALSE

Left_OfRecent == Limit - MapThenSumSet(LAMBDA i : amount[i], Row \ old)

Left == Limit - Total

\* appreciateLeftByUser: nothing left, or no more than is left.
Ask(r, n) ==
  /\ request[r] = Idle /\ asked < MaxAsked
  /\ Left > 0
  /\ asked' = asked + 1
  /\ request' = [request EXCEPT ![r] = [Idle EXCEPT !.step = "find", !.valid = Least(n, Left)]]
  /\ overlap' = (overlap \/ \E o \in Request \ {r} : request[o] # Idle)
  /\ UNCHANGED <<amount, old, told>>

\* A row of the last 5 minutes: the oldest, which may be any of them.
FindBundle(r) ==
  /\ request[r].step = "find"
  /\ IF Rows \ old = {}
     THEN request' = [request EXCEPT ![r].step = "insert"]
     ELSE \E i \in Rows \ old :
            request' = [request EXCEPT ![r].step = "update", ![r].row = i, ![r].was = amount[i]]
  /\ UNCHANGED <<amount, old, asked, told, overlap>>

Bundled_Replaced(was, n) == Least(n, Limit)

\* From the amount that was read.
Bundled(was, n) == Least(was + n, Limit)

\* WHERE Limit >= the sum so far, which does not count what is added.
AddToBundle(r) ==
  LET q == request[r] IN
  /\ q.step = "update"
  /\ IF Limit >= Total
     THEN amount' = [amount EXCEPT ![q.row] = Bundled(q.was, q.valid)] /\ old' = old \ {q.row}
     ELSE UNCHANGED <<amount, old>>
  /\ request' = [request EXCEPT ![r].step = "like"]
  /\ UNCHANGED <<asked, told, overlap>>

\* An insert has no WHERE.
InsertRow(r) ==
  /\ request[r].step = "insert"
  /\ \E i \in Row \ Rows :
       /\ \A j \in 1..(i - 1) : j \in Rows
       /\ amount' = [amount EXCEPT ![i] = Least(request[r].valid, Limit)]
  /\ request' = [request EXCEPT ![r].step = "like"]
  /\ UNCHANGED <<old, asked, told, overlap>>

\* likecoin.like, whatever was written.
Like(r) ==
  /\ request[r].step = "like"
  /\ told' = told + request[r].valid
  /\ request' = [request EXCEPT ![r] = Idle]
  /\ UNCHANGED <<amount, old, asked, overlap>>

FiveMinutesPass ==
  /\ Rows # old /\ old' = Rows
  /\ UNCHANGED <<amount, request, asked, told, overlap>>

Next ==
  \/ FiveMinutesPass
  \/ \E r \in Request : \/ \E n \in 1..Limit : Ask(r, n)
                        \/ FindBundle(r) \/ AddToBundle(r) \/ InsertRow(r) \/ Like(r)

Spec == Init /\ [][Next]_appreciationVars

-----------------------------------------------------------------------------
(* Amounts and steps are those of the code. *)
TypeOK ==
  /\ \A i \in Row : amount[i] \in 0..Limit
  /\ old \subseteq Rows /\ asked \in 0..MaxAsked
  /\ \A r \in Request : request[r].step \in {"idle", "find", "update", "insert", "like"}

(* A member gives an article no more than the limit, and LikeCoin is told what was
   recorded (articleService.ts:678-783, appreciateArticle.ts:85-115), unless
   requests overlapped: then an update from the amount read loses what another
   one added, and rows beyond the limit are inserted, up to what each was
   allowed. *)
GivenWithinLimit ==
  /\ Total <= IF overlap THEN Limit * Cardinality(Request) ELSE Limit
  /\ ~overlap /\ (\A r \in Request : request[r] = Idle) => told = Total
=============================================================================
