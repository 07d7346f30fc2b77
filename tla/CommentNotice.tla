----------------------------- MODULE CommentNotice -----------------------------
(* Who is told of one comment on an article or a moment (mutations/comment/
   putComment.ts): the author of what is commented on, of the comment at the top of
   the thread, of the one replied to, and who is mentioned, each of whom may be any
   of the others; when it is new, and when it is edited. *)
EXTENDS Naturals, Sequences, SequencesExt

CONSTANTS
  Person,
  NoPerson,    \* undefined in the code, not in Person
  MaxEdits   \* edits there may be

VARIABLES
  thread,    \* where the comment stands: kind, authors, states
  mentioned, \* mentionedUserIds of the request, in order
  edits,     \* requests on the comment so far
  told       \* per person: how often a notice about the last request was triggered

commentNoticeVars == <<thread, mentioned, edits, told>>

(* level: "top" has neither a parent nor a comment it replies to, "parent" replies
   to the parent, "reply" to another comment below it, "parentOnly" names no
   comment it replies to. *)
Thread ==
  [kind : {"article", "moment"}, level : {"top", "parent", "reply", "parentOnly"},
   target : Person, parent : Person \cup {NoPerson}, replied : Person \cup {NoPerson},
   parentActive : BOOLEAN]

Fitting(x) ==
  /\ (x.level = "top") = (x.parent = NoPerson)
  /\ (x.level \in {"top", "parentOnly"}) = (x.replied = NoPerson)
  /\ x.level = "parent" => x.replied = x.parent
  /\ x.level = "top" => ~x.parentActive

Init ==
  /\ thread \in {x \in Thread : Fitting(x)}
  /\ mentioned = <<>>
  /\ edits = 0
  /\ told = [p \in Person |-> 0]

Mentioned(p, ms) == Contains(ms, p)

\* The author of the article, unless they are told as author of a comment.
ToTarget(ms) ==
  IF /\ thread.kind = "article" /\ ~Mentioned(thread.target, ms)
     /\ \/ thread.level = "top"
        \/ thread.target # thread.parent /\ thread.target # thread.replied
  THEN {thread.target} ELSE {}

ToParent_Always(ms) ==
  IF /\ thread.kind = "article" /\ ~Mentioned(thread.parent, ms)
     /\ thread.parentActive
  THEN {thread.parent} ELSE {}

ToParent(ms) ==
  IF /\ thread.kind = "article" /\ ~Mentioned(thread.parent, ms)
     /\ thread.parentActive
     /\ thread.level = "parent" \/ thread.parent # thread.replied
  THEN {thread.parent} ELSE {}

\* Whenever parent and comment replied to differ, also when there is none.
ToReplied(ms) ==
  IF /\ thread.kind = "article" /\ ~Mentioned(thread.replied, ms)
     /\ thread.level \in {"reply", "parentOnly"}
  THEN {thread.replied} \ {NoPerson} ELSE {}

\* Of a moment, with every edit.
ToMomentAuthor(ms) ==
  IF thread.kind = "moment" /\ ~Mentioned(thread.target, ms) THEN {thread.target} ELSE {}

Once(p, who) == IF p \in who THEN 1 ELSE 0

\* One trigger for each mention, repeated ones too.
Mentions(p, ms) == Len(SelectSeq(ms, LAMBDA m : m = p))

ByRole_OnEdit(ms, new) ==
  [p \in Person |-> Once(p, ToTarget(ms)) + Once(p, ToParent(ms)) + Once(p, ToReplied(ms))]

\* Roles count when the comment is new.
ByRole(ms, new) ==
  [p \in Person |-> IF new THEN Once(p, ToTarget(ms)) + Once(p, ToParent(ms))
                                  + Once(p, ToReplied(ms)) ELSE 0]

PutComment(ms) ==
  /\ edits <= MaxEdits
  /\ edits' = edits + 1
  /\ mentioned' = ms
  /\ told' = [p \in Person |-> ByRole(ms, edits = 0)[p] + Once(p, ToMomentAuthor(ms))
                                 + Mentions(p, ms)]
  /\ UNCHANGED thread

Next == \E ms \in SeqOf(Person, 2) : PutComment(ms)

Spec == Init /\ [][Next]_commentNoticeVars

-----------------------------------------------------------------------------
(* Counts are those of the code. *)
TypeOK ==
  /\ thread \in Thread /\ edits \in 0..(MaxEdits + 1)
  /\ told \in [Person -> Nat]

(* A new comment on an article is told once to everybody it concerns, whatever roles
   one person unites, and to nobody else (putComment.ts:411-474, 568-582), with two
   exceptions: who is mentioned twice is told twice; and who wrote the comment at the
   top of the thread is, once it is folded or deleted, not told of answers to it, and
   not of answers below it as author of the article either. *)
ConcernedAreToldOnce ==
  edits = 1 /\ thread.kind = "article" =>
    LET concerned == {thread.target, thread.replied} \cup ToSet(mentioned)
                       \cup (IF thread.parentActive THEN {thread.parent} ELSE {})
        leftOut == IF thread.parentActive THEN {}
                   ELSE IF thread.level = "parent" THEN {thread.parent}
                   ELSE ({thread.parent} \cap {thread.target}) \ {thread.replied}
        expected == concerned \ (leftOut \ ToSet(mentioned))
    IN \A p \in Person :
         told[p] = IF p \notin expected THEN 0 ELSE IF Mentions(p, mentioned) > 1 THEN 2 ELSE 1

(* An edit is told to those mentioned (putComment.ts:568-582); but the author of a
   moment is told again of every comment edited (putComment.ts:552-566). *)
EditsToldToMentioned ==
  [ edits > 0 =>
      \A p \in Person : told'[p] > Mentions(p, mentioned') =>
        thread.kind = "moment" /\ p = thread.target
  ]_commentNoticeVars
=============================================================================
