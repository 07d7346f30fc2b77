------------------------------- MODULE Notice -------------------------------
(* The notice of one like and its withdrawal (connectors/notification/
   notificationService.ts and the Lambda handlers/notify.ts).

   A like triggers a message to SQS, which a Lambda turns into a notice; an
   unlike withdraws it.  Neither is awaited by its request.  They meet in four
   Redis keys of the notice's tag: skip-notice (the message is to be dropped),
   lock-notice (a Lambda is at it), delete-notice (the notices made of late) and
   the hash of the message.  Likes of moments, collections and comments and
   follows all go this way.  Two reads of the Lambda before its lock are one
   step, and so are its three writes after the notice. *)
EXTENDS Naturals, FiniteSets

CONSTANTS
  Session,     \* requests of one member for one thing at once
  Lambda,      \* invocations at once
  MaxLikes,    \* how many requests are made
  MaxTroubles  \* lost sends, repeated deliveries and failed invocations

VARIABLES
  liked,     \* the action row is there
  session,   \* per request: what is left of trigger or withdraw
  sent,      \* messages waiting in SQS
  lambda,    \* per invocation: step, and the notice it made
  skip, lock, hash, recorded,  \* the Redis keys; recorded is delete-notice
  made, shown,                 \* notices made so far, and not deleted
  aged,      \* notices no longer recorded because the key expired
  likes, troubles,
  crossed,   \* two requests were under way at once
  slipped,   \* a withdrawal passed by an invocation that held no lock yet
  paired     \* two invocations worked at once

noticeVars == <<liked, session, sent, lambda, skip, lock, hash, recorded, made,
                shown, aged, likes, troubles, crossed, slipped, paired>>

keys == <<skip, lock, hash, recorded>>
ghosts == <<likes, troubles, crossed, slipped, paired>>

Init ==
  /\ liked = FALSE
  /\ session = [s \in Session |-> "idle"]
  /\ sent = 0
  /\ lambda = [w \in Lambda |-> [step |-> "idle", notice |-> 0]]
  /\ skip = FALSE /\ lock = FALSE /\ hash = FALSE /\ recorded = {}
  /\ made = 0 /\ shown = {} /\ aged = {}
  /\ likes = 0 /\ troubles = 0
  /\ crossed = FALSE /\ slipped = FALSE /\ paired = FALSE

At(w) == lambda[w].step
GoesTo(s, step) == session' = [session EXCEPT ![s] = step]
Trouble == troubles < MaxTroubles /\ troubles' = troubles + 1

-----------------------------------------------------------------------------
(* The server *)

Begin(s, step) ==
  /\ session[s] = "idle" /\ likes < MaxLikes
  /\ likes' = likes + 1
  /\ GoesTo(s, step)
  /\ crossed' = (crossed \/ \E o \in Session : session[o] # "idle")
  /\ UNCHANGED <<sent, lambda, keys, made, shown, aged, troubles, slipped, paired>>

\* likeMoment: the row is made or stays, then trigger, unawaited
Like(s) == Begin(s, "clear") /\ liked' = TRUE

\* unlikeMoment: the row is deleted, then withdraw, unawaited
Unlike(s) == Begin(s, "wait") /\ liked' = FALSE

Cleared_NotAtAll == skip

\* What trigger leaves of the skip flag.
Cleared == FALSE

ClearFlag(s) ==
  /\ session[s] = "clear"
  /\ skip' = Cleared
  /\ GoesTo(s, "send")
  /\ UNCHANGED <<liked, sent, lambda, lock, hash, recorded, made, shown, aged, ghosts>>

Send(s) ==
  /\ session[s] = "send"
  /\ sent' = sent + 1
  /\ GoesTo(s, "idle")
  /\ UNCHANGED <<liked, lambda, keys, made, shown, aged, ghosts>>

\* sqsSendMessage throws: logged, and nobody hears of it.
LoseMessage(s) ==
  /\ session[s] = "send" /\ Trouble
  /\ GoesTo(s, "idle")
  /\ UNCHANGED <<liked, sent, lambda, keys, made, shown, aged, likes, crossed, slipped, paired>>

MayWithdraw_AtOnce == TRUE

\* withdraw asks for the lock every 100 ms.
MayWithdraw == ~lock

AwaitLock(s) ==
  /\ session[s] = "wait" /\ MayWithdraw
  /\ slipped' = (slipped \/ \E w \in Lambda : At(w) = "lock")
  /\ GoesTo(s, "flag")
  /\ UNCHANGED <<liked, sent, lambda, keys, made, shown, aged, likes, troubles, crossed, paired>>

SetFlag(s) ==
  /\ session[s] = "flag"
  /\ skip' = TRUE
  /\ GoesTo(s, "delete")
  /\ UNCHANGED <<liked, sent, lambda, lock, hash, recorded, made, shown, aged, ghosts>>

DeleteNotices(s) ==
  /\ session[s] = "delete"
  /\ shown' = shown \ recorded
  /\ GoesTo(s, "forget")
  /\ UNCHANGED <<liked, sent, lambda, keys, made, aged, ghosts>>

ForgetNotices(s) ==
  /\ session[s] = "forget"
  /\ recorded' = {}
  /\ GoesTo(s, "idle")
  /\ UNCHANGED <<liked, sent, lambda, skip, lock, hash, made, shown, aged, ghosts>>

-----------------------------------------------------------------------------
(* The Lambda *)

IsDuplicate_Never == FALSE

\* The same message was processed of late, and its notice not withdrawn since.
IsDuplicate == hash /\ recorded # {}

Receive(w) ==
  LET goesOn == ~skip /\ ~IsDuplicate IN
  /\ At(w) = "idle" /\ sent > 0
  /\ sent' = sent - 1
  /\ lambda' = [lambda EXCEPT ![w].step = IF goesOn THEN "lock" ELSE "idle"]
  /\ slipped' = (slipped \/ (goesOn /\ \E s \in Session : session[s] = "flag"))
  /\ paired' = (paired \/ (goesOn /\ \E o \in Lambda : At(o) # "idle"))
  /\ UNCHANGED <<liked, session, keys, made, shown, aged, likes, troubles, crossed>>

TakeLock(w) ==
  /\ At(w) = "lock"
  /\ lock' = TRUE
  /\ lambda' = [lambda EXCEPT ![w].step = "process"]
  /\ UNCHANGED <<liked, session, sent, skip, hash, recorded, made, shown, aged, ghosts>>

\* notificationService.process: a recipient who wants to know of it
Process(w) ==
  /\ At(w) = "process"
  /\ made' = made + 1
  /\ shown' = shown \cup {made'}
  /\ lambda' = [lambda EXCEPT ![w] = [step |-> "record", notice |-> made']]
  /\ UNCHANGED <<liked, session, sent, keys, aged, ghosts>>

Record(w) ==
  /\ At(w) = "record"
  /\ hash' = TRUE
  /\ recorded' = recorded \cup {lambda[w].notice}
  /\ lock' = FALSE
  /\ lambda' = [lambda EXCEPT ![w] = [step |-> "idle", notice |-> 0]]
  /\ UNCHANGED <<liked, session, sent, skip, made, shown, aged, ghosts>>

\* It throws or stops: the message comes again, the lock stays.
Fail(w) ==
  /\ At(w) # "idle" /\ Trouble
  /\ sent' = sent + 1
  /\ lambda' = [lambda EXCEPT ![w] = [step |-> "idle", notice |-> 0]]
  /\ UNCHANGED <<liked, session, keys, made, shown, aged, likes, crossed, slipped, paired>>

\* SQS hands out the same message twice.
Redeliver ==
  /\ sent > 0 /\ Trouble
  /\ sent' = sent + 1
  /\ UNCHANGED <<liked, session, lambda, keys, made, shown, aged, likes, crossed, slipped, paired>>

-----------------------------------------------------------------------------
(* The keys expire: the flag when no message waits any more, the lock when
   nobody works, the record when nobody withdraws. *)

ExpireFlag ==
  /\ skip /\ sent = 0
  /\ skip' = FALSE
  /\ UNCHANGED <<liked, session, sent, lambda, lock, hash, recorded, made, shown, aged, ghosts>>

LockTimesOut_Never == FALSE

\* lockTTL: a lock nobody deletes
LockTimesOut == lock

ExpireLock ==
  /\ LockTimesOut
  /\ \A w \in Lambda : At(w) \notin {"process", "record"}
  /\ lock' = FALSE
  /\ UNCHANGED <<liked, session, sent, lambda, skip, hash, recorded, made, shown, aged, ghosts>>

ExpireRecord ==
  /\ recorded # {}
  /\ \A s \in Session : session[s] = "idle"
  /\ aged' = aged \cup recorded
  /\ recorded' = {} /\ hash' = FALSE
  /\ UNCHANGED <<liked, session, sent, lambda, skip, lock, made, shown, ghosts>>

Next ==
  \/ \E s \in Session :
       \/ Like(s) \/ Unlike(s) \/ ClearFlag(s) \/ Send(s) \/ LoseMessage(s)
       \/ AwaitLock(s) \/ SetFlag(s) \/ DeleteNotices(s) \/ ForgetNotices(s)
  \/ \E w \in Lambda :
       Receive(w) \/ TakeLock(w) \/ Process(w) \/ Record(w) \/ Fail(w)
  \/ Redeliver \/ ExpireFlag \/ ExpireLock \/ ExpireRecord

Fairness ==
  /\ \A s \in Session :
       /\ WF_noticeVars(AwaitLock(s))
       /\ WF_noticeVars(ClearFlag(s) \/ Send(s) \/ SetFlag(s)
                          \/ DeleteNotices(s) \/ ForgetNotices(s))
  /\ \A w \in Lambda : WF_noticeVars(TakeLock(w) \/ Process(w) \/ Record(w))
  /\ WF_noticeVars(\E w \in Lambda : Receive(w))
  /\ WF_noticeVars(ExpireLock)

Spec == Init /\ [][Next]_noticeVars /\ Fairness

-----------------------------------------------------------------------------
AtRest ==
  /\ sent = 0
  /\ \A s \in Session : session[s] = "idle"
  /\ \A w \in Lambda : At(w) = "idle"

(* Steps are those of the code, and the notices recorded or shown were made. *)
TypeOK ==
  /\ \A s \in Session :
       session[s] \in {"idle", "clear", "send", "wait", "flag", "delete", "forget"}
  /\ \A w \in Lambda :
       /\ At(w) \in {"idle", "lock", "process", "record"}
       /\ lambda[w].notice \in 0..made
  /\ recorded \cup shown \cup aged \subseteq 1..made

(* When all has come to rest, no fresh notice tells of a like that was taken
   back (notificationService.ts:112-133, notify.ts:25-60) - unless the requests
   overlapped, the withdrawal slipped past an invocation that had passed the flag
   and had no lock, two invocations shared the lock, or one failed. *)
WithdrawnLeavesNothing ==
  AtRest /\ ~liked /\ ~crossed /\ ~slipped /\ ~paired /\ troubles = 0
    => shown \subseteq aged

(* When all has come to rest, a like has its notice, whatever was withdrawn
   before it (notificationService.ts:88-104), unless the requests overlapped or
   the message was lost. *)
LikeIsTold ==
  AtRest /\ liked /\ ~crossed /\ troubles = 0 => shown # {}

(* Likes repeated within the lifetime of the record are told once
   (notify.ts:35-44), unless two invocations worked at once, one failed, or
   a withdrawal met another request or an invocation: it then also drops the
   record of a notice made after it looked. *)
ToldOnce ==
  ~crossed /\ ~slipped /\ ~paired /\ troubles = 0 => Cardinality(shown \ aged) <= 1

(* A withdrawal comes to its end: the lock it waits for is released, or expires
   when the invocation that held it is gone (notify.ts:12, 46-61). *)
WithdrawalEnds ==
  \A s \in Session : session[s] = "wait" ~> session[s] = "idle"
=============================================================================
