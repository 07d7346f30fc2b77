------------------------------ MODULE AccountCase ------------------------------
(* The freeze of one account as its parts record it: user.state, the `frozen`
   row of user_restriction and the moderation cases the transparency figures
   count (freezeUser, unfreezeUser of connectors/userService.ts,
   recordAccountRestrictionCase, resolveAccountRestrictionCase of
   connectors/systemService.ts).  Staff freeze by separate statements; a spam ring
   in one transaction, whose case is recorded and resolved by statements that
   nobody waits for.  The spam marks are in UserState, the ring in SpamRing. *)
EXTENDS Naturals, FiniteSets

CONSTANTS
  Actor,     \* requests of staff and rings at once
  MaxMoves   \* how many requests there are

VARIABLES
  account,    \* state, the `frozen` row, and whether the ring claims the freeze
  cases,      \* per source of a freeze: its outcome and whether resolvedAt is set
  newest,     \* the source whose case has the higher id
  actor,      \* per request: its next statement, source, and the case it read
  moves,
  history     \* not in the code: what the properties except, see below

caseVars == <<account, cases, newest, actor, moves, history>>

Source == {"admin", "model_assisted"}
State == {"active", "frozen", "banned"}
Idle == [step |-> "idle", source |-> "admin"]

\* overlap: two requests at once.  cut: one that ended half-way or was rolled back.  banned: a
\* frozen account was banned.  over: staff froze a frozen account.  again: a
\* resolved case was limited once more.
Event == {"overlap", "cut", "banned", "over", "again"}

Init ==
  /\ account = [state |-> "active", restricted |-> FALSE, claimed |-> FALSE]
  /\ cases = [s \in Source |-> [outcome |-> "none", resolved |-> FALSE]]
  /\ newest = "none"
  /\ actor = [p \in Actor |-> Idle]
  /\ moves = 0
  /\ history = {}

Busy(p) == actor[p].step # "idle"

Begin(p, step, source) ==
  /\ ~Busy(p) /\ moves < MaxMoves
  /\ moves' = moves + 1
  /\ actor' = [actor EXCEPT ![p] = [step |-> step, source |-> source]]

Overlap(p) == IF \E o \in Actor \ {p} : Busy(o) THEN {"overlap"} ELSE {}

GoOn(p, step) == actor' = [actor EXCEPT ![p].step = step]

-----------------------------------------------------------------------------
(* updateUserState: what is done is decided by the state read here. *)

StaffFreeze(p) ==
  /\ Begin(p, "restrict", "admin")
  /\ history' = history \cup Overlap(p)
                        \cup IF account.state = "frozen" THEN {"over"} ELSE {}
  /\ UNCHANGED <<account, cases, newest>>

StaffUnfreeze(p) ==
  /\ account.state = "frozen"
  /\ Begin(p, "lift", "admin")
  /\ history' = history \cup Overlap(p)
  /\ UNCHANGED <<account, cases, newest>>

\* To banned from any state, back to active from banned.
StaffBan(p) ==
  /\ account.state # "banned" /\ ~Busy(p) /\ moves < MaxMoves
  /\ moves' = moves + 1
  /\ account' = [account EXCEPT !.state = "banned"]
  /\ history' = history \cup Overlap(p)
                        \cup IF account.state = "frozen" THEN {"banned"} ELSE {}
  /\ UNCHANGED <<cases, newest, actor>>

StaffUnban(p) ==
  /\ account.state = "banned" /\ ~Busy(p) /\ moves < MaxMoves
  /\ moves' = moves + 1
  /\ account' = [account EXCEPT !.state = "active"]
  /\ history' = history \cup Overlap(p)
  /\ UNCHANGED <<cases, newest, actor>>

-----------------------------------------------------------------------------
(* freezeUser and unfreezeUser, statement by statement. *)

Restrict(p) ==
  /\ actor[p].step = "restrict"
  /\ account' = [account EXCEPT !.restricted = TRUE]
  /\ GoOn(p, "freeze")
  /\ UNCHANGED <<cases, newest, moves, history>>

Freeze(p) ==
  /\ actor[p].step = "freeze"
  /\ account' = [account EXCEPT !.state = "frozen"]
  /\ GoOn(p, "find")
  /\ UNCHANGED <<cases, newest, moves, history>>

Lifted_RowKept(a) == a

Lifted(a) == [a EXCEPT !.restricted = FALSE]

LiftRestriction(p) ==
  /\ actor[p].step = "lift"
  /\ account' = Lifted(account)
  /\ GoOn(p, "activate")
  /\ UNCHANGED <<cases, newest, moves, history>>

Activate(p) ==
  /\ actor[p].step = "activate"
  /\ account' = [account EXCEPT !.state = "active"]
  /\ GoOn(p, "open")
  /\ UNCHANGED <<cases, newest, moves, history>>

\* freezeRing and unfreezeRing: one transaction that locks the account; what
\* comes after it runs on a connection of its own.
RingFreeze(p) ==
  /\ account.state = "active"
  /\ Begin(p, "find", "model_assisted")
  /\ account' = [state |-> "frozen", restricted |-> TRUE, claimed |-> TRUE]
  /\ history' = history \cup Overlap(p)
  /\ UNCHANGED <<cases, newest>>

\* A later member makes the transaction fail; the case is on its way already.
RingRollsBack(p) ==
  /\ account.state = "active" /\ "cut" \notin history
  /\ Begin(p, "find", "model_assisted")
  /\ history' = history \cup Overlap(p) \cup {"cut"}
  /\ UNCHANGED <<account, cases, newest>>

RingUnfreeze(p) ==
  /\ account.state = "frozen" /\ account.claimed
  /\ Begin(p, "open", "model_assisted")
  /\ account' = [state |-> "active", restricted |-> FALSE, claimed |-> FALSE]
  /\ history' = history \cup Overlap(p)
  /\ UNCHANGED <<cases, newest>>

-----------------------------------------------------------------------------
(* The case. *)

\* findOrCreateModerationCase: one per source, target and reason.
FindCase(p) ==
  LET s == actor[p].source IN
  /\ actor[p].step = "find"
  /\ newest' = IF cases[s].outcome = "none" THEN s ELSE newest
  /\ cases' = [cases EXCEPT ![s].outcome = IF @ = "none" THEN "received" ELSE @]
  /\ GoOn(p, "limit")
  /\ UNCHANGED <<account, moves, history>>

\* Status and outcome are set; resolvedAt stays what it is.
LimitCase(p) ==
  LET s == actor[p].source IN
  /\ actor[p].step = "limit"
  /\ cases' = [cases EXCEPT ![s].outcome = "limited"]
  /\ actor' = [actor EXCEPT ![p] = Idle]
  /\ history' = history \cup IF cases[s].resolved THEN {"again"} ELSE {}
  /\ UNCHANGED <<account, newest, moves>>

\* The cases an unfreeze looks for.
Open == {s \in Source : cases[s].outcome = "limited" /\ ~cases[s].resolved}

\* ... of which it takes the one with the highest id.
ReadOpenCase(p) ==
  /\ actor[p].step = "open"
  /\ IF Open = {} THEN actor' = [actor EXCEPT ![p] = Idle]
     ELSE \E s \in Open : /\ Cardinality(Open) = 1 \/ s = newest
                          /\ actor' = [actor EXCEPT ![p] = [step |-> "resolve", source |-> s]]
  /\ UNCHANGED <<account, cases, newest, moves, history>>

ResolvedCase_StatusOnly == [outcome |-> "limited", resolved |-> TRUE]

ResolvedCase == [outcome |-> "restored", resolved |-> TRUE]

ResolveCase(p) ==
  /\ actor[p].step = "resolve"
  /\ cases' = [cases EXCEPT ![actor[p].source] = ResolvedCase]
  /\ actor' = [actor EXCEPT ![p] = Idle]
  /\ UNCHANGED <<account, newest, moves, history>>

\* A statement throws, which for a case is logged only, or the server stops.
CutOff(p) ==
  /\ Busy(p)
  /\ "cut" \notin history   \* one is enough
  /\ history' = history \cup {"cut"}
  /\ actor' = [actor EXCEPT ![p] = Idle]
  /\ UNCHANGED <<account, cases, newest, moves>>

Next == \E p \in Actor :
  \/ StaffFreeze(p) \/ StaffUnfreeze(p) \/ StaffBan(p) \/ StaffUnban(p)
  \/ Restrict(p) \/ Freeze(p) \/ LiftRestriction(p) \/ Activate(p)
  \/ RingFreeze(p) \/ RingRollsBack(p) \/ RingUnfreeze(p)
  \/ FindCase(p) \/ LimitCase(p) \/ ReadOpenCase(p) \/ ResolveCase(p)
  \/ CutOff(p)

Spec == Init /\ [][Next]_caseVars

-----------------------------------------------------------------------------
(* States, steps and outcomes are those of the code. *)
TypeOK ==
  /\ account \in [state : State, restricted : BOOLEAN, claimed : BOOLEAN]
  /\ cases \in [Source -> [outcome : {"none", "received", "limited", "restored"},
                           resolved : BOOLEAN]]
  /\ newest \in Source \cup {"none"}
  /\ \A p \in Actor : actor[p].step \in {"idle", "restrict", "freeze", "lift",
                                         "activate", "find", "limit", "open", "resolve"}
  /\ moves \in 0..MaxMoves /\ history \subseteq Event

AtRest == \A p \in Actor : ~Busy(p)

(* Who is hidden is frozen and the other way round, once all requests are over
   (userService.ts:2054-2092, 2116-2121), unless requests overlapped, one ended
   half-way, or a frozen account was banned: a ban leaves the row, and no later
   unfreeze is offered. *)
HiddenIsFrozen ==
  AtRest /\ history \cap {"overlap", "cut", "banned"} = {} =>
    account.restricted = (account.state = "frozen")

(* What the figures count is the truth: a frozen account has a limited case, one
   that is not frozen has none (systemService.ts:862-982), with the exceptions
   above; and two more, for cases that nothing will ever resolve: that of an
   account frozen anew for the same reason keeps its old resolvedAt, and of two
   freezes over one another the one unfreeze resolves one. *)
CaseTellsFreeze ==
  AtRest /\ history \cap {"overlap", "cut", "banned"} = {} =>
    LET limited == {s \in Source : cases[s].outcome = "limited"} IN
    /\ account.state = "frozen" => limited # {}
    /\ account.state # "frozen" /\ "again" \notin history =>
         IF "over" \in history THEN Cardinality(limited) <= 1 ELSE limited = {}
=============================================================================
