------------------------------- MODULE SpamRing -------------------------------
(***************************************************************************)
(* Spam rings: a detection job upserts rings and their members and hides   *)
(* the members; moderators freeze a ring in one transaction that locks it, *)
(* unfreeze it, or dismiss it as a false positive.  Detection and dismissal*)
(* are sequences of single statements, so they interleave with everything. *)
(* What others do to a member (UserState) appears as writes of its state.  *)
(***************************************************************************)
EXTENDS Integers, FiniteSets

CONSTANTS User,       \* members of rings
          Ring,       \* fingerprints
          NoRing,     \* no ring
          Detection,  \* candidates upserted concurrently
          Dismissal   \* dismissRing requests under way at once

ASSUME SpamRingAssumption == NoRing \notin Ring

VARIABLES state,      \* User -> user.state
          hidden,     \* users with a spamRing row in user_restriction
          ring,       \* Ring -> spam_ring.status, "none" without a row
          member,     \* Ring -> User -> its spam_ring_member
          detection,  \* Detection -> where an upsertCandidates stands
          dismissal,  \* Dismissal -> where a dismissRing stands
          cause       \* not in the code: the ring whose freeze is the last
                      \* change of a user's state, if it is one

vars == <<state, hidden, ring, member, detection, dismissal, cause>>

UserStates == {"active", "banned", "frozen", "archived"}

RingStatus == {"none", "pending", "frozen", "dismissed", "restored"}

\* claimed is banned_by_this_ring, pre is pre_freeze_state.
Member == [status  : {"none", "pending", "frozen", "skipped", "restored"},
           claimed : BOOLEAN,
           pre     : UserStates \cup {"unset"}]

NoMember == [status |-> "none", claimed |-> FALSE, pre |-> "unset"]

NoDetection == [pc |-> "idle", ring |-> NoRing, existed |-> FALSE,
                found |-> {}, hiding |-> {}]

NoDismissal == [pc |-> "idle", ring |-> NoRing, lift |-> {}]

TypeOK ==
  /\ state \in [User -> UserStates]
  /\ hidden \in SUBSET User
  /\ ring \in [Ring -> RingStatus]
  /\ member \in [Ring -> [User -> Member]]
  /\ detection \in [Detection -> [pc : {"idle", "found", "joining"},
                                  ring : Ring \cup {NoRing},
                                  existed : BOOLEAN,
                                  found : SUBSET User, hiding : SUBSET User]]
  /\ dismissal \in [Dismissal -> [pc : {"idle", "dismissed", "lifting"},
                                  ring : Ring \cup {NoRing},
                                  lift : SUBSET User]]
  /\ cause \in [User -> Ring \cup {NoRing}]

Init ==
  /\ state = [u \in User |-> "active"]
  /\ hidden = {}
  /\ ring = [r \in Ring |-> "none"]
  /\ member = [r \in Ring |-> [u \in User |-> NoMember]]
  /\ detection = [d \in Detection |-> NoDetection]
  /\ dismissal = [p \in Dismissal |-> NoDismissal]
  /\ cause = [u \in User |-> NoRing]

Members(r) == {u \in User : member[r][u].status # "none"}

-----------------------------------------------------------------------------
(* upsertCandidates, one candidate at a time, statement by statement.      *)

\* findRingByFingerprint: a decided ring is left alone.
FindRing(d) ==
  /\ detection[d].pc = "idle"
  /\ \E r \in Ring, found \in SUBSET User \ {{}} :
       /\ ring[r] \notin {"frozen", "dismissed"}
       /\ detection' = [detection EXCEPT ![d] =
                          [pc |-> "found", ring |-> r,
                           existed |-> ring[r] # "none",
                           found |-> found, hiding |-> {}]]
  /\ UNCHANGED <<state, hidden, ring, member, dismissal, cause>>

\* The row is inserted (another run that did so makes this one throw), or it is
\* updated and its status read back: only members of a ring pending by then
\* are hidden, and only while the flag is on.
UpsertRing(d) ==
  LET r == detection[d].ring
      status == IF ring[r] = "none" THEN "pending" ELSE ring[r]
  IN /\ detection[d].pc = "found"
     /\ detection[d].existed = (ring[r] # "none")
     /\ ring' = [ring EXCEPT ![r] = status]
     /\ \E enabled \in BOOLEAN :
          detection' = [detection EXCEPT ![d].pc = "joining",
                          ![d].hiding = IF enabled /\ status = "pending"
                                        THEN detection[d].found ELSE {}]
     /\ UNCHANGED <<state, hidden, member, dismissal, cause>>

\* upsertMembers: a member there already is not touched.
JoinMember(d) ==
  LET r == detection[d].ring IN
  /\ detection[d].pc = "joining"
  /\ \E u \in detection[d].found :
       /\ member' = [member EXCEPT ![r][u] =
                       IF @.status = "none" THEN [@ EXCEPT !.status = "pending"]
                       ELSE @]
       /\ detection' = [detection EXCEPT ![d].found = @ \ {u}]
  /\ UNCHANGED <<state, hidden, ring, dismissal, cause>>

\* applyMemberRestrictions
HideMember(d) ==
  /\ detection[d].pc = "joining" /\ detection[d].found = {}
  /\ \E u \in detection[d].hiding :
       /\ hidden' = hidden \cup {u}
       /\ detection' = [detection EXCEPT ![d].hiding = @ \ {u}]
  /\ UNCHANGED <<state, ring, member, dismissal, cause>>

\* All is written, or a statement threw.
EndDetection(d) ==
  /\ detection[d].pc # "idle"
  /\ detection' = [detection EXCEPT ![d] = NoDetection]
  /\ UNCHANGED <<state, hidden, ring, member, dismissal, cause>>

-----------------------------------------------------------------------------
(* freezeRing and unfreezeRing: transactions that lock the ring's row and  *)
(* the users' rows, each one step.                                         *)

Considered_All(r, scope) == Members(r)

\* A frozen ring is refreshed: only new members the run has verified count.
Considered(r, scope) ==
  IF ring[r] = "frozen"
  THEN {u \in Members(r) \cap scope : member[r][u].status = "pending"}
  ELSE {u \in Members(r) : ~(member[r][u].status = "frozen" /\ member[r][u].claimed)}

Freezable_NotBanned(u) == state[u] \notin {"archived", "banned"}

\* Archived, banned and already frozen members are skipped.
Freezable(u) == state[u] = "active"

FrozenMember_NoState(s) == [status |-> "frozen", claimed |-> TRUE, pre |-> "unset"]

FrozenMember(s) == [status |-> "frozen", claimed |-> TRUE, pre |-> s]

SkippedMember(s) == [status |-> "skipped", claimed |-> FALSE, pre |-> s]

\* scope: the members verified by this run.  spared: those the guardrail on
\* age and karma leaves to humans.
FreezeRing(r, scope, spared) ==
  LET freeze == {u \in (Considered(r, scope) \cap scope) \ spared : Freezable(u)}
      skip   == Considered(r, scope) \ freeze
  IN /\ ring[r] \in {"pending", "frozen", "restored"}
     /\ ring[r] = "frozen" => Considered(r, scope) # {}
     /\ ring' = [ring EXCEPT ![r] = "frozen"]
     /\ member' = [member EXCEPT ![r] = [u \in User |->
          IF u \in freeze THEN FrozenMember(state[u])
          ELSE IF u \in skip THEN SkippedMember(state[u])
          ELSE member[r][u]]]
     /\ state' = [u \in User |-> IF u \in freeze THEN "frozen" ELSE state[u]]
     /\ cause' = [u \in User |-> IF u \in freeze THEN r ELSE cause[u]]
     /\ UNCHANGED <<hidden, detection, dismissal>>

\* liftMemberRestrictions: members no other detected ring holds.
Liftable(r) ==
  {u \in Members(r) : \A other \in Ring \ {r} :
                        ring[other] \in {"pending", "frozen"} => u \notin Members(other)}

Restorable_Any(r) == {u \in User : member[r][u].claimed}

\* A claimed member whose state was changed since is only recorded.
Restorable(r) == {u \in User : member[r][u].claimed /\ state[u] = "frozen"}

UnfreezeRing(r) ==
  LET restore == Restorable(r)
      changed == {u \in User : member[r][u].claimed} \ restore
  IN /\ ring[r] = "frozen"
     /\ ring' = [ring EXCEPT ![r] = "restored"]
     /\ member' = [member EXCEPT ![r] = [u \in User |->
          IF u \in restore
          THEN [member[r][u] EXCEPT !.status = "restored", !.claimed = FALSE]
          ELSE IF u \in changed THEN [member[r][u] EXCEPT !.status = "skipped"]
          ELSE member[r][u]]]
     /\ state' = [u \in User |-> IF u \in restore THEN member[r][u].pre
                                 ELSE state[u]]
     /\ cause' = [u \in User |-> IF u \in restore THEN NoRing ELSE cause[u]]
     /\ hidden' = hidden \ Liftable(r)
     /\ UNCHANGED <<detection, dismissal>>

-----------------------------------------------------------------------------
(* dismissRing: no transaction, no lock, no look at the status.            *)

Dismiss(p) ==
  /\ dismissal[p].pc = "idle"
  /\ \E r \in Ring :
       /\ ring[r] # "none"
       /\ ring' = [ring EXCEPT ![r] = "dismissed"]
       /\ dismissal' = [dismissal EXCEPT ![p].pc = "dismissed", ![p].ring = r]
  /\ UNCHANGED <<state, hidden, member, detection, cause>>

ReadLiftable(p) ==
  /\ dismissal[p].pc = "dismissed"
  /\ dismissal' = [dismissal EXCEPT ![p].pc = "lifting",
                                    ![p].lift = Liftable(dismissal[p].ring)]
  /\ UNCHANGED <<state, hidden, ring, member, detection, cause>>

Lift(p) ==
  /\ dismissal[p].pc = "lifting"
  /\ hidden' = hidden \ dismissal[p].lift
  /\ dismissal' = [dismissal EXCEPT ![p] = NoDismissal]
  /\ UNCHANGED <<state, ring, member, detection, cause>>

\* Staff, the unban job or the Stripe webhook write a member's state.
WriteState(u, s) ==
  /\ s # state[u]
  /\ state' = [state EXCEPT ![u] = s]
  /\ cause' = [cause EXCEPT ![u] = NoRing]
  /\ UNCHANGED <<hidden, ring, member, detection, dismissal>>

DetectionStep(d) == \/ FindRing(d) \/ UpsertRing(d) \/ JoinMember(d)
                    \/ HideMember(d) \/ EndDetection(d)

Next ==
  \/ \E d \in Detection : DetectionStep(d)
  \/ \E r \in Ring, scope \in SUBSET User \ {{}}, spared \in SUBSET User :
       FreezeRing(r, scope, spared)
  \/ \E r \in Ring : UnfreezeRing(r)
  \/ \E p \in Dismissal : Dismiss(p) \/ ReadLiftable(p) \/ Lift(p)
  \/ \E u \in User, s \in UserStates : WriteState(u, s)

Spec == Init /\ [][Next]_vars

-----------------------------------------------------------------------------
(* Properties.                                                             *)

\* A freeze that a ring caused and nobody has overwritten is on record with
\* that ring, with the state to go back to: no detection run, refresh, skip or
\* other ring ever loses it (spamRingService.ts:468-477).
FreezeOnRecord ==
  \A u \in User, r \in Ring :
    cause[u] = r => /\ state[u] = "frozen"
                    /\ member[r][u].status = "frozen"
                    /\ member[r][u].claimed
                    /\ member[r][u].pre = "active"

\* The status of a ring tells what its claims are: none before it is frozen,
\* and after it is restored only those on members others have changed.
ClaimsFitStatus ==
  \A r \in Ring, u \in User :
    member[r][u].claimed => /\ ring[r] \notin {"none", "pending"}
                            /\ ring[r] = "restored" => member[r][u].status = "skipped"
                            /\ member[r][u].pre = "active"

\* Unfreezing gives every member back what this ring took, and revives nobody
\* whom others have banned or archived since.
UnfreezeUndoesFreeze ==
  [][\A r \in Ring :
       ring[r] = "frozen" /\ ring'[r] = "restored" =>
         \A u \in User :
           /\ cause[u] = r => state'[u] = "active"
           /\ state[u] \in {"banned", "archived"} => state'[u] = state[u]]_vars
=============================================================================
