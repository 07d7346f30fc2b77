--------------------------- MODULE SpamRing_proofs ---------------------------
(***************************************************************************)
(* Proofs about SpamRing, for every set of users, rings, detection runs    *)
(* and dismissals.                                                         *)
(***************************************************************************)
EXTENDS SpamRing, TLAPS

\* A detection run or a dismissal under way has a ring.
BusyOK ==
  /\ \A d \in Detection : detection[d].pc # "idle" => detection[d].ring \in Ring
  /\ \A p \in Dismissal : dismissal[p].pc # "idle" => dismissal[p].ring \in Ring

IInv == TypeOK /\ BusyOK /\ FreezeOnRecord /\ ClaimsFitStatus

LEMMA InitIInv == Init => IInv
BY SpamRingAssumption
   DEF Init, IInv, TypeOK, BusyOK, FreezeOnRecord, ClaimsFitStatus, UserStates,
       RingStatus, Member, NoMember, NoDetection, NoDismissal

\* Steps that leave the accounts and the members alone keep the invariant, as
\* long as they keep the type and decide no ring other than by dismissing it.
LEMMA QuietStep ==
  ASSUME IInv, TypeOK', BusyOK', UNCHANGED <<state, member, cause>>,
         \A r \in Ring : \/ ring'[r] = ring[r]
                         \/ ring[r] = "none"
                         \/ ring'[r] = "dismissed"
  PROVE  IInv'
BY DEF IInv, FreezeOnRecord, ClaimsFitStatus

-----------------------------------------------------------------------------
(* Detection and dismissal.                                                *)

LEMMA DetectionKeepsIInv ==
  ASSUME IInv, NEW d \in Detection, DetectionStep(d)
  PROVE  IInv'
<1> USE DEF IInv, TypeOK
<1> DEFINE Run == [pc : {"idle", "found", "joining"}, ring : Ring \cup {NoRing},
                   existed : BOOLEAN, found : SUBSET User, hiding : SUBSET User]
<1>0. detection \in [Detection -> Run] /\ detection[d] \in Run
  OBVIOUS
<1>1. CASE FindRing(d)
  <2>1. PICK r \in Ring, found \in SUBSET User :
          detection' = [detection EXCEPT ![d] =
            [pc |-> "found", ring |-> r, existed |-> ring[r] # "none",
             found |-> found, hiding |-> {}]]
    BY <1>1 DEF FindRing
  <2>2. detection' \in [Detection -> Run]
    BY <2>1, <1>0
  <2>3. BusyOK'
    BY <1>1, <2>1 DEF FindRing, BusyOK
  <2>4. TypeOK'
    BY <1>1, <2>2 DEF FindRing
  <2>5. QED
    BY <1>1, <2>3, <2>4, QuietStep DEF FindRing
<1>2. CASE UpsertRing(d)
  <2> DEFINE r == detection[d].ring
             status == IF ring[r] = "none" THEN "pending" ELSE ring[r]
  <2>1. r \in Ring /\ ring[r] \in RingStatus
    BY <1>2 DEF UpsertRing, BusyOK
  <2>2. ring' = [ring EXCEPT ![r] = status] /\ status \in RingStatus
    BY <1>2, <2>1 DEF UpsertRing, RingStatus
  <2>3. PICK hiding \in SUBSET User :
          detection' = [detection EXCEPT ![d].pc = "joining", ![d].hiding = hiding]
    <3>1. PICK enabled \in BOOLEAN :
            detection' = [detection EXCEPT ![d].pc = "joining",
                            ![d].hiding = IF enabled /\ status = "pending"
                                          THEN detection[d].found ELSE {}]
      BY <1>2 DEF UpsertRing
    <3>2. (IF enabled /\ status = "pending" THEN detection[d].found ELSE {})
             \in SUBSET User
      BY <1>0
    <3>3. QED
      BY <3>1, <3>2
  <2>4. detection' \in [Detection -> Run]
    BY <2>3, <1>0
  <2>5. UNCHANGED <<state, hidden, member, dismissal, cause>>
    BY <1>2 DEF UpsertRing
  <2>6. BusyOK'
    BY <2>1, <2>3, <2>5, <1>0 DEF BusyOK
  <2>7. \A s \in Ring : ring'[s] = ring[s] \/ ring[s] = "none"
    BY <2>1, <2>2
  <2> HIDE DEF r, status
  <2>8. TypeOK'
    BY <2>2, <2>4, <2>5
  <2>9. QED
    BY <2>5, <2>6, <2>7, <2>8, QuietStep
<1>3. CASE JoinMember(d)
  <2> DEFINE r == detection[d].ring
  <2>1. r \in Ring
    BY <1>3 DEF JoinMember, BusyOK
  <2>2. PICK u \in detection[d].found :
          /\ member' = [member EXCEPT ![r][u] =
                          IF @.status = "none" THEN [@ EXCEPT !.status = "pending"]
                          ELSE @]
          /\ detection' = [detection EXCEPT ![d].found = @ \ {u}]
    BY <1>3 DEF JoinMember
  <2>3. u \in User /\ member[r][u] \in Member
    BY <1>0, <2>1, <2>2
  <2>4. member' \in [Ring -> [User -> Member]]
    BY <2>1, <2>2, <2>3 DEF Member
  <2>5. detection' \in [Detection -> Run]
    BY <2>2, <1>0
  <2>6. BusyOK'
    BY <1>3, <2>2, <1>0 DEF JoinMember, BusyOK
  <2>7. \A s \in Ring, v \in User :
          /\ member'[s][v].claimed = member[s][v].claimed
          /\ member'[s][v].pre = member[s][v].pre
          /\ member'[s][v].status = member[s][v].status \/ member[s][v].status = "none"
    BY <2>1, <2>2, <2>3 DEF Member
  <2>8. UNCHANGED <<state, hidden, ring, dismissal, cause>>
    BY <1>3 DEF JoinMember
  <2> HIDE DEF r
  <2>9. FreezeOnRecord'
    <3> SUFFICES ASSUME NEW v \in User, NEW s \in Ring, cause'[v] = s
                 PROVE  /\ state'[v] = "frozen"
                        /\ member'[s][v].status = "frozen"
                        /\ member'[s][v].claimed
                        /\ member'[s][v].pre = "active"
      BY DEF FreezeOnRecord
    <3>1. /\ state[v] = "frozen" /\ member[s][v].status = "frozen"
          /\ member[s][v].claimed /\ member[s][v].pre = "active"
      BY <2>8 DEF FreezeOnRecord
    <3>2. QED
      BY <2>7, <2>8, <3>1
  <2>10. ClaimsFitStatus'
    <3> SUFFICES ASSUME NEW s \in Ring, NEW v \in User, member'[s][v].claimed
                 PROVE  /\ ring'[s] \notin {"none", "pending"}
                        /\ ring'[s] = "restored" => member'[s][v].status = "skipped"
                        /\ member'[s][v].pre = "active"
      BY DEF ClaimsFitStatus
    <3>1. member[s][v].claimed
      BY <2>7
    <3>2. /\ ring[s] \notin {"none", "pending"}
          /\ ring[s] = "restored" => member[s][v].status = "skipped"
          /\ member[s][v].pre = "active"
      BY <3>1 DEF ClaimsFitStatus
    <3>3. QED
      BY <2>7, <2>8, <3>2
  <2>11. QED
    BY <2>4, <2>5, <2>6, <2>8, <2>9, <2>10
<1>4. CASE HideMember(d)
  <2>1. PICK u \in detection[d].hiding :
          /\ hidden' = hidden \cup {u}
          /\ detection' = [detection EXCEPT ![d].hiding = @ \ {u}]
    BY <1>4 DEF HideMember
  <2>2. detection' \in [Detection -> Run] /\ hidden' \in SUBSET User
    BY <2>1, <1>0
  <2>3. TypeOK'
    BY <1>4, <2>2 DEF HideMember
  <2>4. BusyOK'
    BY <1>4, <2>1, <1>0 DEF HideMember, BusyOK
  <2>5. QED
    BY <1>4, <2>3, <2>4, QuietStep DEF HideMember
<1>5. CASE EndDetection(d)
  <2>1. detection' \in [Detection -> Run]
    BY <1>5, <1>0 DEF EndDetection, NoDetection
  <2>2. TypeOK'
    BY <1>5, <2>1 DEF EndDetection
  <2>3. BusyOK'
    BY <1>5 DEF EndDetection, BusyOK, NoDetection
  <2>4. QED
    BY <1>5, <2>2, <2>3, QuietStep DEF EndDetection
<1>6. QED
  BY <1>1, <1>2, <1>3, <1>4, <1>5 DEF DetectionStep

LEMMA DismissalKeepsIInv ==
  ASSUME IInv, NEW p \in Dismissal, Dismiss(p) \/ ReadLiftable(p) \/ Lift(p)
  PROVE  IInv'
<1> USE DEF IInv, TypeOK
<1> DEFINE Run == [pc : {"idle", "dismissed", "lifting"},
                   ring : Ring \cup {NoRing}, lift : SUBSET User]
<1>0. dismissal \in [Dismissal -> Run] /\ dismissal[p] \in Run
  OBVIOUS
<1>1. CASE Dismiss(p)
  <2>1. PICK r \in Ring :
          /\ ring' = [ring EXCEPT ![r] = "dismissed"]
          /\ dismissal' = [dismissal EXCEPT ![p].pc = "dismissed", ![p].ring = r]
    BY <1>1 DEF Dismiss
  <2>2. ring' \in [Ring -> RingStatus] /\ dismissal' \in [Dismissal -> Run]
    BY <2>1, <1>0 DEF RingStatus
  <2>3. TypeOK'
    BY <1>1, <2>2 DEF Dismiss
  <2>4. BusyOK'
    BY <1>1, <2>1, <1>0 DEF Dismiss, BusyOK
  <2>5. \A s \in Ring : ring'[s] = ring[s] \/ ring'[s] = "dismissed"
    BY <2>1
  <2>6. QED
    BY <1>1, <2>3, <2>4, <2>5, QuietStep DEF Dismiss
<1>2. CASE ReadLiftable(p)
  <2>1. Liftable(dismissal[p].ring) \in SUBSET User
    BY DEF Liftable, Members
  <2>2. dismissal' \in [Dismissal -> Run]
    BY <1>2, <2>1, <1>0 DEF ReadLiftable
  <2>3. TypeOK'
    BY <1>2, <2>2 DEF ReadLiftable
  <2>4. BusyOK'
    BY <1>2, <1>0 DEF ReadLiftable, BusyOK
  <2>5. QED
    BY <1>2, <2>3, <2>4, QuietStep DEF ReadLiftable
<1>3. CASE Lift(p)
  <2>1. TypeOK'
    BY <1>3, <1>0 DEF Lift, NoDismissal
  <2>2. BusyOK'
    BY <1>3 DEF Lift, BusyOK, NoDismissal
  <2>3. QED
    BY <1>3, <2>1, <2>2, QuietStep DEF Lift
<1>4. QED
  BY <1>1, <1>2, <1>3

-----------------------------------------------------------------------------
(* Freezing, unfreezing, and everybody else.                               *)

LEMMA FreezeKeepsIInv ==
  ASSUME IInv, NEW r \in Ring, NEW scope \in SUBSET User, NEW spared \in SUBSET User,
         FreezeRing(r, scope, spared)
  PROVE  IInv'
<1> USE DEF IInv
<1> DEFINE freeze == {u \in (Considered(r, scope) \cap scope) \ spared : Freezable(u)}
           skip   == Considered(r, scope) \ freeze
<1>1. /\ ring' = [ring EXCEPT ![r] = "frozen"]
      /\ member' = [member EXCEPT ![r] = [u \in User |->
           IF u \in freeze THEN FrozenMember(state[u])
           ELSE IF u \in skip THEN SkippedMember(state[u])
           ELSE member[r][u]]]
      /\ state' = [u \in User |-> IF u \in freeze THEN "frozen" ELSE state[u]]
      /\ cause' = [u \in User |-> IF u \in freeze THEN r ELSE cause[u]]
      /\ UNCHANGED <<hidden, detection, dismissal>>
  BY DEF FreezeRing
<1>2. \A u \in freeze : state[u] = "active"
  BY DEF Freezable
\* Nobody this ring has on record as frozen is considered again.
<1>3. \A u \in User : member[r][u].status = "frozen" /\ member[r][u].claimed => u \notin freeze \cup skip
  BY DEF Considered
<1> HIDE DEF freeze, skip
<1>4. \A u \in User :
        member'[r][u] = IF u \in freeze THEN FrozenMember(state[u])
                        ELSE IF u \in skip THEN SkippedMember(state[u])
                        ELSE member[r][u]
  BY <1>1 DEF TypeOK
<1>5. \A s \in Ring \ {r} : member'[s] = member[s] /\ ring'[s] = ring[s]
  BY <1>1 DEF TypeOK
<1>6. TypeOK'
  <2>1. \A u \in User : FrozenMember(state[u]) \in Member /\ SkippedMember(state[u]) \in Member
    BY DEF TypeOK, FrozenMember, SkippedMember, Member
  <2>2. member' \in [Ring -> [User -> Member]]
    BY <1>1, <2>1 DEF TypeOK
  <2>3. state' \in [User -> UserStates] /\ ring' \in [Ring -> RingStatus]
    BY <1>1 DEF TypeOK, UserStates, RingStatus
  <2>4. cause' \in [User -> Ring \cup {NoRing}]
    BY <1>1 DEF TypeOK
  <2>5. QED
    BY <1>1, <2>2, <2>3, <2>4 DEF TypeOK
<1>7. BusyOK'
  BY <1>1 DEF BusyOK
<1>8. FreezeOnRecord'
  <2> SUFFICES ASSUME NEW u \in User, NEW s \in Ring, cause'[u] = s
               PROVE  /\ state'[u] = "frozen"
                      /\ member'[s][u].status = "frozen"
                      /\ member'[s][u].claimed
                      /\ member'[s][u].pre = "active"
    BY DEF FreezeOnRecord
  <2>1. CASE u \in freeze
    <3>1. s = r /\ state'[u] = "frozen" /\ state[u] = "active"
      BY <2>1, <1>1, <1>2
    <3>2. member'[r][u] = [status |-> "frozen", claimed |-> TRUE, pre |-> "active"]
      BY <2>1, <3>1, <1>4 DEF FrozenMember
    <3>3. QED
      BY <3>1, <3>2
  <2>2. CASE u \notin freeze
    <3>1. cause[u] = s /\ state'[u] = state[u]
      BY <2>2, <1>1
    <3>2. member'[s][u] = member[s][u]
      BY <2>2, <3>1, <1>3, <1>4, <1>5 DEF FreezeOnRecord
    <3>3. QED
      BY <3>1, <3>2 DEF FreezeOnRecord
  <2>3. QED
    BY <2>1, <2>2
<1>9. ClaimsFitStatus'
  <2> SUFFICES ASSUME NEW s \in Ring, NEW u \in User, member'[s][u].claimed
               PROVE  /\ ring'[s] \notin {"none", "pending"}
                      /\ ring'[s] = "restored" => member'[s][u].status = "skipped"
                      /\ member'[s][u].pre = "active"
    BY DEF ClaimsFitStatus
  <2>1. CASE s # r
    BY <2>1, <1>5 DEF ClaimsFitStatus
  <2>2. CASE s = r
    <3>1. ring'[r] = "frozen"
      BY <1>1 DEF TypeOK
    <3>2. CASE u \in freeze
      <4>1. member'[s][u] = [status |-> "frozen", claimed |-> TRUE, pre |-> "active"]
        BY <2>2, <3>2, <1>2, <1>4 DEF FrozenMember
      <4>2. QED
        BY <2>2, <3>1, <4>1
    <3>3. CASE u \in skip \ freeze
      <4>1. member'[s][u] = [status |-> "skipped", claimed |-> FALSE, pre |-> state[u]]
        BY <2>2, <3>3, <1>4 DEF SkippedMember
      <4>2. QED
        BY <4>1
    <3>4. CASE u \notin freeze \cup skip
      BY <2>2, <3>1, <3>4, <1>4 DEF ClaimsFitStatus
    <3>5. QED
      BY <3>2, <3>3, <3>4
  <2>3. QED
    BY <2>1, <2>2
<1>10. QED
  BY <1>6, <1>7, <1>8, <1>9

LEMMA UnfreezeKeepsIInv ==
  ASSUME IInv, NEW r \in Ring, UnfreezeRing(r)
  PROVE  IInv'
<1> USE DEF IInv
<1> DEFINE restore == Restorable(r)
           changed == {u \in User : member[r][u].claimed} \ restore
<1>1. /\ ring' = [ring EXCEPT ![r] = "restored"]
      /\ member' = [member EXCEPT ![r] = [u \in User |->
           IF u \in restore
           THEN [member[r][u] EXCEPT !.status = "restored", !.claimed = FALSE]
           ELSE IF u \in changed THEN [member[r][u] EXCEPT !.status = "skipped"]
           ELSE member[r][u]]]
      /\ state' = [u \in User |-> IF u \in restore THEN member[r][u].pre ELSE state[u]]
      /\ cause' = [u \in User |-> IF u \in restore THEN NoRing ELSE cause[u]]
      /\ hidden' = hidden \ Liftable(r)
      /\ UNCHANGED <<detection, dismissal>>
  BY DEF UnfreezeRing
<1>2. \A u \in User : member[r][u].claimed => u \in restore \cup changed
  OBVIOUS
<1>3. \A u \in changed : member[r][u].claimed /\ state[u] # "frozen"
  BY DEF Restorable
<1>4. \A u \in restore : member[r][u].claimed /\ member[r][u].pre = "active"
  BY DEF Restorable, ClaimsFitStatus
<1> HIDE DEF restore, changed
<1>5. \A u \in User :
        member'[r][u] =
          IF u \in restore
          THEN [member[r][u] EXCEPT !.status = "restored", !.claimed = FALSE]
          ELSE IF u \in changed THEN [member[r][u] EXCEPT !.status = "skipped"]
          ELSE member[r][u]
  BY <1>1 DEF TypeOK
<1>6. \A s \in Ring \ {r} : member'[s] = member[s] /\ ring'[s] = ring[s]
  BY <1>1 DEF TypeOK
<1>7. \A u \in User : member[r][u] \in Member
  BY DEF TypeOK
<1>8. TypeOK'
  <2>1. member' \in [Ring -> [User -> Member]]
    BY <1>1, <1>7 DEF TypeOK, Member
  <2>2. state' \in [User -> UserStates] /\ ring' \in [Ring -> RingStatus]
    BY <1>1, <1>4 DEF TypeOK, UserStates, RingStatus
  <2>3. cause' \in [User -> Ring \cup {NoRing}]
    BY <1>1 DEF TypeOK
  <2>4. QED
    BY <1>1, <2>1, <2>2, <2>3 DEF TypeOK
<1>9. BusyOK'
  BY <1>1 DEF BusyOK
<1>10. FreezeOnRecord'
  <2> SUFFICES ASSUME NEW u \in User, NEW s \in Ring, cause'[u] = s
               PROVE  /\ state'[u] = "frozen"
                      /\ member'[s][u].status = "frozen"
                      /\ member'[s][u].claimed
                      /\ member'[s][u].pre = "active"
    BY DEF FreezeOnRecord
  <2>1. u \notin restore /\ cause[u] = s /\ state'[u] = state[u]
    BY <1>1, SpamRingAssumption
  <2>2. state[u] = "frozen" /\ member[s][u].claimed
    BY <2>1 DEF FreezeOnRecord
  <2>3. s # r
    BY <2>1, <2>2, <1>2, <1>3
  <2>4. QED
    BY <2>1, <2>3, <1>6 DEF FreezeOnRecord
<1>11. ClaimsFitStatus'
  <2> SUFFICES ASSUME NEW s \in Ring, NEW u \in User, member'[s][u].claimed
               PROVE  /\ ring'[s] \notin {"none", "pending"}
                      /\ ring'[s] = "restored" => member'[s][u].status = "skipped"
                      /\ member'[s][u].pre = "active"
    BY DEF ClaimsFitStatus
  <2>1. CASE s # r
    BY <2>1, <1>6 DEF ClaimsFitStatus
  <2>2. CASE s = r
    <3>1. ring'[r] = "restored"
      BY <1>1 DEF TypeOK
    <3>2. u \notin restore /\ member[r][u].claimed
      BY <2>2, <1>5, <1>7 DEF Member
    <3>3. member'[r][u] = [member[r][u] EXCEPT !.status = "skipped"]
      BY <3>2, <1>2, <1>5
    <3>4. member'[r][u].status = "skipped" /\ member'[r][u].pre = "active"
      BY <3>2, <3>3, <1>7 DEF Member, ClaimsFitStatus
    <3>5. QED
      BY <2>2, <3>1, <3>4
  <2>3. QED
    BY <2>1, <2>2
<1>12. QED
  BY <1>8, <1>9, <1>10, <1>11

LEMMA WriteKeepsIInv ==
  ASSUME IInv, NEW u \in User, NEW s \in UserStates, WriteState(u, s)
  PROVE  IInv'
BY SpamRingAssumption
   DEF IInv, TypeOK, BusyOK, FreezeOnRecord, ClaimsFitStatus, WriteState

LEMMA NextKeepsIInv == IInv /\ [Next]_vars => IInv'
<1> SUFFICES ASSUME IInv, [Next]_vars PROVE IInv'
  OBVIOUS
<1>1. CASE \E d \in Detection : DetectionStep(d)
  BY <1>1, DetectionKeepsIInv
<1>2. CASE \E r \in Ring, scope \in SUBSET User \ {{}}, spared \in SUBSET User :
             FreezeRing(r, scope, spared)
  BY <1>2, FreezeKeepsIInv
<1>3. CASE \E r \in Ring : UnfreezeRing(r)
  BY <1>3, UnfreezeKeepsIInv
<1>4. CASE \E p \in Dismissal : Dismiss(p) \/ ReadLiftable(p) \/ Lift(p)
  BY <1>4, DismissalKeepsIInv
<1>5. CASE \E u \in User, s \in UserStates : WriteState(u, s)
  BY <1>5, WriteKeepsIInv
<1>6. CASE UNCHANGED vars
  BY <1>6 DEF IInv, TypeOK, BusyOK, FreezeOnRecord, ClaimsFitStatus, vars
<1>7. QED
  BY <1>1, <1>2, <1>3, <1>4, <1>5, <1>6 DEF Next

-----------------------------------------------------------------------------
(* The theorems.                                                           *)

LEMMA Invariance == Spec => []IInv
BY InitIInv, NextKeepsIInv, PTL DEF Spec

\* The state keeps its shape; a member's pre_freeze_state is a user state.
THEOREM TypeCorrect == Spec => []TypeOK
<1>1. IInv => TypeOK
  BY DEF IInv
<1>2. QED
  BY <1>1, Invariance, PTL

\* No freeze a ring caused is ever lost from its records, whatever detection
\* runs, refreshes, dismissals and other writers do (spamRingService.ts:468).
THEOREM FreezesOnRecord == Spec => []FreezeOnRecord
<1>1. IInv => FreezeOnRecord
  BY DEF IInv
<1>2. QED
  BY <1>1, Invariance, PTL

\* A ring's status tells what its claims are (spamRingService.ts:397, 572).
THEOREM ClaimsFit == Spec => []ClaimsFitStatus
<1>1. IInv => ClaimsFitStatus
  BY DEF IInv
<1>2. QED
  BY <1>1, Invariance, PTL

\* unfreezeRing undoes every freeze of its ring and revives nobody others have
\* banned or archived (spamRingService.ts:572-586).
THEOREM UnfreezeUndoes == Spec => UnfreezeUndoesFreeze
<1> DEFINE Undone(r) ==
      ring[r] = "frozen" /\ ring'[r] = "restored" =>
        \A u \in User : /\ cause[u] = r => state'[u] = "active"
                        /\ state[u] \in {"banned", "archived"} => state'[u] = state[u]
<1>1. ASSUME IInv, [Next]_vars PROVE \A r \in Ring : Undone(r)
  <2> SUFFICES ASSUME NEW r \in Ring, ring[r] = "frozen", ring'[r] = "restored"
               PROVE  \A u \in User :
                        /\ cause[u] = r => state'[u] = "active"
                        /\ state[u] \in {"banned", "archived"} => state'[u] = state[u]
    OBVIOUS
  <2>1. UnfreezeRing(r)
    <3>1. ASSUME NEW d \in Detection, DetectionStep(d) PROVE FALSE
      BY <3>1, <1>1 DEF DetectionStep, FindRing, UpsertRing, JoinMember, HideMember,
                  EndDetection, IInv, TypeOK
    <3>2. ASSUME NEW s \in Ring, NEW scope, NEW spared, FreezeRing(s, scope, spared)
          PROVE  FALSE
      BY <3>2, <1>1 DEF FreezeRing, IInv, TypeOK
    <3>3. ASSUME NEW p \in Dismissal, Dismiss(p) \/ ReadLiftable(p) \/ Lift(p)
          PROVE  FALSE
      BY <3>3, <1>1 DEF Dismiss, ReadLiftable, Lift, IInv, TypeOK
    <3>4. ASSUME NEW s \in Ring, UnfreezeRing(s) PROVE s = r
      BY <3>4, <1>1 DEF UnfreezeRing, IInv, TypeOK
    <3>5. ASSUME NEW u \in User, NEW s \in UserStates, WriteState(u, s) PROVE FALSE
      BY <3>5 DEF WriteState
    <3>6. ring' # ring
      OBVIOUS
    <3>7. QED
      BY <1>1, <3>1, <3>2, <3>3, <3>4, <3>5, <3>6 DEF Next, vars
  <2>2. state' = [u \in User |-> IF u \in Restorable(r) THEN member[r][u].pre
                                 ELSE state[u]]
    BY <2>1 DEF UnfreezeRing
  <2>3. \A u \in User : cause[u] = r => u \in Restorable(r) /\ member[r][u].pre = "active"
    BY <1>1 DEF IInv, FreezeOnRecord, Restorable
  <2>4. \A u \in Restorable(r) : state[u] = "frozen"
    BY DEF Restorable
  <2>5. QED
    BY <2>2, <2>3, <2>4
<1>2. IInv /\ [Next]_vars => [\A r \in Ring : Undone(r)]_vars
  BY <1>1
<1>3. QED
  BY <1>2, Invariance, PTL DEF Spec, UnfreezeUndoesFreeze
=============================================================================
