--------------------------- MODULE UserState_proofs ---------------------------
(***************************************************************************)
(* Proofs about UserState, for every set of accounts and requests.         *)
(***************************************************************************)
EXTENDS UserState, TLAPS

\* A request with writes left is at work on an account.
StaffOK == \A p \in Staff : staff[p].todo # <<>> => staff[p].user \in User

IInv == TypeOK /\ StaffOK /\ HamVerdictKept

-----------------------------------------------------------------------------
(* Plans and writes.                                                       *)

\* Whatever state was seen, at most four writes are planned, and at least one.
LEMMA PlanType ==
  ASSUME NEW seen \in State, NEW target \in State, NEW timed \in BOOLEAN
  PROVE  /\ Plan(seen, target, timed) \in Seq(Step)
         /\ Len(Plan(seen, target, timed)) <= MaxTodo
<1>1. {"revertMarks", "addRecord", "archiveRecords", "mark", "hide", "unhide",
        "active", "banned", "frozen", "archived"} \subseteq Step
  BY DEF Step, State
<1>2. ASSUME NEW x \in Step PROVE <<x>> \in Seq(Step) /\ Len(<<x>>) = 1
  OBVIOUS
<1>3. <<>> \in Seq(Step) /\ Len(<<>>) = 0
  OBVIOUS
<1>4. ASSUME NEW a \in Seq(Step), NEW b \in Seq(Step)
      PROVE  a \o b \in Seq(Step) /\ Len(a \o b) = Len(a) + Len(b)
  OBVIOUS
<1>5. /\ BanPlan(seen, timed) \in Seq(Step)
      /\ Len(BanPlan(seen, timed)) <= 4
  <2> DEFINE A == IF seen = "frozen" THEN <<"revertMarks">> ELSE <<>>
             B == IF timed THEN <<"addRecord">> ELSE <<>>
  <2>1. A \in Seq(Step) /\ (Len(A) = 0 \/ Len(A) = 1)
    BY <1>1, <1>2, <1>3
  <2>2. B \in Seq(Step) /\ (Len(B) = 0 \/ Len(B) = 1)
    BY <1>1, <1>2, <1>3
  <2>3. <<"banned">> \in Seq(Step) /\ Len(<<"banned">>) = 1
    BY <1>1, <1>2
  <2> HIDE DEF A, B
  <2> DEFINE C == A \o B
             D == C \o <<"banned">>
  <2>4. C \in Seq(Step) /\ Len(C) = Len(A) + Len(B)
    BY <1>4, <2>1, <2>2
  <2> HIDE DEF C
  <2>5. D \in Seq(Step) /\ Len(D) = Len(C) + 1
    BY <1>4, <2>3, <2>4
  <2> HIDE DEF D
  <2>6. Len(D) <= 4
    <3> DEFINE a == Len(A)
               b == Len(B)
               c == Len(C)
               n == Len(D)
    <3>1. (a = 0 \/ a = 1) /\ (b = 0 \/ b = 1) /\ c = a + b /\ n = c + 1
      BY <2>1, <2>2, <2>4, <2>5
    <3> HIDE DEF a, b, c, n
    <3>2. n <= 4
      BY <3>1
    <3>3. QED
      BY <3>2 DEF n
  <2>7. BanPlan(seen, timed) = D
    BY Zenon DEF BanPlan, A, B, C, D
  <2>8. QED
    BY <2>5, <2>6, <2>7
<1>6. /\ FreezePlan(seen) \in Seq(Step)
      /\ Len(FreezePlan(seen)) <= 4
  <2> DEFINE A == IF seen = "banned" THEN <<"archiveRecords">> ELSE <<>>
             B == <<"mark", "hide", "frozen">>
  <2>1. A \in Seq(Step) /\ (Len(A) = 0 \/ Len(A) = 1)
    BY <1>1, <1>2, <1>3
  <2>2. B \in Seq(Step) /\ Len(B) = 3
    BY <1>1
  <2> HIDE DEF A, B
  <2> DEFINE C == A \o B
  <2>3. C \in Seq(Step) /\ Len(C) = Len(A) + Len(B)
    BY <1>4, <2>1, <2>2
  <2> HIDE DEF C
  <2>4. Len(C) <= 4
    <3> DEFINE a == Len(A)
               b == Len(B)
               c == Len(C)
    <3>1. (a = 0 \/ a = 1) /\ b = 3 /\ c = a + b
      BY <2>1, <2>2, <2>3
    <3> HIDE DEF a, b, c
    <3>2. c <= 4
      BY <3>1
    <3>3. QED
      BY <3>2 DEF c
  <2>5. FreezePlan(seen) = C
    BY Zenon DEF FreezePlan, A, B, C
  <2>6. QED
    BY <2>3, <2>4, <2>5
<1>7. /\ ActivePlan(seen) \in Seq(Step)
      /\ Len(ActivePlan(seen)) <= 4
  <2>1. /\ <<"archiveRecords", "active">> \in Seq(Step)
        /\ Len(<<"archiveRecords", "active">>) = 2
    BY <1>1
  <2>2. /\ <<"revertMarks", "unhide", "active">> \in Seq(Step)
        /\ Len(<<"revertMarks", "unhide", "active">>) = 3
    BY <1>1
  <2>3. <<"active">> \in Seq(Step) /\ Len(<<"active">>) = 1
    BY <1>1
  <2>4. QED
    BY <2>1, <2>2, <2>3 DEF ActivePlan
<1>8. <<"archived">> \in Seq(Step) /\ Len(<<"archived">>) = 1
  BY <1>1, <1>2
<1>9. QED
  BY <1>5, <1>6, <1>7, <1>8 DEF Plan, MaxTodo, State

\* A write keeps the type of an account, and content judged to be no spam.
LEMMA WrittenType ==
  ASSUME NEW a \in Account, NEW step \in Step
  PROVE  /\ Written(a, step) \in Account
         /\ a.content = "ham" => Written(a, step).content = "ham"
BY DEF Account, Step, State, Written, Marked, Reverted

LEMMA RecordsType ==
  ASSUME NEW records \in SUBSET {"running", "due"}, NEW step \in Step
  PROVE  RecordsAfter(records, step) \in SUBSET {"running", "due"}
BY DEF RecordsAfter, Step, State

-----------------------------------------------------------------------------
(* The steps.                                                              *)

LEMMA InitIInv == Init => IInv
<1> SUFFICES ASSUME Init PROVE IInv
  OBVIOUS
<1>1. account \in [User -> Account] /\ record \in [User -> SUBSET {"running", "due"}]
  BY DEF Init, Account, State
<1>2. staff \in [Staff -> [user : User \cup {NoUser}, todo : Seq(Step)]]
  BY DEF Init, Done
<1>3. \A p \in Staff : staff[p].todo = <<>>
  BY DEF Init, Done
<1>4. \A p \in Staff : Len(staff[p].todo) <= MaxTodo
  BY <1>3 DEF MaxTodo
<1>5. job \in [pc : {"waiting", "running"}, batch : SUBSET User, activated : SUBSET User]
  BY DEF Init, NoJob
<1>6. judged \in [User -> {"none", "spam", "ham"}] /\ HamVerdictKept
  BY DEF Init, HamVerdictKept
<1>7. QED
  BY <1>1, <1>2, <1>3, <1>4, <1>5, <1>6 DEF IInv, TypeOK, StaffOK

LEMMA StaffKeepsIInv ==
  ASSUME IInv, NEW p \in Staff, Load(p) \/ Write(p) \/ Drop(p)
  PROVE  IInv'
<1> DEFINE Request == [user : User \cup {NoUser}, todo : Seq(Step)]
<1> USE DEF IInv, TypeOK
<1>0. staff \in [Staff -> Request] /\ staff[p] \in Request
  OBVIOUS
<1>1. CASE Load(p)
  <2>1. PICK u \in User, target \in State, timed \in BOOLEAN :
          staff' = [staff EXCEPT ![p] =
                      [user |-> u, todo |-> Plan(account[u].state, target, timed)]]
    BY <1>1 DEF Load
  <2>2. account[u].state \in State
    BY DEF Account
  <2>3. /\ Plan(account[u].state, target, timed) \in Seq(Step)
        /\ Len(Plan(account[u].state, target, timed)) <= MaxTodo
    BY <2>2, PlanType
  <2>4. staff' \in [Staff -> Request]
    BY <1>0, <2>1, <2>3
  <2>5. \A q \in Staff : Len(staff'[q].todo) <= MaxTodo
    BY <1>0, <2>1, <2>3
  <2>6. StaffOK'
    BY <1>0, <2>1 DEF StaffOK
  <2>7. UNCHANGED <<account, record, job, judged>>
    BY <1>1 DEF Load
  <2>8. QED
    BY <2>4, <2>5, <2>6, <2>7 DEF HamVerdictKept
<1>2. CASE Write(p)
  <2> DEFINE u == staff[p].user
             step == Head(staff[p].todo)
  <2>1. staff[p].todo # <<>> /\ u \in User
    BY <1>2 DEF Write, StaffOK
  <2>2. step \in Step /\ Tail(staff[p].todo) \in Seq(Step)
        /\ Len(Tail(staff[p].todo)) <= MaxTodo
    BY <1>0, <2>1 DEF MaxTodo
  <2>3. /\ account' = [account EXCEPT ![u] = Written(@, step)]
        /\ record' = [record EXCEPT ![u] = RecordsAfter(@, step)]
        /\ UNCHANGED <<job, judged>>
    BY <1>2 DEF Write
  <2>4. PICK next \in {Done, [user |-> u, todo |-> Tail(staff[p].todo)]} :
          staff' = [staff EXCEPT ![p] = next]
    <3>1. staff' = [staff EXCEPT ![p] = IF Len(staff[p].todo) = 1 THEN Done
                                        ELSE [user |-> u, todo |-> Tail(staff[p].todo)]]
      BY <1>2 DEF Write
    <3>2. CASE Len(staff[p].todo) = 1
      BY <3>1, <3>2
    <3>3. CASE Len(staff[p].todo) # 1
      BY <3>1, <3>3
    <3>4. QED
      BY <3>2, <3>3
  <2>5. /\ next \in Request
        /\ Len(next.todo) <= MaxTodo
        /\ next.todo # <<>> => next.user \in User
    <3>1. CASE next = Done
      BY <3>1 DEF Done, MaxTodo
    <3>2. CASE next = [user |-> u, todo |-> Tail(staff[p].todo)]
      BY <3>2, <1>0, <2>1, <2>2
    <3>3. QED
      BY <2>4, <3>1, <3>2
  <2> HIDE DEF u, step
  <2>6. account' \in [User -> Account] /\ HamVerdictKept'
    BY <2>1, <2>2, <2>3, WrittenType DEF HamVerdictKept
  <2>7. record' \in [User -> SUBSET {"running", "due"}]
    BY <2>1, <2>2, <2>3, RecordsType
  <2>8. /\ staff' \in [Staff -> Request]
        /\ \A q \in Staff : Len(staff'[q].todo) <= MaxTodo
    BY <1>0, <2>4, <2>5
  <2>9. StaffOK'
    BY <1>0, <2>4, <2>5 DEF StaffOK
  <2>10. QED
    BY <2>3, <2>6, <2>7, <2>8, <2>9
<1>3. CASE Drop(p)
  <2>1. staff' = [staff EXCEPT ![p] = Done] /\ UNCHANGED <<account, record, job, judged>>
    BY <1>3 DEF Drop
  <2>2. Done \in Request /\ Done.todo = <<>> /\ Len(Done.todo) <= MaxTodo
    BY DEF Done, MaxTodo
  <2>3. /\ staff' \in [Staff -> Request]
        /\ \A q \in Staff : Len(staff'[q].todo) <= MaxTodo
        /\ StaffOK'
    BY <1>0, <2>1, <2>2 DEF StaffOK
  <2>4. QED
    BY <2>1, <2>3 DEF HamVerdictKept
<1>4. QED
  BY <1>1, <1>2, <1>3

LEMMA OthersKeepIInv ==
  ASSUME IInv, NEW u \in User, NEW verdict \in {"spam", "ham"},
         JudgeContent(u, verdict) \/ BanForPayment(u)
  PROVE  IInv'
<1> USE DEF IInv, TypeOK
<1>1. CASE JudgeContent(u, verdict)
  <2>1. account' = [account EXCEPT ![u].content = verdict] /\ account' \in [User -> Account]
    BY <1>1 DEF JudgeContent, Account
  <2>2. judged' = [judged EXCEPT ![u] = verdict]
        /\ judged' \in [User -> {"none", "spam", "ham"}]
    BY <1>1 DEF JudgeContent
  <2>3. UNCHANGED <<record, staff, job>>
    BY <1>1 DEF JudgeContent
  <2>4. HamVerdictKept'
    BY <2>1, <2>2 DEF HamVerdictKept, Account
  <2>5. QED
    BY <2>1, <2>2, <2>3, <2>4 DEF StaffOK
<1>2. CASE BanForPayment(u)
  <2>1. account' = [account EXCEPT ![u].state = "banned"] /\ account' \in [User -> Account]
    BY <1>2 DEF BanForPayment, Account, State
  <2>2. UNCHANGED <<record, staff, job, judged>>
    BY <1>2 DEF BanForPayment
  <2>3. HamVerdictKept'
    BY <2>1, <2>2 DEF HamVerdictKept, Account
  <2>4. QED
    BY <2>1, <2>2, <2>3 DEF StaffOK
<1>3. QED
  BY <1>1, <1>2

LEMMA JobKeepsIInv ==
  ASSUME IInv,
         UnbanStep \/ \E u \in User : SkipRecord(u) \/ BanExpires(u)
  PROVE  IInv'
<1> USE DEF IInv, TypeOK, StaffOK, HamVerdictKept
<1>1. CASE StartUnban
  BY <1>1 DEF StartUnban
<1>2. CASE FinishUnban
  BY <1>2 DEF FinishUnban, NoJob
<1>3. ASSUME NEW u \in User, Activate(u) PROVE IInv'
  BY <1>3 DEF Activate, Account, State
<1>4. ASSUME NEW u \in User, ArchiveRecord(u) PROVE IInv'
  BY <1>4 DEF ArchiveRecord, Archived
<1>5. ASSUME NEW u \in User, SkipRecord(u) PROVE IInv'
  BY <1>5 DEF SkipRecord
<1>6. ASSUME NEW u \in User, BanExpires(u) PROVE IInv'
  BY <1>6 DEF BanExpires
<1>7. QED
  BY <1>1, <1>2, <1>3, <1>4, <1>5, <1>6 DEF UnbanStep

LEMMA NextKeepsIInv == IInv /\ [Next]_vars => IInv'
<1> SUFFICES ASSUME IInv, [Next]_vars PROVE IInv'
  OBVIOUS
<1>1. CASE UNCHANGED vars
  BY <1>1 DEF vars, IInv, TypeOK, StaffOK, HamVerdictKept
<1>2. ASSUME NEW p \in Staff, Load(p) \/ Write(p) \/ Drop(p) PROVE IInv'
  BY <1>2, StaffKeepsIInv
<1>3. ASSUME NEW u \in User, NEW verdict \in {"spam", "ham"}, JudgeContent(u, verdict)
      PROVE  IInv'
  BY <1>3, OthersKeepIInv
<1>4. ASSUME NEW u \in User, BanForPayment(u) PROVE IInv'
  BY <1>4, OthersKeepIInv
<1>5. ASSUME UnbanStep \/ \E u \in User : SkipRecord(u) \/ BanExpires(u) PROVE IInv'
  BY <1>5, JobKeepsIInv
<1>6. QED
  BY <1>1, <1>2, <1>3, <1>4, <1>5 DEF Next

-----------------------------------------------------------------------------

\* For any accounts and requests, states, records, plans and the job's batch
\* keep their types, and no plan has more than four writes.
THEOREM TypeCorrect == Spec => []TypeOK
<1>1. IInv => TypeOK
  BY DEF IInv
<1>2. QED
  BY <1>1, InitIInv, NextKeepsIInv, PTL DEF Spec

\* Content staff judged to be no spam stays so through any freezes, bans and
\* unbans of any moderators at once (userService.ts:2053, 2158).
THEOREM HamVerdictStays == Spec => []HamVerdictKept
<1>1. IInv => HamVerdictKept
  BY DEF IInv
<1>2. QED
  BY <1>1, InitIInv, NextKeepsIInv, PTL DEF Spec
=============================================================================
