---------------------------- MODULE Wallet_proofs ----------------------------
(***************************************************************************)
(* Proofs about PayTo, for every set of members, requests and workers, and *)
(* about Wallet, which extends it: donations and payouts over one table.   *)
(* They rest on lemmas about the table and about AmountOf, the sum the     *)
(* balances are computed from: its definition picks the rows one by one in *)
(* an order of CHOOSE's, and what the proofs need is that the order does   *)
(* not matter.  Inductions run over the size of the set, by way of a       *)
(* smallest counterexample.                                                *)
(***************************************************************************)
EXTENDS Wallet, FiniteSetTheorems, WellFoundedInduction, TLAPS

\* A non-empty set of numbers has a least one.
LEMMA Least ==
  ASSUME NEW T \in SUBSET Nat, T # {}
  PROVE  \E n \in T : \A m \in T : n <= m
<1> DEFINE R == {ss \in Nat \X Nat : ss[1] < ss[2]}
<1>1. IsWellFoundedOn(R, Nat)
  BY NatLessThanWellFounded DEF OpToRel
<1>2. \A m, n \in Nat : m < n => <<m, n>> \in R
  OBVIOUS
<1> HIDE DEF R
<1>3. PICK n \in T : \A m \in T : ~ (<<m, n>> \in R)
  BY <1>1, WFMin
<1>4. \A m \in T : ~ (m < n)
  BY <1>2, <1>3
<1>5. QED
  BY <1>4

\* What holds of a finite set whenever it holds of its proper subsets holds
\* of every subset of a finite set.
LEMMA FiniteInduction ==
  ASSUME NEW S, IsFiniteSet(S), NEW F,
         \A A \in SUBSET S :
           (\A B \in SUBSET A : B # A => B \in F) => A \in F
  PROVE  SUBSET S \subseteq F
<1> DEFINE Bad == {A \in SUBSET S : A \notin F}
           Sizes == {Cardinality(A) : A \in Bad}
<1>1. SUFFICES ASSUME Bad # {} PROVE FALSE
  OBVIOUS
<1>2. \A A \in SUBSET S : IsFiniteSet(A) /\ Cardinality(A) \in Nat
  BY FS_Subset, FS_CardinalityType
<1>3. Sizes \in SUBSET Nat /\ Sizes # {}
  BY <1>1, <1>2
<1> HIDE DEF Sizes
<1>4. PICK n \in Sizes : \A m \in Sizes : n <= m
  BY <1>3, Least
<1>5. PICK A \in Bad : n = Cardinality(A)
  BY <1>4 DEF Sizes
<1>6. PICK B \in SUBSET A : B # A /\ B \notin F
  BY <1>5
<1>7. Cardinality(B) < Cardinality(A)
  BY <1>2, <1>5, <1>6, FS_Subset
<1>8. Cardinality(B) \in Sizes
  BY <1>5, <1>6 DEF Sizes
<1>9. QED
  BY <1>2, <1>3, <1>4, <1>5, <1>6, <1>7, <1>8

\* The row AmountOf counts first, and the equation its sums obey.
PickRow(ids) == CHOOSE id \in ids : TRUE

Unfolded(tbl, h, ids) ==
  IF ids = {} THEN 0
  ELSE tbl[PickRow(ids)].amount + h[ids \ {PickRow(ids)}]

LEMMA AmountOfAsFunction ==
  ASSUME NEW tbl, NEW S,
         \E g : g = [ids \in SUBSET S |-> Unfolded(tbl, g, ids)]
  PROVE  \E h : /\ h = [ids \in SUBSET S |-> Unfolded(tbl, h, ids)]
                /\ AmountOf(tbl, S) = h[S]
  BY DEF AmountOf, MapThenSumSet, MapThenFoldSet, Unfolded, PickRow

\* The right-hand side of that equation, with the sums themselves in it.
OneByOne(tbl, ids) ==
  IF ids = {} THEN 0
  ELSE tbl[PickRow(ids)].amount + AmountOf(tbl, ids \ {PickRow(ids)})

\* Two functions that obey it agree.
LEMMA SameSums ==
  ASSUME NEW tbl, NEW S, IsFiniteSet(S), NEW g, NEW h,
         \A A \in SUBSET S : g[A] = Unfolded(tbl, g, A),
         \A A \in SUBSET S : h[A] = Unfolded(tbl, h, A)
  PROVE  \A A \in SUBSET S : g[A] = h[A]
<1> DEFINE F == {A \in SUBSET S : g[A] = h[A]}
<1>1. ASSUME NEW A \in SUBSET S, \A B \in SUBSET A : B # A => B \in F
      PROVE  A \in F
  <2>1. CASE A = {}
    BY <2>1 DEF Unfolded
  <2>2. CASE A # {}
    <3>1. PickRow(A) \in A
      BY <2>2 DEF PickRow
    <3>2. g[A \ {PickRow(A)}] = h[A \ {PickRow(A)}]
      BY <1>1, <3>1
    <3>3. QED
      BY <2>2, <3>2 DEF Unfolded
  <2>3. QED
    BY <2>1, <2>2
<1> HIDE DEF F
<1>2. SUBSET S \subseteq F
  BY <1>1, FiniteInduction
<1>3. QED
  BY <1>2 DEF F

LEMMA AmountOfUnfolds ==
  ASSUME NEW tbl, NEW S, IsFiniteSet(S)
  PROVE  AmountOf(tbl, S) = OneByOne(tbl, S)
<1> DEFINE F == {A \in SUBSET S : AmountOf(tbl, A) = OneByOne(tbl, A)}
<1>1. ASSUME NEW A \in SUBSET S, \A B \in SUBSET A : B # A => B \in F
      PROVE  A \in F
  <2> DEFINE g == [B \in SUBSET A |-> OneByOne(tbl, B)]
  <2>1. \A B \in SUBSET A : B # A => AmountOf(tbl, B) = OneByOne(tbl, B)
    BY <1>1
  <2> HIDE DEF F
  <2>2. ASSUME NEW B \in SUBSET A
        PROVE  OneByOne(tbl, B) = Unfolded(tbl, g, B)
    <3>1. CASE B = {}
      BY <3>1 DEF OneByOne, Unfolded
    <3>2. CASE B # {}
      <4>1. PickRow(B) \in B
        BY <3>2 DEF PickRow
      <4>2. B \ {PickRow(B)} \in SUBSET A /\ B \ {PickRow(B)} # A
        BY <4>1
      <4>3. g[B \ {PickRow(B)}] = AmountOf(tbl, B \ {PickRow(B)})
        BY <2>1, <4>2
      <4>4. QED
        BY <3>2, <4>3 DEF OneByOne, Unfolded
    <3>3. QED
      BY <3>1, <3>2
  <2>3. g = [B \in SUBSET A |-> Unfolded(tbl, g, B)]
    BY <2>2
  <2>4. \A B \in SUBSET A : g[B] = Unfolded(tbl, g, B)
    BY <2>2
  <2>5. A \in SUBSET A /\ g[A] = OneByOne(tbl, A)
    OBVIOUS
  <2> HIDE DEF g
  <2>6. PICK h : /\ h = [B \in SUBSET A |-> Unfolded(tbl, h, B)]
                 /\ AmountOf(tbl, A) = h[A]
    BY <2>3, AmountOfAsFunction
  <2>7. \A B \in SUBSET A : h[B] = Unfolded(tbl, h, B)
    BY <2>6
  <2>8. IsFiniteSet(A)
    BY FS_Subset
  <2>9. g[A] = h[A]
    <3>1. \A B \in SUBSET A : g[B] = h[B]
      BY <2>4, <2>7, <2>8, SameSums
    <3>2. QED
      BY <2>5, <3>1
  <2>10. QED
    BY <2>5, <2>6, <2>9 DEF F
<1> HIDE DEF F
<1>2. SUBSET S \subseteq F
  BY <1>1, FiniteInduction
<1>3. QED
  BY <1>2 DEF F

-----------------------------------------------------------------------------
(* What proofs about balances use.                                         *)

Counts(tbl, ids) == \A id \in ids : tbl[id].amount \in Nat

LEMMA AmountOfType ==
  ASSUME NEW tbl, NEW S, IsFiniteSet(S), Counts(tbl, S)
  PROVE  AmountOf(tbl, S) \in Nat
<1> DEFINE F == {A \in SUBSET S : AmountOf(tbl, A) \in Nat}
<1>1. ASSUME NEW A \in SUBSET S, \A B \in SUBSET A : B # A => B \in F
      PROVE  A \in F
  <2>1. AmountOf(tbl, A) = OneByOne(tbl, A)
    BY FS_Subset, AmountOfUnfolds
  <2>2. CASE A = {}
    BY <2>1, <2>2 DEF OneByOne
  <2>3. CASE A # {}
    <3>1. PickRow(A) \in A
      BY <2>3 DEF PickRow
    <3>2. AmountOf(tbl, A \ {PickRow(A)}) \in Nat
      BY <1>1, <3>1
    <3>3. tbl[PickRow(A)].amount \in Nat
      BY <3>1 DEF Counts
    <3>4. QED
      BY <2>1, <2>3, <3>2, <3>3 DEF OneByOne
  <2>4. QED
    BY <2>2, <2>3
<1> HIDE DEF F
<1>2. SUBSET S \subseteq F
  BY <1>1, FiniteInduction
<1>3. QED
  BY <1>2 DEF F

\* Any row of the set may be the one counted first.
LEMMA AmountOfRemove ==
  ASSUME NEW tbl, NEW S, IsFiniteSet(S), Counts(tbl, S)
  PROVE  \A x \in S :
           AmountOf(tbl, S) = tbl[x].amount + AmountOf(tbl, S \ {x})
<1> DEFINE F == {A \in SUBSET S :
                   \A x \in A : AmountOf(tbl, A)
                                  = tbl[x].amount + AmountOf(tbl, A \ {x})}
<1>1. ASSUME NEW A \in SUBSET S, \A B \in SUBSET A : B # A => B \in F
      PROVE  A \in F
  <2> SUFFICES ASSUME NEW x \in A
               PROVE  AmountOf(tbl, A) = tbl[x].amount + AmountOf(tbl, A \ {x})
    OBVIOUS
  <2> DEFINE p == PickRow(A)
             Both == (A \ {p}) \ {x}
  <2>1. p \in A
    BY DEF PickRow
  <2>2. AmountOf(tbl, A) = tbl[p].amount + AmountOf(tbl, A \ {p})
    <3>1. AmountOf(tbl, A) = OneByOne(tbl, A)
      BY FS_Subset, AmountOfUnfolds
    <3>2. QED
      BY <3>1 DEF OneByOne
  <2> HIDE DEF p
  <2>3. CASE p = x
    BY <2>2, <2>3
  <2>4. CASE p # x
    <3>1. AmountOf(tbl, A \ {p}) = tbl[x].amount + AmountOf(tbl, Both)
      BY <1>1, <2>1, <2>4
    <3>2. AmountOf(tbl, A \ {x}) = tbl[p].amount + AmountOf(tbl, Both)
      <4>1. (A \ {x}) \ {p} = Both
        OBVIOUS
      <4>2. A \ {x} \in F /\ p \in A \ {x}
        BY <1>1, <2>1, <2>4
      <4>3. QED
        BY <4>1, <4>2
    <3>3. AmountOf(tbl, Both) \in Nat
      <4>1. IsFiniteSet(Both) /\ Counts(tbl, Both)
        BY FS_Subset DEF Counts
      <4>2. QED
        BY <4>1, AmountOfType
    <3>4. tbl[p].amount \in Nat /\ tbl[x].amount \in Nat
      BY <2>1 DEF Counts
    <3> HIDE DEF Both
    <3>5. QED
      BY <2>2, <3>1, <3>2, <3>3, <3>4
  <2>5. QED
    BY <2>3, <2>4
<1> HIDE DEF F
<1>2. SUBSET S \subseteq F
  BY <1>1, FiniteInduction
<1>3. S \in F
  BY <1>2
<1>4. QED
  BY <1>3 DEF F

LEMMA AmountOfAdd ==
  ASSUME NEW tbl, NEW S, IsFiniteSet(S), NEW x, Counts(tbl, S \cup {x})
  PROVE  AmountOf(tbl, S \cup {x}) <= AmountOf(tbl, S) + tbl[x].amount
<1>1. /\ IsFiniteSet(S \cup {x})
      /\ IsFiniteSet(S \ {x})
      /\ Counts(tbl, S \ {x})
      /\ Counts(tbl, S)
      /\ tbl[x].amount \in Nat
  BY FS_AddElement, FS_RemoveElement DEF Counts
<1>2. AmountOf(tbl, S) \in Nat
  BY <1>1, AmountOfType
<1>3. CASE x \in S
  <2>1. S \cup {x} = S
    BY <1>3
  <2>2. AmountOf(tbl, S \cup {x}) = AmountOf(tbl, S)
    BY <2>1, Zenon
  <2>3. QED
    BY <1>1, <1>2, <2>2
<1>4. CASE x \notin S
  <2>1. (S \cup {x}) \ {x} = S
    BY <1>4
  <2>2. AmountOf(tbl, S \cup {x}) = tbl[x].amount + AmountOf(tbl, S)
    BY <1>1, <2>1, AmountOfRemove
  <2>3. QED
    BY <1>1, <1>2, <2>2
<1>5. QED
  BY <1>3, <1>4

\* More rows are worth no less.
LEMMA AmountOfMono ==
  ASSUME NEW tbl, NEW S, IsFiniteSet(S), Counts(tbl, S), NEW T \in SUBSET S
  PROVE  AmountOf(tbl, T) <= AmountOf(tbl, S)
<1> DEFINE F == {A \in SUBSET S :
                   \A B \in SUBSET A : AmountOf(tbl, B) <= AmountOf(tbl, A)}
<1>1. \A A \in SUBSET S : /\ IsFiniteSet(A)
                          /\ Counts(tbl, A)
                          /\ AmountOf(tbl, A) \in Nat
  BY FS_Subset, AmountOfType DEF Counts
<1>2. ASSUME NEW A \in SUBSET S, \A B \in SUBSET A : B # A => B \in F
      PROVE  A \in F
  <2> SUFFICES ASSUME NEW B \in SUBSET A
               PROVE  AmountOf(tbl, B) <= AmountOf(tbl, A)
    OBVIOUS
  <2>1. CASE B = A
    BY <1>1, <2>1
  <2>2. CASE B # A
    <3>1. PICK x \in A : x \notin B
      BY <2>2
    <3>2. AmountOf(tbl, A) = tbl[x].amount + AmountOf(tbl, A \ {x})
      BY <1>1, AmountOfRemove
    <3>3. AmountOf(tbl, B) <= AmountOf(tbl, A \ {x})
      BY <1>2, <3>1
    <3>4. tbl[x].amount \in Nat
      BY DEF Counts
    <3>5. AmountOf(tbl, A \ {x}) \in Nat /\ AmountOf(tbl, B) \in Nat
      BY <1>1
    <3>6. QED
      BY <3>2, <3>3, <3>4, <3>5
  <2>3. QED
    BY <2>1, <2>2
<1> HIDE DEF F
<1>3. SUBSET S \subseteq F
  BY <1>2, FiniteInduction
<1>4. S \in F
  BY <1>3
<1>5. QED
  BY <1>4 DEF F

\* Only the amounts matter.
LEMMA AmountOfSame ==
  ASSUME NEW old, NEW new, NEW S, IsFiniteSet(S),
         \A id \in S : new[id].amount = old[id].amount
  PROVE  AmountOf(new, S) = AmountOf(old, S)
<1> DEFINE F == {A \in SUBSET S : AmountOf(new, A) = AmountOf(old, A)}
<1>1. ASSUME NEW A \in SUBSET S, \A B \in SUBSET A : B # A => B \in F
      PROVE  A \in F
  <2>1. /\ AmountOf(old, A) = OneByOne(old, A)
        /\ AmountOf(new, A) = OneByOne(new, A)
    BY FS_Subset, AmountOfUnfolds
  <2>2. CASE A = {}
    BY <2>1, <2>2 DEF OneByOne
  <2>3. CASE A # {}
    <3>1. PickRow(A) \in A
      BY <2>3 DEF PickRow
    <3>2. AmountOf(new, A \ {PickRow(A)}) = AmountOf(old, A \ {PickRow(A)})
      BY <1>1, <3>1
    <3>3. QED
      BY <2>1, <2>3, <3>1, <3>2 DEF OneByOne
  <2>4. QED
    BY <2>2, <2>3
<1> HIDE DEF F
<1>2. SUBSET S \subseteq F
  BY <1>1, FiniteInduction
<1>3. S \in F
  BY <1>2
<1>4. QED
  BY <1>3 DEF F

-----------------------------------------------------------------------------
(* The table.                                                              *)

\* Inserting a row keeps the table a table.
LEMMA InsertType ==
  ASSUME NEW tbl \in Table, NEW id, NEW row \in Tx
  PROVE  Insert(tbl, id, row) \in Table
  BY DEF Insert, Table

\* So does marking one.
LEMMA MarkStateType ==
  ASSUME NEW tbl \in Table, NEW id, NEW s \in TxState
  PROVE  MarkState(tbl, id, s) \in Table
  BY DEF MarkState, Table, Tx

\* What a table holds after an insertion.
LEMMA InsertExists ==
  ASSUME NEW tbl \in Table, NEW id \in TxId, NEW row, row.state # "none"
  PROVE  Existing(Insert(tbl, id, row)) = Existing(tbl) \cup {id}
  BY DEF Insert, Table, Existing

\* Marking changes the state of one row and nothing else.
LEMMA MarkRow ==
  ASSUME NEW tbl \in Table, NEW id \in TxId, NEW s \in TxState
  PROVE  /\ MarkState(tbl, id, s)[id] = [tbl[id] EXCEPT !.state = s]
         /\ \A other \in TxId \ {id} : MarkState(tbl, id, s)[other] = tbl[other]
  BY DEF MarkState, Table, Tx

LEMMA MarkExists ==
  ASSUME NEW tbl \in Table, NEW id \in Existing(tbl), NEW s \in TxState \ {"none"}
  PROVE  Existing(MarkState(tbl, id, s)) = Existing(tbl)
  BY DEF MarkState, Table, Tx, Existing

\* What rows of a finite table are worth.
LEMMA SumOfRows ==
  ASSUME NEW tbl \in Table, IsFiniteSet(Existing(tbl)),
         NEW ids \in SUBSET Existing(tbl)
  PROVE  /\ IsFiniteSet(ids)
         /\ Counts(tbl, ids)
         /\ AmountOf(tbl, ids) \in Nat
<1>1. IsFiniteSet(ids)
  BY FS_Subset
<1>2. Counts(tbl, ids)
  BY DEF Counts, Existing, Table, Tx
<1>3. QED
  BY <1>1, <1>2, AmountOfType

\* When the table changes but not the amounts of its rows, more of them are
\* worth more.
LEMMA SumGrows ==
  ASSUME NEW old \in Table, IsFiniteSet(Existing(old)),
         NEW new \in Table, IsFiniteSet(Existing(new)),
         \A id \in Existing(old) : new[id].amount = old[id].amount,
         NEW few \in SUBSET Existing(old),
         NEW many \in SUBSET Existing(new), few \subseteq many
  PROVE  AmountOf(old, few) <= AmountOf(new, many)
<1>1. AmountOf(new, few) = AmountOf(old, few)
  BY SumOfRows, AmountOfSame
<1>2. AmountOf(new, few) <= AmountOf(new, many)
  BY SumOfRows, AmountOfMono
<1>3. QED
  BY <1>1, <1>2

\* And fewer are worth less.
LEMMA SumShrinks ==
  ASSUME NEW old \in Table, IsFiniteSet(Existing(old)), NEW new,
         \A id \in Existing(old) : new[id].amount = old[id].amount,
         NEW many \in SUBSET Existing(old), NEW few \in SUBSET many
  PROVE  AmountOf(new, few) <= AmountOf(old, many)
<1>1. few \in SUBSET Existing(old)
  OBVIOUS
<1>2. AmountOf(new, few) = AmountOf(old, few)
  BY <1>1, SumOfRows, AmountOfSame
<1>3. AmountOf(old, few) <= AmountOf(old, many)
  BY SumOfRows, AmountOfMono
<1>4. QED
  BY <1>2, <1>3

-----------------------------------------------------------------------------
(* The balance parseInt makes of a sum.                                    *)

LEMMA DivisionBounds ==
  ASSUME NEW x \in Nat, NEW n \in Nat \ {0}
  PROVE  /\ x \div n \in Nat
         /\ (x \div n) * n <= x
         /\ x < (x \div n + 1) * n
  BY SMTT(30)

\* A balance that is not negative hides less than a dollar of debt.
LEMMA DollarsHide ==
  ASSUME NEW x \in Int, ~(Dollars(x) < 0)
  PROVE  x > -Unit
<1>1. Unit \in Nat \ {0}
  BY LedgerAssumption
<1>2. CASE x >= 0
  BY <1>1, <1>2
<1>3. CASE x < 0
  <2> DEFINE y == -x
  <2>1. y \in Nat /\ Dollars(x) = -(y \div Unit)
    BY <1>3 DEF Dollars
  <2> HIDE DEF y
  <2>2. /\ y \div Unit \in Nat
        /\ y < (y \div Unit + 1) * Unit
    BY <1>1, <2>1, DivisionBounds
  <2>3. y \div Unit = 0
    BY <2>1, <2>2
  <2>4. y < Unit
    BY <1>1, <2>2, <2>3
  <2>5. QED
    BY <1>1, <2>4 DEF y
<1>4. QED
  BY <1>2, <1>3

\* A sum exceeds its dollars by less than one.
LEMMA DollarsRound ==
  ASSUME NEW x \in Nat
  PROVE  /\ Dollars(x) \in Nat
         /\ x < (Dollars(x) + 1) * Unit
  BY LedgerAssumption, DivisionBounds DEF Dollars

-----------------------------------------------------------------------------
(* Types, and who may hold the id of a row.                                *)

\* Requests, jobs and handlers hold only ids of rows that are there, and the
\* rows that are there are finitely many.
HoldersOK ==
  /\ \A c \in Caller : request[c].pc = "inserted" => request[c].id \in Existing(tx)
  /\ \A w \in Worker : worker[w].pc # "resting" => worker[w].id \in Existing(tx)
  /\ queue \subseteq Existing(tx)
  /\ history.undone \subseteq Existing(tx)
  /\ IsFiniteSet(Existing(tx))

IInv == TypeOK /\ HoldersOK

LEMMA InitIInv == Init => IInv
<1> SUFFICES ASSUME Init PROVE IInv
  OBVIOUS
<1>1. tx \in Table /\ today \in 0..MaxDay /\ queue \in SUBSET TxId
  BY PayToAssumption, LedgerAssumption DEF Init
<1>2. request \in [Caller -> Request]
  BY DEF Init, Idle, Request
<1>3. worker \in [Worker -> WorkerState]
  BY DEF Init, Resting, WorkerState, Verdict
<1>4. stalled \in [TxId -> 0..MaxStalled]
  BY PayToAssumption DEF Init
<1>5. history \in History
  BY DEF Init, History
<1>6. HoldersOK
  BY OpeningAssumption DEF Init, HoldersOK, Idle, Resting
<1>7. QED
  BY <1>1, <1>2, <1>3, <1>4, <1>5, <1>6 DEF IInv, TypeOK

\* A request inserts a row of the table.
LEMMA DonationRowType ==
  ASSUME TypeOK, NEW c \in Caller
  PROVE  Row("donation", "pending", request[c].sender, request[c].recipient,
             request[c].amount, today) \in Tx
<1>1. /\ request[c].sender \in User \cup {NoUser}
      /\ request[c].recipient \in User \cup {NoUser}
      /\ request[c].amount \in Amount \cup {0}
      /\ today \in 0..MaxDay
  BY DEF TypeOK, Request
<1>2. Amount \subseteq Nat /\ 0 \in Nat
  BY LedgerAssumption
<1>3. request[c].amount \in Nat
  BY <1>1, <1>2
<1>4. QED
  BY <1>1, <1>3 DEF Row, Tx, TxState, Purpose, Currency

\* The steps of a request.
LEMMA RequestKeepsIInv ==
  ASSUME IInv, NEW c \in Caller, RequestStep(c)
  PROVE  IInv'
<1> USE DEF IInv, TypeOK
<1>0. request[c] \in Request
  OBVIOUS
<1>1. CASE CheckBalance(c)
  <2>1. PICK u \in User, v \in User, a \in Amount :
          request' = [request EXCEPT ![c] =
            [pc |-> "balance", sender |-> u, recipient |-> v, amount |-> a,
             id |-> NoTx]]
    BY <1>1 DEF CheckBalance
  <2>2. request' \in [Caller -> Request]
    BY <2>1 DEF Request
  <2>3. HoldersOK'
    BY <1>1, <2>1 DEF CheckBalance, HoldersOK
  <2>4. QED
    BY <1>1, <2>2, <2>3 DEF CheckBalance
<1>2. CASE PassLimit(c)
  <2>1. request' \in [Caller -> Request]
    BY <1>0, <1>2 DEF PassLimit, Request
  <2>2. HoldersOK'
    BY <1>2 DEF PassLimit, HoldersOK
  <2>3. QED
    BY <1>2, <2>1, <2>2 DEF PassLimit
<1>3. CASE RefuseLimit(c) \/ LoseRequest(c)
  <2>1. request' = [request EXCEPT ![c] = Idle]
        /\ UNCHANGED <<tx, today, queue, stalled, worker, history>>
    BY <1>3 DEF RefuseLimit, LoseRequest
  <2>2. request' \in [Caller -> Request]
    BY <2>1 DEF Idle, Request
  <2>3. HoldersOK'
    BY <2>1 DEF HoldersOK, Idle
  <2>4. QED
    BY <2>1, <2>2, <2>3
<1>4. CASE InsertPending(c)
  <2> DEFINE row == Row("donation", "pending", request[c].sender,
                        request[c].recipient, request[c].amount, today)
  <2>1. PICK id \in TxId :
          /\ tx[id].state = "none"
          /\ tx' = Insert(tx, id, row)
          /\ request' = [request EXCEPT ![c].pc = "inserted", ![c].id = id]
    BY <1>4 DEF InsertPending
  <2>2. row \in Tx
    BY DonationRowType
  <2>3. tx' \in Table
    BY <2>1, <2>2, InsertType
  <2>4. request' \in [Caller -> Request]
    BY <2>1, <1>0 DEF Request
  <2>5. Existing(tx') = Existing(tx) \cup {id}
    BY <2>1, InsertExists DEF Row
  <2>6. IsFiniteSet(Existing(tx'))
    BY <2>5, FS_AddElement DEF HoldersOK
  <2>7. HoldersOK'
    <3>1. UNCHANGED <<queue, worker, history>>
      BY <1>4 DEF InsertPending
    <3>2. \A d \in Caller : request'[d].pc = "inserted" =>
                             request'[d].id \in Existing(tx) \cup {id}
      BY <2>1 DEF HoldersOK
    <3>3. QED
      BY <2>5, <2>6, <3>1, <3>2 DEF HoldersOK
  <2>8. QED
    BY <1>4, <2>3, <2>4, <2>7 DEF InsertPending
<1>5. CASE Enqueue(c)
  <2>1. request' \in [Caller -> Request]
    BY <1>5 DEF Enqueue, Idle, Request
  <2>2. request[c].id \in Existing(tx)
    BY <1>5 DEF Enqueue, HoldersOK
  <2>3. queue' \in SUBSET TxId
    BY <1>5, <2>2 DEF Enqueue, Existing
  <2>4. HoldersOK'
    BY <1>5, <2>2 DEF Enqueue, HoldersOK, Idle
  <2>5. QED
    BY <1>5, <2>1, <2>3, <2>4 DEF Enqueue
<1>6. QED
  BY <1>1, <1>2, <1>3, <1>4, <1>5 DEF RequestStep

\* The steps of a handler, and those Bull makes in its place.
LEMMA WorkerKeepsIInv ==
  ASSUME IInv, NEW w \in Worker,
         HandlerStep(w) \/ Fail(w) \/ Redeliver(w) \/ GiveUp(w)
  PROVE  IInv'
<1> USE DEF IInv, TypeOK
<1>0. worker[w] \in WorkerState
  OBVIOUS
<1>0a. ASSUME worker' = [worker EXCEPT ![w] = Resting]
       PROVE  worker' \in [Worker -> WorkerState]
  BY <1>0a DEF Resting, WorkerState, Verdict
<1>0b. worker[w].pc # "resting" =>
         worker[w].id \in Existing(tx) /\ worker[w].id \in TxId
  BY DEF HoldersOK, Existing
<1>0c. ASSUME NEW s \in TxState \ {"none"}, worker[w].pc # "resting",
              tx' = MarkState(tx, worker[w].id, s)
       PROVE  tx' \in Table /\ Existing(tx') = Existing(tx)
  BY <1>0b, <1>0c, MarkStateType, MarkExists
<1>1. CASE TakeJob(w)
  <2>1. PICK id \in queue : worker' = [worker EXCEPT ![w] = Job(id)]
    BY <1>1 DEF TakeJob
  <2>2. worker' \in [Worker -> WorkerState]
    BY <2>1 DEF Job, WorkerState, Verdict
  <2>3. HoldersOK'
    BY <1>1, <2>1 DEF TakeJob, HoldersOK, Job
  <2>4. QED
    BY <1>1, <2>2, <2>3 DEF TakeJob
<1>2. CASE ReadBalance(w)
  <2>1. worker' \in [Worker -> WorkerState]
    BY <1>0, <1>2 DEF ReadBalance, WorkerState, Verdict
  <2>2. HoldersOK'
    BY <1>2 DEF ReadBalance, HoldersOK
  <2>3. QED
    BY <1>2, <2>1, <2>2 DEF ReadBalance
<1>3. CASE ReadHasPaid(w)
  <2>1. worker' \in [Worker -> WorkerState]
    BY <1>0, <1>3 DEF ReadHasPaid, WorkerState, Verdict
  <2>2. history' \in History /\ history'.undone = history.undone
    BY <1>3, <1>0b DEF ReadHasPaid, History
  <2>3. HoldersOK'
    BY <1>3, <2>2 DEF ReadHasPaid, HoldersOK
  <2>4. QED
    BY <1>3, <2>1, <2>2, <2>3 DEF ReadHasPaid
<1>4. CASE Cancel(w) \/ Fail(w)
  <2>1. /\ worker[w].pc # "resting"
        /\ \E s \in TxState \ {"none"} : tx' = MarkState(tx, worker[w].id, s)
        /\ worker' = [worker EXCEPT ![w] = Resting]
        /\ NoteUndone(worker[w].id)
        /\ UNCHANGED <<today, request, queue, stalled>>
    BY <1>4 DEF Cancel, Fail, Decided, TxState
  <2>2. tx' \in Table /\ Existing(tx') = Existing(tx)
    BY <1>0c, <2>1
  <2>3. history' \in History /\ history'.undone \subseteq history.undone \cup {worker[w].id}
    BY <1>0b, <2>1 DEF NoteUndone, History
  <2>4. HoldersOK'
    BY <1>0b, <2>1, <2>2, <2>3 DEF HoldersOK, Resting
  <2>5. QED
    BY <1>0a, <2>1, <2>2, <2>3, <2>4
<1>5. CASE Settle(w)
  <2>1. worker[w].pc # "resting"
    BY <1>5 DEF Settle, Decided
  <2>2. tx' \in Table /\ Existing(tx') = Existing(tx)
    BY <1>0c, <1>5, <2>1 DEF Settle, TxState
  <2>3. worker' \in [Worker -> WorkerState]
    BY <1>0, <1>5 DEF Settle, WorkerState
  <2>4. history' \in History /\ history'.undone = history.undone
    BY <1>5, <1>0b, <2>1 DEF Settle, History
  <2>5. HoldersOK'
    BY <1>0b, <1>5, <2>1, <2>2, <2>4 DEF Settle, HoldersOK
  <2>6. QED
    BY <1>5, <2>2, <2>3, <2>4, <2>5 DEF Settle
<1>6. CASE Finish(w) \/ GiveUp(w)
  <2>1. /\ worker' = [worker EXCEPT ![w] = Resting]
        /\ UNCHANGED <<tx, today, request, queue, stalled, history>>
    BY <1>6 DEF Finish, GiveUp
  <2>2. HoldersOK'
    BY <2>1 DEF HoldersOK, Resting
  <2>3. QED
    BY <1>0a, <2>1, <2>2
<1>7. CASE Redeliver(w)
  <2>1. stalled' \in [TxId -> 0..MaxStalled]
    BY <1>7, <1>0b, PayToAssumption DEF Redeliver, MayStall
  <2>2. worker' \in [Worker -> WorkerState]
    BY <1>7, <1>0a DEF Redeliver
  <2>3. HoldersOK'
    BY <1>7, <1>0b DEF Redeliver, HoldersOK, Resting
  <2>4. QED
    BY <1>7, <1>0b, <2>1, <2>2, <2>3 DEF Redeliver
<1>8. QED
  BY <1>1, <1>2, <1>3, <1>4, <1>5, <1>6, <1>7 DEF HandlerStep

\* The timer marks rows that are there, and only their state.
LEMMA TimerMarks ==
  ASSUME IInv, CancelTimeoutTransactions
  PROVE  /\ tx' \in Table
         /\ Existing(tx') = Existing(tx)
         /\ UNCHANGED <<today, request, queue, stalled, worker, history>>
         /\ \A id \in TxId :
              tx'[id] = tx[id]
              \/ /\ tx[id].state = "pending"
                 /\ tx'[id] = [tx[id] EXCEPT !.state = "canceled"]
<1> USE DEF IInv, TypeOK
<1>1. PICK ids \in SUBSET {id \in TxId : TimesOut(tx[id])} :
        /\ tx' = [id \in TxId |-> IF id \in ids
                                  THEN [tx[id] EXCEPT !.state = "canceled"]
                                  ELSE tx[id]]
        /\ UNCHANGED <<today, request, queue, stalled, worker, history>>
  BY DEF CancelTimeoutTransactions
<1>2. \A id \in TxId :
        tx'[id] = tx[id] \/ /\ tx[id].state = "pending"
                            /\ tx'[id] = [tx[id] EXCEPT !.state = "canceled"]
  BY <1>1 DEF TimesOut
<1>3. \A id \in TxId : tx[id] \in Tx /\ [tx[id] EXCEPT !.state = "canceled"] \in Tx
  BY DEF Table, Tx, TxState
<1>4. tx' \in Table
  BY <1>1, <1>3 DEF Table
<1>5. Existing(tx') = Existing(tx)
  BY <1>2, <1>3 DEF Existing, Tx
<1>6. QED
  BY <1>1, <1>2, <1>4, <1>5

LEMMA NextKeepsIInv == IInv /\ [Next]_vars => IInv'
<1> SUFFICES ASSUME IInv, [Next]_vars PROVE IInv'
  OBVIOUS
<1>1. CASE \E c \in Caller : RequestStep(c)
  BY <1>1, RequestKeepsIInv
<1>2. CASE \E w \in Worker : HandlerStep(w) \/ Fail(w) \/ Redeliver(w) \/ GiveUp(w)
  BY <1>2, WorkerKeepsIInv
<1>3. CASE CancelTimeoutTransactions
  BY <1>3, TimerMarks DEF IInv, TypeOK, HoldersOK
<1>4. CASE NextDay
  BY <1>4, LedgerAssumption DEF IInv, TypeOK, HoldersOK, NextDay
<1>5. CASE UNCHANGED vars
  BY <1>5 DEF IInv, TypeOK, HoldersOK, vars
<1>6. QED
  BY <1>1, <1>2, <1>3, <1>4, <1>5 DEF Next

-----------------------------------------------------------------------------
(* Overdrafts.  A handler that has found the balance sufficient may settle   *)
(* its row whenever it likes, so the pending rows under such handlers count  *)
(* as leaving: what was received covers them as well.                        *)

BalanceFound(id) ==
  \E w \in Worker : /\ worker[w].pc = "reading"
                    /\ worker[w].id = id
                    /\ worker[w].balance = "ok"

Leaving(u) ==
  {id \in TxId : /\ tx[id].sender = u
                 /\ tx[id].currency = "HKD"
                 /\ \/ tx[id].state = "succeeded" /\ id \notin history.late
                    \/ tx[id].state = "pending" /\ BalanceFound(id)}

CoveredFor(u) ==
  AmountOf(tx, EverReceived(u)) - AmountOf(tx, Leaving(u)) > -Unit

Covered == \A u \in User : CoveredFor(u)

LEMMA RowsOfMember ==
  ASSUME IInv, NEW u
  PROVE  /\ EverReceived(u) \in SUBSET Existing(tx)
         /\ Leaving(u) \in SUBSET Existing(tx)
         /\ Received(tx, u) \in SUBSET EverReceived(u)
         /\ Committed(tx, u) \in SUBSET Existing(tx)
BY DEF IInv, HoldersOK, EverReceived, Leaving, Received, Committed, Existing

\* A step that takes no credit away and lets nothing else leave keeps the
\* member covered.
LEMMA StaysCovered ==
  ASSUME IInv, IInv', NEW u \in User, CoveredFor(u),
         \A id \in Existing(tx) : tx'[id].amount = tx[id].amount,
         EverReceived(u) \subseteq EverReceived(u)',
         Leaving(u)' \subseteq Leaving(u)
  PROVE  CoveredFor(u)'
<1>1. /\ tx \in Table /\ IsFiniteSet(Existing(tx))
      /\ tx' \in Table /\ IsFiniteSet(Existing(tx'))
  BY DEF IInv, TypeOK, HoldersOK
<1>2. EverReceived(u)' \in SUBSET Existing(tx')
  BY DEF IInv, HoldersOK, EverReceived, Received, Existing
<1>3. AmountOf(tx, EverReceived(u)) <= AmountOf(tx', EverReceived(u)')
  BY <1>1, <1>2, RowsOfMember, SumGrows
<1>4. AmountOf(tx', Leaving(u)') <= AmountOf(tx, Leaving(u))
  BY <1>1, RowsOfMember, SumShrinks
<1>5. /\ AmountOf(tx, EverReceived(u)) \in Nat
      /\ AmountOf(tx, Leaving(u)) \in Nat
  BY <1>1, RowsOfMember, SumOfRows
<1>6. /\ AmountOf(tx', EverReceived(u)') \in Nat
      /\ AmountOf(tx', Leaving(u)') \in Nat
  <2>1. Leaving(u)' \in SUBSET Existing(tx')
    BY DEF Leaving, Existing
  <2>2. QED
    BY <1>1, <1>2, <2>1, SumOfRows
<1>7. QED
  BY <1>3, <1>4, <1>5, <1>6, LedgerAssumption DEF CoveredFor

LEMMA InitCovered == Init => Covered
<1> SUFFICES ASSUME Init, NEW u \in User PROVE CoveredFor(u)
  BY DEF Covered
<1>1. EverReceived(u) = Received(Opening, u)
  BY DEF Init, EverReceived
<1>2. Leaving(u) = Settled(Opening, u)
  BY DEF Init, Leaving, Settled, BalanceFound, Resting
<1>3. QED
  BY <1>1, <1>2, OpeningAssumption DEF CoveredFor, Init

\* The steps that mark one row under a handler, or none.
LEMMA MarkKeepsCovered ==
  ASSUME IInv, IInv', Covered, NEW w \in Worker, worker[w].pc # "resting",
         NEW s \in TxState \ {"none", "pending"},
         tx' = MarkState(tx, worker[w].id, s),
         worker' = [worker EXCEPT ![w] = Resting]
         \/ worker' = [worker EXCEPT ![w].pc = "settled"],
         history.late \subseteq history'.late,
         history.undone \subseteq history'.undone,
         tx[worker[w].id].state = "succeeded" =>
           s = "succeeded" \/ worker[w].id \in history'.undone,
         s = "succeeded" => \/ tx[worker[w].id].state = "succeeded"
                            \/ /\ tx[worker[w].id].state = "pending"
                               /\ BalanceFound(worker[w].id)
                            \/ worker[w].id \in history'.late
  PROVE  Covered'
<1> SUFFICES ASSUME NEW u \in User PROVE CoveredFor(u)'
  BY DEF Covered
<1> DEFINE id == worker[w].id
<1>1. id \in Existing(tx) /\ id \in TxId /\ tx \in Table
  BY DEF IInv, TypeOK, HoldersOK, Existing
<1>2. /\ \A other \in TxId : other # id => tx'[other] = tx[other]
      /\ tx'[id] = [tx[id] EXCEPT !.state = s]
  BY <1>1, MarkRow
<1>3. /\ tx'[id].state = s
      /\ tx'[id].amount = tx[id].amount
      /\ tx'[id].sender = tx[id].sender
      /\ tx'[id].recipient = tx[id].recipient
      /\ tx'[id].currency = tx[id].currency
  BY <1>1, <1>2 DEF Table, Tx
<1>4. \A other \in TxId : BalanceFound(other)' => BalanceFound(other)
  BY DEF BalanceFound, Resting, IInv, TypeOK, WorkerState
<1> HIDE DEF id
<1>5. EverReceived(u) \subseteq EverReceived(u)'
  <2> SUFFICES ASSUME NEW i \in EverReceived(u) PROVE i \in EverReceived(u)'
    OBVIOUS
  <2>1. i \in TxId /\ tx'[i].recipient = u /\ tx'[i].currency = tx[i].currency
    BY <1>1, <1>2, <1>3, RowsOfMember DEF EverReceived, Received, Existing
  <2>2. QED
    BY <1>1, <1>2, <1>3, <2>1 DEF EverReceived, Received, id
<1>6. Leaving(u)' \subseteq Leaving(u)
  <2> SUFFICES ASSUME NEW i \in Leaving(u)' PROVE i \in Leaving(u)
    OBVIOUS
  <2>1. CASE i # id
    BY <1>2, <1>4, <2>1 DEF Leaving
  <2>2. CASE i = id
    <3>1. s = "succeeded" /\ id \notin history'.late
      BY <1>3, <2>2 DEF Leaving
    <3>2. \/ tx[id].state = "succeeded"
          \/ BalanceFound(id) /\ tx[id].state = "pending"
      BY <3>1 DEF id
    <3>3. QED
      BY <1>1, <1>3, <2>2, <3>1, <3>2 DEF Leaving
  <2>3. QED
    BY <2>1, <2>2
<1>7. \A i \in Existing(tx) : tx'[i].amount = tx[i].amount
  BY <1>1, <1>2, <1>3 DEF Existing
<1>8. QED
  BY <1>5, <1>6, <1>7, StaysCovered DEF Covered

\* A handler that finds the balance sufficient has counted every row of the
\* member that is settled or pending, its own among them.
LEMMA ReadKeepsCovered ==
  ASSUME IInv, IInv', Covered, NEW w \in Worker, ReadBalance(w)
  PROVE  Covered'
<1> SUFFICES ASSUME NEW u \in User PROVE CoveredFor(u)'
  BY DEF Covered
<1> DEFINE id == worker[w].id
           donor == tx[id].sender
<1>1. /\ id \in TxId /\ tx \in Table /\ IsFiniteSet(Existing(tx))
      /\ UNCHANGED <<tx, history>>
      /\ worker[w] \in WorkerState
  BY DEF IInv, TypeOK, HoldersOK, ReadBalance, Existing
<1>2. \A other \in TxId : other # id /\ BalanceFound(other)' => BalanceFound(other)
  BY DEF BalanceFound, ReadBalance, IInv, TypeOK
<1>3. EverReceived(u)' = EverReceived(u)
  BY <1>1 DEF EverReceived
<1>4. CASE donor = u /\ ~(HKDBalance(tx, donor) < 0)
  <2>1. Leaving(u)' \subseteq Committed(tx, u)
    BY <1>1 DEF Leaving, Committed
  <2>2. /\ AmountOf(tx, Leaving(u)') <= AmountOf(tx, Committed(tx, u))
        /\ AmountOf(tx, Received(tx, u)) <= AmountOf(tx, EverReceived(u))
    BY <1>1, <2>1, RowsOfMember, SumShrinks
  <2>3. /\ AmountOf(tx, Leaving(u)') \in Nat
        /\ AmountOf(tx, Committed(tx, u)) \in Nat
        /\ AmountOf(tx, Received(tx, u)) \in Nat
        /\ AmountOf(tx, EverReceived(u)) \in Nat
    BY <1>1, <2>1, RowsOfMember, SumOfRows
  <2>4. AmountOf(tx, Received(tx, u)) - AmountOf(tx, Committed(tx, u)) > -Unit
    BY <1>4, <2>3, DollarsHide DEF HKDBalance
  <2>5. QED
    BY <1>1, <1>3, <2>2, <2>3, <2>4, LedgerAssumption DEF CoveredFor
<1>5. CASE donor # u
  <2>1. Leaving(u)' \subseteq Leaving(u)
    BY <1>1, <1>2, <1>5 DEF Leaving
  <2>2. QED
    BY <1>1, <1>3, <2>1, StaysCovered DEF Covered
<1>6. CASE HKDBalance(tx, donor) < 0
  <2>1. worker'[w].balance = "refused"
    BY <1>6 DEF ReadBalance, IInv, TypeOK
  <2>2. \A other \in TxId : BalanceFound(other)' => BalanceFound(other)
    BY <2>1 DEF BalanceFound, ReadBalance, IInv, TypeOK
  <2>3. Leaving(u)' \subseteq Leaving(u)
    BY <1>1, <2>2 DEF Leaving
  <2>4. QED
    BY <1>1, <1>3, <2>3, StaysCovered DEF Covered
<1>7. QED
  BY <1>4, <1>5, <1>6

LEMMA NextKeepsCovered ==
  ASSUME IInv, IInv', Covered, [Next]_vars
  PROVE  Covered'
<1> USE DEF IInv, TypeOK

\* Steps that read no balance and change no row.
<1>0. ASSUME UNCHANGED tx,
             history'.late = history.late, history'.undone = history.undone,
             \A id \in TxId : BalanceFound(id)' => BalanceFound(id)
      PROVE  Covered'
  <2> SUFFICES ASSUME NEW u \in User PROVE CoveredFor(u)'
    BY DEF Covered
  <2>1. EverReceived(u)' = EverReceived(u) /\ Leaving(u)' \subseteq Leaving(u)
    BY <1>0 DEF EverReceived, Leaving
  <2>2. QED
    BY <1>0, <2>1, StaysCovered DEF Covered
<1>1. ASSUME NEW c \in Caller, InsertPending(c)
      PROVE  Covered'
  <2> SUFFICES ASSUME NEW u \in User PROVE CoveredFor(u)'
    BY DEF Covered
  <2>1. PICK id \in TxId : /\ tx[id].state = "none"
                           /\ tx' = Insert(tx, id,
                                Row("donation", "pending", request[c].sender,
                                    request[c].recipient, request[c].amount, today))
    BY <1>1 DEF InsertPending
  <2>2. /\ UNCHANGED <<worker, history>>
        /\ \A other \in TxId : other # id => tx'[other] = tx[other]
        /\ tx'[id].state = "pending"
    BY <1>1, <2>1 DEF InsertPending, Insert, Row, Table
  <2>3. id \notin Existing(tx) /\ ~BalanceFound(id)
    BY <2>1 DEF BalanceFound, HoldersOK, Existing
  <2>4. \A i \in Existing(tx) : tx'[i] = tx[i]
    BY <2>2, <2>3 DEF Existing
  <2>5. EverReceived(u) \subseteq EverReceived(u)'
    BY <2>2, <2>3, <2>4, RowsOfMember DEF EverReceived, Received, Existing
  <2>6. Leaving(u)' \subseteq Leaving(u)
    BY <2>2, <2>3 DEF Leaving, BalanceFound
  <2>7. QED
    BY <2>4, <2>5, <2>6, StaysCovered DEF Covered
<1>2. ASSUME NEW c \in Caller, RequestStep(c), ~InsertPending(c)
      PROVE  Covered'
  <2>1. UNCHANGED <<tx, worker, history>>
    BY <1>2 DEF RequestStep, CheckBalance, PassLimit, RefuseLimit, Enqueue, LoseRequest
  <2>2. QED
    BY <1>0, <2>1 DEF BalanceFound
<1>3. ASSUME NEW w \in Worker,
             TakeJob(w) \/ ReadHasPaid(w) \/ Finish(w) \/ Redeliver(w) \/ GiveUp(w)
      PROVE  Covered'
  <2>1. /\ UNCHANGED tx
        /\ history'.late = history.late /\ history'.undone = history.undone
    BY <1>3 DEF TakeJob, ReadHasPaid, Finish, Redeliver, GiveUp, History
  <2>2. \A v \in Worker : worker'[v].pc = "reading" /\ worker'[v].balance = "ok" =>
                            /\ worker[v].pc = "reading" /\ worker[v].balance = "ok"
                            /\ worker'[v].id = worker[v].id
    BY <1>3 DEF TakeJob, ReadHasPaid, Finish, Redeliver, GiveUp, Job, Resting, WorkerState
  <2>3. QED
    BY <1>0, <2>1, <2>2 DEF BalanceFound
<1>4. ASSUME NEW w \in Worker, Cancel(w) \/ Fail(w)
      PROVE  Covered'
  <2>1. PICK s \in {"canceled", "failed"} : tx' = MarkState(tx, worker[w].id, s)
    BY <1>4 DEF Cancel, Fail
  <2>2. /\ worker[w].pc # "resting"
        /\ worker' = [worker EXCEPT ![w] = Resting]
        /\ NoteUndone(worker[w].id)
    BY <1>4 DEF Cancel, Fail, Decided
  <2>3. /\ history'.late = history.late
        /\ history.undone \subseteq history'.undone
        /\ tx[worker[w].id].state = "succeeded" => worker[w].id \in history'.undone
    BY <2>2 DEF NoteUndone, History
  <2>4. s \in TxState \ {"none", "pending"} /\ s # "succeeded"
    BY DEF TxState
  <2>5. QED
    BY <2>1, <2>2, <2>3, <2>4, MarkKeepsCovered
<1>5. ASSUME NEW w \in Worker, Settle(w)
      PROVE  Covered'
  <2>1. /\ worker[w].pc = "reading" /\ worker[w].balance = "ok"
        /\ tx' = MarkState(tx, worker[w].id, "succeeded")
        /\ worker' = [worker EXCEPT ![w].pc = "settled"]
    BY <1>5 DEF Settle, Decided, Refused, WorkerState, Verdict
  <2>2. BalanceFound(worker[w].id)
    BY <2>1 DEF BalanceFound
  <2>3. /\ history.late \subseteq history'.late
        /\ history'.undone = history.undone
        /\ tx[worker[w].id].state \in {"pending", "succeeded"}
           \/ worker[w].id \in history'.late
    BY <1>5 DEF Settle, History
  <2>4. "succeeded" \in TxState \ {"none", "pending"}
    BY DEF TxState
  <2>5. QED
    BY <2>1, <2>2, <2>3, <2>4, MarkKeepsCovered
<1>6. CASE CancelTimeoutTransactions
  <2> SUFFICES ASSUME NEW u \in User PROVE CoveredFor(u)'
    BY DEF Covered
  <2>1. /\ UNCHANGED <<worker, history>>
        /\ \A id \in TxId : \/ tx'[id] = tx[id]
                            \/ /\ tx[id].state = "pending"
                               /\ tx'[id] = [tx[id] EXCEPT !.state = "canceled"]
    BY <1>6, TimerMarks
  <2>2. \A id \in TxId : /\ tx'[id].amount = tx[id].amount
                         /\ tx'[id].sender = tx[id].sender
                         /\ tx'[id].recipient = tx[id].recipient
                         /\ tx'[id].currency = tx[id].currency
                         /\ tx'[id].state \in {tx[id].state, "canceled"}
                         /\ tx[id].state = "succeeded" => tx'[id].state = "succeeded"
    BY <2>1 DEF Table, Tx
  <2>3. EverReceived(u) \subseteq EverReceived(u)'
    <3> SUFFICES ASSUME NEW i \in EverReceived(u) PROVE i \in EverReceived(u)'
      OBVIOUS
    <3>1. i \in TxId
      BY RowsOfMember DEF Existing
    <3>2. QED
      BY <2>1, <2>2, <3>1 DEF EverReceived, Received
  <2>4. Leaving(u)' \subseteq Leaving(u)
    BY <2>1, <2>2 DEF Leaving, BalanceFound
  <2>5. QED
    BY <2>2, <2>3, <2>4, StaysCovered DEF Covered, Existing
<1>7. CASE NextDay \/ UNCHANGED vars
  BY <1>0, <1>7 DEF NextDay, vars, BalanceFound
<1>8. QED
  BY <1>1, <1>2, <1>3, <1>4, <1>5, <1>6, <1>7, ReadKeepsCovered DEF Next, HandlerStep

-----------------------------------------------------------------------------
(* What holds of any number of requests and handlers.                       *)

LEMMA AlwaysCovered == Spec => [](IInv /\ Covered)
<1>1. Init => IInv /\ Covered
  BY InitIInv, InitCovered
<1>2. (IInv /\ Covered) /\ [Next]_vars => (IInv /\ Covered)'
  BY NextKeepsIInv, NextKeepsCovered
<1>3. QED
  BY <1>1, <1>2, PTL DEF Spec

\* Requests, jobs, handlers and rows keep their types: what handlePayTo marks
\* (connectors/queue/payTo/matters.ts:88-185) is always a row of the table.
THEOREM TypeCorrect == Spec => []TypeOK
<1>1. IInv => TypeOK
  BY DEF IInv
<1>2. QED
  BY <1>1, AlwaysCovered, PTL

\* However many handlers settle donations, jobs handed out again and rows the
\* timer cancels among them, nobody spends a dollar more than was received:
\* each reads calculateHKDBalance (connectors/paymentService.ts:600-623), which
\* counts pending rows as spent, after its own row was inserted.
THEOREM NoUnexplainedOverdraft == Spec => []OverdraftExplained
<1>1. ASSUME IInv, Covered, NEW u \in User
      PROVE  AmountOf(tx, EverReceived(u)) - AmountOf(tx, SettledInTime(u)) > -Unit
  <2>1. tx \in Table /\ IsFiniteSet(Existing(tx))
    BY <1>1 DEF IInv, TypeOK, HoldersOK
  <2>2. SettledInTime(u) \in SUBSET Leaving(u)
    BY DEF SettledInTime, Settled, Leaving
  <2>3. Leaving(u) \in SUBSET Existing(tx) /\ EverReceived(u) \in SUBSET Existing(tx)
    BY <1>1, RowsOfMember
  <2>4. AmountOf(tx, SettledInTime(u)) <= AmountOf(tx, Leaving(u))
    BY <2>1, <2>2, <2>3, SumShrinks
  <2>5. /\ AmountOf(tx, SettledInTime(u)) \in Nat
        /\ AmountOf(tx, Leaving(u)) \in Nat
        /\ AmountOf(tx, EverReceived(u)) \in Nat
    BY <2>1, <2>2, <2>3, SumOfRows
  <2>6. CoveredFor(u)
    BY <1>1 DEF Covered
  <2>7. QED
    BY <2>4, <2>5, <2>6, LedgerAssumption DEF CoveredFor
<1>2. IInv /\ Covered => OverdraftExplained
  BY <1>1 DEF OverdraftExplained
<1>3. QED
  BY <1>2, AlwaysCovered, PTL

-----------------------------------------------------------------------------
(* The daily limit.  With a single handler, nothing is settled between its   *)
(* reading of the day's sum and its own settlement, so that what it found    *)
(* still leaves room for its row when the row is settled.                    *)

OneHandler == \A v, w \in Worker : v = w

Given(u, d) == HKDDonationsOn(tx, u, d) \ history.overnight

WithinDay(u, d) == AmountOf(tx, Given(u, d)) < (Limit + 1) * Unit

LimitFound(w) ==
  /\ worker[w].pc = "reading"
  /\ worker[w].hasPaid = "ok"
  /\ worker[w].id \notin history.overnight

HasRoom(id) ==
  AmountOf(tx, Given(tx[id].sender, tx[id].day)) + tx[id].amount < (Limit + 1) * Unit

RoomLeft == \A w \in Worker : LimitFound(w) => HasRoom(worker[w].id)

LimitInv == DailyLimitKept /\ RoomLeft

LEMMA GivenRows ==
  ASSUME IInv, NEW u, NEW d
  PROVE  /\ Given(u, d) \in SUBSET Existing(tx)
         /\ AmountOf(tx, Given(u, d)) \in Nat
<1>1. Given(u, d) \in SUBSET Existing(tx)
  BY DEF Given, HKDDonationsOn, DonationsOn, Existing
<1>2. QED
  BY <1>1, SumOfRows DEF IInv, TypeOK, HoldersOK

LEMMA GivesNoMore ==
  ASSUME IInv, IInv', NEW u, NEW d,
         \A id \in Existing(tx) : tx'[id].amount = tx[id].amount,
         Given(u, d)' \subseteq Given(u, d)
  PROVE  /\ AmountOf(tx', Given(u, d)') <= AmountOf(tx, Given(u, d))
         /\ AmountOf(tx', Given(u, d)') \in Nat
         /\ AmountOf(tx, Given(u, d)) \in Nat
<1>1. Given(u, d)' \in SUBSET Existing(tx')
  BY DEF Given, HKDDonationsOn, DonationsOn, Existing
<1>2. AmountOf(tx', Given(u, d)') \in Nat
  BY <1>1, SumOfRows DEF IInv, TypeOK, HoldersOK
<1>3. AmountOf(tx', Given(u, d)') <= AmountOf(tx, Given(u, d))
  BY GivenRows, SumShrinks DEF IInv, TypeOK, HoldersOK
<1>4. QED
  BY <1>2, <1>3, GivenRows

LEMMA Limits == Limit \in Nat /\ Unit \in Nat /\ (Limit + 1) * Unit \in Nat
BY PayToAssumption, LedgerAssumption

\* Steps after which nobody has given more on any day keep to the limit, and
\* leave a handler the room it had.
LEMMA StaysWithin ==
  ASSUME IInv, IInv', DailyLimitKept,
         \A id \in Existing(tx) : tx'[id].amount = tx[id].amount,
         \A u, d : Given(u, d)' \subseteq Given(u, d)
  PROVE  DailyLimitKept'
<1> SUFFICES ASSUME NEW u \in User, NEW d \in 0..MaxDay
             PROVE  AmountOf(tx', Given(u, d)') < (Limit + 1) * Unit
  BY DEF DailyLimitKept, Given
<1>1. AmountOf(tx', Given(u, d)') <= AmountOf(tx, Given(u, d))
      /\ AmountOf(tx', Given(u, d)') \in Nat
      /\ AmountOf(tx, Given(u, d)) \in Nat
  BY GivesNoMore
<1>2. AmountOf(tx, Given(u, d)) < (Limit + 1) * Unit
  BY DEF DailyLimitKept, Given
<1>3. QED
  BY <1>1, <1>2, Limits

LEMMA RoomStays ==
  ASSUME IInv, IInv', RoomLeft, NEW w \in Worker,
         LimitFound(w), worker'[w].id = worker[w].id,
         \A id \in Existing(tx) : /\ tx'[id].amount = tx[id].amount
                                  /\ tx'[id].sender = tx[id].sender
                                  /\ tx'[id].day = tx[id].day,
         \A u, d : Given(u, d)' \subseteq Given(u, d)
  PROVE  HasRoom(worker[w].id)'
<1>1. PICK id \in Existing(tx) : id = worker[w].id
  BY DEF LimitFound, IInv, HoldersOK
<1>2. PICK u : u = tx[id].sender
  OBVIOUS
<1>3. PICK d : d = tx[id].day
  OBVIOUS
<1>4. /\ tx'[id].sender = u /\ tx'[id].day = d
      /\ tx'[id].amount = tx[id].amount
      /\ tx[id].amount \in Nat
  BY <1>1, <1>2, <1>3 DEF IInv, TypeOK, Existing, Table, Tx
<1>5. AmountOf(tx, Given(u, d)) + tx[id].amount < (Limit + 1) * Unit
  BY <1>1, <1>2, <1>3 DEF RoomLeft, HasRoom
<1>6. AmountOf(tx', Given(u, d)') <= AmountOf(tx, Given(u, d))
      /\ AmountOf(tx', Given(u, d)') \in Nat
      /\ AmountOf(tx, Given(u, d)) \in Nat
  BY GivesNoMore
<1>7. AmountOf(tx', Given(u, d)') + tx'[id].amount < (Limit + 1) * Unit
  BY <1>4, <1>5, <1>6, Limits
<1>8. QED
  BY <1>1, <1>4, <1>7 DEF HasRoom

LEMMA InitLimit == Init => LimitInv
<1> SUFFICES ASSUME Init PROVE LimitInv
  OBVIOUS
<1>1. ASSUME NEW u \in User, NEW d \in 0..MaxDay
      PROVE  AmountOf(tx, HKDDonationsOn(tx, u, d) \ history.overnight)
               < (Limit + 1) * Unit
  <2>1. HKDDonationsOn(tx, u, d) \ history.overnight = HKDDonationsOn(Opening, u, d)
    BY DEF Init
  <2>2. QED
    BY <2>1, OpeningAssumption DEF Init
<1>2. RoomLeft
  BY DEF Init, RoomLeft, LimitFound, Resting
<1>3. QED
  BY <1>1, <1>2 DEF LimitInv, DailyLimitKept

\* The handler reads the day's sum and finds room for its row.
LEMMA ReadKeepsLimit ==
  ASSUME IInv, IInv', LimitInv, NEW w \in Worker, ReadHasPaid(w)
  PROVE  LimitInv'
<1> DEFINE id == worker[w].id
<1>1. /\ UNCHANGED tx /\ id \in Existing(tx) /\ id \in TxId
      /\ tx \in Table /\ IsFiniteSet(Existing(tx))
      /\ \A v \in Worker : worker'[v].id = worker[v].id
      /\ \A v \in Worker : v # w => worker'[v] = worker[v]
      /\ history.overnight \subseteq history'.overnight
      /\ today \in 0..MaxDay
  BY DEF ReadHasPaid, IInv, TypeOK, HoldersOK, Existing, History, WorkerState
<1>2. \A u, d : Given(u, d)' \subseteq Given(u, d)
  BY <1>1 DEF Given
<1>3. DailyLimitKept'
  BY <1>1, <1>2, StaysWithin DEF LimitInv
<1>4. ASSUME NEW v \in Worker, v # w, LimitFound(v)'
      PROVE  HasRoom(worker[v].id)'
  BY <1>1, <1>2, <1>4, RoomStays DEF LimitInv, LimitFound
<1>5. ASSUME LimitFound(w)'
      PROVE  HasRoom(worker[w].id)'
  <2>1. PICK i \in Existing(tx) : i = id
    BY <1>1
  <2>2. PICK u : u = tx[i].sender
    OBVIOUS
  <2>3. PICK d : d = tx[i].day
    OBVIOUS
  <2>4. WithinLimit(u, tx[i].amount) /\ d = today
    BY <1>1, <1>5, <2>1, <2>2, <2>3 DEF LimitFound, ReadHasPaid, IInv, TypeOK, History
  <2>5. /\ DonationsOn(tx, u, d) \in SUBSET Existing(tx)
        /\ Given(u, d) \in SUBSET DonationsOn(tx, u, d)
    BY DEF DonationsOn, HKDDonationsOn, Existing, Given
  <2> DEFINE paid == AmountOf(tx, DonationsOn(tx, u, d))
  <2>6. paid \in Nat /\ tx[i].amount \in Nat
    BY <1>1, <2>5, SumOfRows DEF Table, Tx, Existing
  <2>7. AmountOf(tx, Given(u, d)) <= paid /\ AmountOf(tx, Given(u, d)) \in Nat
    BY <1>1, <2>5, SumShrinks, GivenRows
  <2>8. tx[i].amount + Dollars(paid) * Unit <= Limit * Unit
    BY <2>4 DEF WithinLimit, DonatedOn
  <2> HIDE DEF paid, id
  <2>9. /\ Dollars(paid) \in Nat
        /\ paid < (Dollars(paid) + 1) * Unit
    BY <2>6, DollarsRound
  <2>10. AmountOf(tx, Given(u, d)) + tx[i].amount < (Limit + 1) * Unit
    <3>1. /\ (Dollars(paid) + 1) * Unit = Dollars(paid) * Unit + Unit
          /\ (Limit + 1) * Unit = Limit * Unit + Unit
          /\ Dollars(paid) * Unit \in Nat /\ Limit * Unit \in Nat
      BY <2>9, Limits
    <3>2. QED
      BY <2>6, <2>7, <2>8, <2>9, <3>1, Limits
  <2>11. AmountOf(tx', Given(u, d)') <= AmountOf(tx, Given(u, d))
        /\ AmountOf(tx', Given(u, d)') \in Nat
    BY <1>1, <1>2, GivesNoMore
  <2>12. AmountOf(tx', Given(u, d)') + tx'[i].amount < (Limit + 1) * Unit
    BY <1>1, <2>6, <2>7, <2>10, <2>11, Limits
  <2>13. QED
    BY <1>1, <2>1, <2>2, <2>3, <2>12 DEF HasRoom, id
<1>6. QED
  BY <1>3, <1>4, <1>5 DEF LimitInv, RoomLeft

\* A handler settles its row: the room it found is still there.
LEMMA SettleKeepsLimit ==
  ASSUME IInv, IInv', LimitInv, OneHandler, NEW w \in Worker, Settle(w)
  PROVE  LimitInv'
<1>1. PICK i \in Existing(tx) : i = worker[w].id
  BY DEF Settle, Decided, IInv, HoldersOK
<1>2. /\ i \in TxId /\ tx \in Table /\ tx' \in Table
      /\ IsFiniteSet(Existing(tx)) /\ IsFiniteSet(Existing(tx'))
      /\ tx' = MarkState(tx, i, "succeeded")
      /\ history'.overnight = history.overnight
      /\ worker[w].pc = "reading" /\ worker[w].hasPaid = "ok"
      /\ \A v \in Worker : worker'[v].pc = "settled"
  BY <1>1 DEF Settle, Decided, Refused, IInv, TypeOK, HoldersOK, Existing, History,
              WorkerState, Verdict, OneHandler
<1>3. \A id \in TxId : /\ tx'[id].amount = tx[id].amount
                       /\ tx'[id].sender = tx[id].sender
                       /\ tx'[id].day = tx[id].day
                       /\ tx'[id].purpose = tx[id].purpose
                       /\ tx'[id].currency = tx[id].currency
                       /\ id # i => tx'[id].state = tx[id].state
  BY <1>2 DEF MarkState, Table, Tx
<1>4. RoomLeft'
  BY <1>2 DEF RoomLeft, LimitFound
<1>5. ASSUME NEW u \in User, NEW d \in 0..MaxDay
      PROVE  AmountOf(tx', Given(u, d)') < (Limit + 1) * Unit
  <2>1. Given(u, d)' \subseteq Given(u, d) \cup {i}
    BY <1>2, <1>3 DEF Given, HKDDonationsOn, DonationsOn
  <2>2. /\ AmountOf(tx, Given(u, d)) \in Nat
        /\ Given(u, d) \in SUBSET Existing(tx)
        /\ AmountOf(tx, Given(u, d)) < (Limit + 1) * Unit
    BY GivenRows DEF LimitInv, DailyLimitKept, Given
  <2>3. CASE Given(u, d)' \subseteq Given(u, d)
    <3>1. AmountOf(tx', Given(u, d)') <= AmountOf(tx, Given(u, d))
          /\ AmountOf(tx', Given(u, d)') \in Nat
      BY <1>3, <2>3, GivesNoMore DEF Existing
    <3>2. QED
      BY <2>2, <3>1, Limits
  <2>4. CASE ~(Given(u, d)' \subseteq Given(u, d))
    <3>1. i \in Given(u, d)'
      BY <2>1, <2>4
    <3>2. i \notin history.overnight /\ tx[i].sender = u /\ tx[i].day = d
      BY <1>2, <1>3, <3>1 DEF Given, HKDDonationsOn, DonationsOn
    <3>3. AmountOf(tx, Given(u, d)) + tx[i].amount < (Limit + 1) * Unit
      BY <1>1, <1>2, <3>2 DEF LimitInv, RoomLeft, LimitFound, HasRoom
    <3> DEFINE both == Given(u, d) \cup {i}
    <3>4. both \in SUBSET Existing(tx)
      BY <2>2
    <3>5. IsFiniteSet(Given(u, d)) /\ Counts(tx, both) /\ AmountOf(tx, both) \in Nat
      BY <1>2, <2>2, <3>4, SumOfRows
    <3>6. AmountOf(tx, both) <= AmountOf(tx, Given(u, d)) + tx[i].amount
      BY <3>5, AmountOfAdd
    <3>7. AmountOf(tx', Given(u, d)') <= AmountOf(tx, both)
      BY <1>2, <1>3, <2>1, <3>4, SumShrinks DEF Existing
    <3>8. AmountOf(tx', Given(u, d)') \in Nat
      <4>1. Given(u, d)' \in SUBSET Existing(tx')
        BY DEF Given, HKDDonationsOn, DonationsOn, Existing
      <4>2. QED
        BY <1>2, <4>1, SumOfRows
    <3>9. tx[i].amount \in Nat
      BY <1>2 DEF Table, Tx
    <3> HIDE DEF both
    <3>10. QED
      BY <2>2, <3>3, <3>5, <3>6, <3>7, <3>8, <3>9, Limits
  <2>5. QED
    BY <2>3, <2>4
<1>6. QED
  BY <1>4, <1>5 DEF LimitInv, DailyLimitKept, Given

LEMMA NextKeepsLimit ==
  ASSUME IInv, IInv', LimitInv, OneHandler, [Next]_vars
  PROVE  LimitInv'
<1> USE DEF IInv, TypeOK

\* Steps that settle no row and find no room.
<1>0. ASSUME \A id \in Existing(tx) : /\ tx'[id].amount = tx[id].amount
                                      /\ tx'[id].sender = tx[id].sender
                                      /\ tx'[id].day = tx[id].day,
             \A u, d : Given(u, d)' \subseteq Given(u, d),
             \A w \in Worker : LimitFound(w)' =>
                                 LimitFound(w) /\ worker'[w].id = worker[w].id
      PROVE  LimitInv'
  BY <1>0, StaysWithin, RoomStays DEF LimitInv, RoomLeft
<1>1. ASSUME UNCHANGED <<tx, history>>,
             \A w \in Worker : worker'[w].pc = "reading" /\ worker'[w].hasPaid = "ok" =>
                                 /\ worker[w].pc = "reading"
                                 /\ worker[w].hasPaid = "ok"
                                 /\ worker'[w].id = worker[w].id
      PROVE  LimitInv'
  <2>1. \A u, d : Given(u, d)' = Given(u, d)
    BY <1>1 DEF Given
  <2>2. QED
    BY <1>0, <1>1, <2>1 DEF LimitFound
<1>2. ASSUME NEW c \in Caller, InsertPending(c)
      PROVE  LimitInv'
  <2>1. PICK id \in TxId : /\ tx[id].state = "none"
                           /\ tx' = Insert(tx, id,
                                Row("donation", "pending", request[c].sender,
                                    request[c].recipient, request[c].amount, today))
    BY <1>2 DEF InsertPending
  <2>2. /\ UNCHANGED <<worker, history>>
        /\ \A other \in TxId : other # id => tx'[other] = tx[other]
        /\ tx'[id].state = "pending"
    BY <1>2, <2>1 DEF InsertPending, Insert, Row, Table
  <2>3. \A i \in Existing(tx) : tx'[i] = tx[i]
    BY <2>1, <2>2 DEF Existing
  <2>4. \A u, d : Given(u, d)' \subseteq Given(u, d)
    BY <2>2 DEF Given, HKDDonationsOn, DonationsOn
  <2>5. QED
    BY <1>0, <2>2, <2>3, <2>4 DEF LimitFound
<1>3. ASSUME NEW c \in Caller, RequestStep(c), ~InsertPending(c)
      PROVE  UNCHANGED <<tx, worker, history>>
  BY <1>3 DEF RequestStep, CheckBalance, PassLimit, RefuseLimit, Enqueue, LoseRequest
<1>4. ASSUME NEW w \in Worker,
             TakeJob(w) \/ ReadBalance(w) \/ Finish(w) \/ Redeliver(w) \/ GiveUp(w)
      PROVE  LimitInv'
  <2>1. UNCHANGED <<tx, history>>
    BY <1>4 DEF TakeJob, ReadBalance, Finish, Redeliver, GiveUp
  <2>2. \A v \in Worker : worker'[v].pc = "reading" /\ worker'[v].hasPaid = "ok" =>
                            /\ worker[v].pc = "reading"
                            /\ worker[v].hasPaid = "ok"
                            /\ worker'[v].id = worker[v].id
    BY <1>4 DEF TakeJob, ReadBalance, Finish, Redeliver, GiveUp, Job, Resting, WorkerState
  <2>3. QED
    BY <1>1, <2>1, <2>2
<1>5. ASSUME NEW w \in Worker, Cancel(w) \/ Fail(w)
      PROVE  LimitInv'
  <2>1. PICK s \in {"canceled", "failed"} : tx' = MarkState(tx, worker[w].id, s)
    BY <1>5 DEF Cancel, Fail
  <2>2. /\ worker[w].pc # "resting"
        /\ worker' = [worker EXCEPT ![w] = Resting]
        /\ NoteUndone(worker[w].id)
    BY <1>5 DEF Cancel, Fail, Decided
  <2>3. history'.overnight = history.overnight
    BY <2>2 DEF NoteUndone, History
  <2>4. \A id \in TxId : /\ tx'[id].amount = tx[id].amount
                         /\ tx'[id].sender = tx[id].sender
                         /\ tx'[id].day = tx[id].day
                         /\ tx'[id].purpose = tx[id].purpose
                         /\ tx'[id].currency = tx[id].currency
                         /\ tx'[id].state \in {tx[id].state, "canceled", "failed"}
    BY <2>1 DEF MarkState, Table, Tx
  <2>5. \A u, d : Given(u, d)' \subseteq Given(u, d)
    BY <2>3, <2>4 DEF Given, HKDDonationsOn, DonationsOn
  <2>6. \A v \in Worker : LimitFound(v)' => LimitFound(v) /\ worker'[v].id = worker[v].id
    BY <2>2, <2>3 DEF LimitFound, Resting
  <2>7. QED
    BY <1>0, <2>4, <2>5, <2>6 DEF Existing
<1>6. CASE CancelTimeoutTransactions
  <2>1. /\ UNCHANGED <<worker, history>>
        /\ \A id \in TxId : \/ tx'[id] = tx[id]
                            \/ /\ tx[id].state = "pending"
                               /\ tx'[id] = [tx[id] EXCEPT !.state = "canceled"]
    BY <1>6, TimerMarks
  <2>2. \A id \in TxId : /\ tx'[id].amount = tx[id].amount
                         /\ tx'[id].sender = tx[id].sender
                         /\ tx'[id].day = tx[id].day
                         /\ tx'[id].purpose = tx[id].purpose
                         /\ tx'[id].currency = tx[id].currency
                         /\ tx'[id].state \in {tx[id].state, "canceled"}
    BY <2>1 DEF Table, Tx
  <2>3. \A u, d : Given(u, d)' \subseteq Given(u, d)
    BY <2>1, <2>2 DEF Given, HKDDonationsOn, DonationsOn
  <2>4. QED
    BY <1>0, <2>1, <2>2, <2>3 DEF LimitFound, Existing
<1>7. CASE NextDay \/ UNCHANGED vars
  BY <1>1, <1>7 DEF NextDay, vars
<1>8. QED
  BY <1>1, <1>2, <1>3, <1>4, <1>5, <1>6, <1>7, ReadKeepsLimit, SettleKeepsLimit
     DEF Next, HandlerStep

\* With one handler, nobody gives more in a day than the limit that it checks
\* against the day's sum (connectors/queue/payTo/matters.ts:114-139), up to the
\* cents of a dollar, except for donations handled after midnight.
THEOREM LimitKept ==
  ASSUME OneHandler
  PROVE  Spec => []DailyLimitKept
<1>1. Init => IInv /\ LimitInv
  BY InitIInv, InitLimit
<1>2. IInv /\ LimitInv /\ [Next]_vars => (IInv /\ LimitInv)'
  BY NextKeepsIInv, NextKeepsLimit
<1>3. IInv /\ LimitInv => DailyLimitKept
  BY DEF LimitInv
<1>4. QED
  BY <1>1, <1>2, <1>3, PTL DEF Spec

-----------------------------------------------------------------------------
(* Donations and payouts over one table.  What the steps of PayTo do to      *)
(* their own half is known from the lemmas above.                            *)

\* The payouts' half: only ids of rows that are there are held, and these
\* rows pay nobody; transfers are made only of rows that are there.
PayoutRow(id) == id \in Existing(tx) /\ tx[id].recipient = NoUser

PayoutsOK ==
  /\ payout \in [Caller -> P!Request]
  /\ payer \in [Worker -> P!WorkerState]
  /\ transfers \in [TxId -> Nat]
  /\ \A c \in Caller : payout[c].pc = "inserted" => PayoutRow(payout[c].id)
  /\ \A w \in Worker : payer[w].pc # "resting" => PayoutRow(payer[w].id)
  /\ \A w \in Worker : payer[w].pc = "transferred" => transfers[payer[w].id] > 0
  /\ \A id \in payouts : PayoutRow(id)
  /\ \A id \in TxId : transfers[id] > 0 => id \in Existing(tx)

WInv == IInv /\ PayoutsOK

\* Rows are inserted and marked; nothing else happens to a table.
RowsKept ==
  \A id \in Existing(tx) :
    /\ id \in Existing(tx')
    /\ tx'[id].purpose = tx[id].purpose
    /\ tx'[id].currency = tx[id].currency
    /\ tx'[id].sender = tx[id].sender
    /\ tx'[id].recipient = tx[id].recipient
    /\ tx'[id].amount = tx[id].amount

-----------------------------------------------------------------------------
(* What a step does to the table.                                          *)

LEMMA MarkKeepsRows ==
  ASSUME tx \in Table, NEW id \in Existing(tx), NEW s \in TxState \ {"none"},
         tx' = MarkState(tx, id, s)
  PROVE  RowsKept /\ Existing(tx') = Existing(tx) /\ tx' \in Table
<1>1. id \in TxId
  BY DEF Existing
<1>2. Existing(tx') = Existing(tx) /\ tx' \in Table
  BY MarkExists, MarkStateType
<1>3. /\ \A other \in TxId \ {id} : tx'[other] = tx[other]
      /\ tx'[id] = [tx[id] EXCEPT !.state = s]
  BY <1>1, MarkRow
<1>4. QED
  BY <1>1, <1>2, <1>3 DEF RowsKept, Existing, Table, Tx

LEMMA InsertKeepsRows ==
  ASSUME tx \in Table, NEW id \in TxId, tx[id].state = "none", NEW row \in Tx,
         row.state # "none", tx' = Insert(tx, id, row)
  PROVE  RowsKept /\ Existing(tx') = Existing(tx) \cup {id} /\ tx' \in Table
<1>1. Existing(tx') = Existing(tx) \cup {id} /\ tx' \in Table
  BY InsertExists, InsertType
<1>2. id \notin Existing(tx)
  BY DEF Existing
<1>3. QED
  BY <1>1, <1>2 DEF RowsKept, Insert, Table, Existing

\* The three things that can happen to the table: a new pending row, a row
\* marked by its handler, rows cancelled by the timer.
Inserted(id) ==
  /\ tx[id].state = "none"
  /\ \E row \in Tx : row.state = "pending" /\ tx' = Insert(tx, id, row)

Marked(id, s) == id \in Existing(tx) /\ tx' = MarkState(tx, id, s)

TableStep ==
  \/ UNCHANGED tx
  \/ \E id \in TxId : Inserted(id)
  \/ \E id \in TxId, s \in {"succeeded", "failed", "canceled"} : Marked(id, s)
  \/ CancelTimeoutTransactions

LEMMA DonationTableStep ==
  ASSUME IInv, [Next]_vars
  PROVE  TableStep
<1> USE DEF IInv, TypeOK
<1>1. ASSUME NEW c \in Caller, InsertPending(c)
      PROVE  TableStep
  <2> DEFINE row == Row("donation", "pending", request[c].sender,
                        request[c].recipient, request[c].amount, today)
  <2>1. row \in Tx
    BY DonationRowType
  <2>2. row.state = "pending"
    BY DEF Row
  <2>3. QED
    BY <1>1, <2>1, <2>2 DEF InsertPending, TableStep, Inserted
<1>2. ASSUME NEW c \in Caller, RequestStep(c), ~InsertPending(c)
      PROVE  UNCHANGED tx
  BY <1>2 DEF RequestStep, CheckBalance, PassLimit, RefuseLimit, Enqueue, LoseRequest
<1>3. ASSUME NEW w \in Worker, Cancel(w) \/ Fail(w) \/ Settle(w)
      PROVE  TableStep
  <2>1. worker[w].id \in Existing(tx) /\ worker[w].id \in TxId
    BY <1>3 DEF Cancel, Fail, Settle, Decided, HoldersOK, Existing
  <2>2. QED
    BY <1>3, <2>1 DEF Cancel, Fail, Settle, TableStep, Marked
<1>4. ASSUME NEW w \in Worker, \/ TakeJob(w) \/ ReadBalance(w) \/ ReadHasPaid(w)
                               \/ Finish(w) \/ Redeliver(w) \/ GiveUp(w)
      PROVE  UNCHANGED tx
  BY <1>4 DEF TakeJob, ReadBalance, ReadHasPaid, Finish, Redeliver, GiveUp
<1>5. CASE NextDay \/ UNCHANGED vars
  BY <1>5 DEF NextDay, vars, TableStep
<1>6. QED
  BY <1>1, <1>2, <1>3, <1>4, <1>5 DEF Next, HandlerStep, TableStep

LEMMA ReserveInserts ==
  ASSUME WInv, NEW c \in Caller, P!Reserve(c)
  PROVE  \E id \in TxId : Inserted(id)
<1> DEFINE row == P!Row("payout", "pending", payout[c].sender, NoUser,
                        payout[c].amount, 0)
<1>1. payout[c].sender \in User \cup {NoUser} /\ payout[c].amount \in Amount \cup {0}
  BY DEF WInv, PayoutsOK, P!Request
<1>2. payout[c].amount \in Nat /\ 0 \in 0..MaxDay
  <2>1. Amount \subseteq Nat /\ 0 \in Nat /\ MaxDay \in Nat
    BY LedgerAssumption
  <2>2. payout[c].amount \in Nat
    BY <1>1, <2>1
  <2>3. 0 \in 0..MaxDay
    BY <2>1
  <2>4. QED
    BY <2>2, <2>3
<1>3. row \in Tx /\ row.state = "pending"
  BY <1>1, <1>2 DEF P!Row, Tx, TxState, Purpose, Currency
<1>4. PICK id \in TxId : tx[id].state = "none" /\ tx' = P!Insert(tx, id, row)
  BY DEF P!Reserve
<1>5. tx' = Insert(tx, id, row)
  BY <1>4 DEF P!Insert, Insert
<1>6. QED
  BY <1>3, <1>4, <1>5 DEF Inserted

LEMMA PayoutTableStep ==
  ASSUME WInv, P!Next
  PROVE  TableStep
<1> USE DEF WInv, IInv, TypeOK
<1>1. ASSUME NEW c \in Caller, P!Reserve(c)
      PROVE  TableStep
  BY <1>1, ReserveInserts DEF TableStep
<1>2. ASSUME NEW c \in Caller, P!RequestStep(c), ~P!Reserve(c)
      PROVE  UNCHANGED tx
  BY <1>2 DEF P!RequestStep, P!Ask, P!ReadBalance, P!ReadPending, P!Drop, P!Enqueue
<1>3. ASSUME NEW w \in Worker, P!Cancel(w) \/ P!Fail(w) \/ P!Record(w)
      PROVE  TableStep
  <2>1. payer[w].id \in Existing(tx) /\ payer[w].id \in TxId
    BY <1>3 DEF P!Cancel, P!Fail, P!Record, PayoutsOK, PayoutRow, Existing
  <2>2. QED
    BY <1>3, <2>1 DEF P!Cancel, P!Fail, P!Record, P!MarkState, MarkState,
                      TableStep, Marked
<1>4. ASSUME NEW w \in Worker, \/ P!TakeJob(w) \/ P!Check(w) \/ P!Transfer(w)
                               \/ P!Finish(w) \/ P!Redeliver(w) \/ P!GiveUp(w)
      PROVE  UNCHANGED tx
  BY <1>4 DEF P!TakeJob, P!Check, P!Transfer, P!Finish, P!Redeliver, P!GiveUp
<1>5. ASSUME NEW u \in User, P!UpdateAccount(u)
      PROVE  UNCHANGED tx
  BY <1>5 DEF P!UpdateAccount
<1>6. QED
  BY <1>1, <1>2, <1>3, <1>4, <1>5 DEF P!Next, P!HandlerStep, TableStep

-----------------------------------------------------------------------------
(* The life of a transaction.                                              *)

statuses == [id \in TxId |-> StatusOf(tx[id].state)]
allTerms == [id \in TxId |-> TermsOf(tx[id])]
AnyTerms == Purpose \X (User \cup {NoUser}) \X (User \cup {NoUser}) \X Nat

LEMMA StatusValues ==
  /\ StatusOf("none") = "none"
  /\ StatusOf("pending") = "open"
  /\ StatusOf("succeeded") = "paid"
  /\ StatusOf("failed") = "dropped"
  /\ StatusOf("canceled") = "dropped"
BY DEF StatusOf

LEMMA TermsType ==
  ASSUME NEW tbl \in Table, NEW id \in TxId
  PROVE  TermsOf(tbl[id]) \in AnyTerms
BY DEF TermsOf, AnyTerms, Table, Tx

LEMMA InsertOpens ==
  ASSUME tx \in Table, tx' \in Table, NEW id \in TxId, Inserted(id)
  PROVE  L!Open(id)
<1>1. PICK row \in Tx : row.state = "pending" /\ tx' = [tx EXCEPT ![id] = row]
  BY DEF Inserted, Insert
<1>2. tx[id].state = "none" /\ tx'[id].state = "pending"
  BY <1>1 DEF Inserted, Table
<1>3. \A other \in TxId \ {id} : tx'[other] = tx[other]
  BY <1>1 DEF Table
<1>4. statuses[id] = "none"
  BY <1>2, StatusValues DEF statuses
<1>5. statuses' = [statuses EXCEPT ![id] = "open"]
  BY <1>2, <1>3, StatusValues DEF statuses
<1>6. allTerms' \in [TxId -> AnyTerms]
  BY TermsType DEF allTerms
<1>7. \A other \in TxId \ {id} : allTerms'[other] = allTerms[other]
  BY <1>3 DEF allTerms
<1>8. QED
  BY <1>4, <1>5, <1>6, <1>7 DEF L!Open, statuses, allTerms, AnyTerms

LEMMA MarkPaysOrDrops ==
  ASSUME tx \in Table, NEW id \in TxId, NEW s \in {"succeeded", "failed", "canceled"},
         Marked(id, s)
  PROVE  L!Pay(id) \/ L!Drop({id})
<1>1. tx[id].state # "none" /\ tx' = MarkState(tx, id, s)
  BY DEF Marked, Existing
<1>2. /\ \A other \in TxId \ {id} : tx'[other] = tx[other]
      /\ tx'[id] = [tx[id] EXCEPT !.state = s]
  <2>1. s \in TxState
    BY DEF TxState
  <2>2. QED
    BY <1>1, <2>1, MarkRow
<1>3. tx'[id].state = s /\ TermsOf(tx'[id]) = TermsOf(tx[id])
  BY <1>2 DEF TermsOf, Table, Tx
<1>4. allTerms' = allTerms
  BY <1>2, <1>3 DEF allTerms
<1>5. statuses[id] # "none"
  BY <1>1, StatusValues DEF statuses, Table, Tx, TxState
<1>6. CASE s = "succeeded"
  <2>1. statuses' = [statuses EXCEPT ![id] = "paid"]
    BY <1>2, <1>3, <1>6, StatusValues DEF statuses
  <2>2. QED
    BY <1>4, <1>5, <2>1 DEF L!Pay, statuses, allTerms
<1>7. CASE s # "succeeded"
  <2>1. \A i \in TxId : StatusOf(tx'[i].state) =
                           IF i \in {id} THEN "dropped" ELSE StatusOf(tx[i].state)
    BY <1>2, <1>3, <1>7, StatusValues
  <2>2. statuses' = [i \in TxId |-> IF i \in {id} THEN "dropped" ELSE statuses[i]]
    BY <2>1 DEF statuses
  <2>3. QED
    BY <1>4, <1>5, <2>2 DEF L!Drop, statuses, allTerms
<1>8. QED
  BY <1>6, <1>7

LEMMA TimerDrops ==
  ASSUME tx \in Table, CancelTimeoutTransactions
  PROVE  \E ids \in SUBSET TxId : L!Drop(ids)
<1>1. PICK ids \in SUBSET {id \in TxId : TimesOut(tx[id])} :
        tx' = [id \in TxId |-> IF id \in ids
                               THEN [tx[id] EXCEPT !.state = "canceled"]
                               ELSE tx[id]]
  BY DEF CancelTimeoutTransactions
<1>2. \A id \in ids : tx[id].state = "pending" /\ id \in TxId
  BY DEF TimesOut
<1>3. \A id \in TxId : /\ tx'[id].state = IF id \in ids THEN "canceled" ELSE tx[id].state
                       /\ TermsOf(tx'[id]) = TermsOf(tx[id])
  BY <1>1 DEF TermsOf, Table, Tx
<1>4. allTerms' = allTerms
  BY <1>3 DEF allTerms
<1>5. statuses' = [i \in TxId |-> IF i \in ids THEN "dropped" ELSE statuses[i]]
  BY <1>3, StatusValues DEF statuses
<1>6. \A id \in ids : statuses[id] # "none"
  BY <1>2, StatusValues DEF statuses
<1>7. L!Drop(ids)
  BY <1>4, <1>5, <1>6 DEF L!Drop, statuses, allTerms
<1>8. QED
  BY <1>2, <1>7

LEMMA TableStepRefines ==
  ASSUME tx \in Table, tx' \in Table, TableStep
  PROVE  [L!Next]_<<statuses, allTerms>>
<1>1. CASE UNCHANGED tx
  BY <1>1 DEF statuses, allTerms
<1>2. QED
  BY <1>1, InsertOpens, MarkPaysOrDrops, TimerDrops DEF TableStep, L!Next

LEMMA InitRefines ==
  ASSUME Init
  PROVE  L!Init
<1>1. tx \in Table
  BY PayToAssumption DEF Init
<1>2. \A id \in TxId : StatusOf(tx[id].state) \in {"none", "open", "paid", "dropped"}
  BY <1>1, StatusValues DEF Table, Tx, TxState
<1>3. \A id \in TxId : TermsOf(tx[id]) \in AnyTerms
  BY <1>1, TermsType
<1>4. QED
  BY <1>2, <1>3 DEF L!Init, AnyTerms

-----------------------------------------------------------------------------
(* The shape of both halves.                                               *)

LEMMA TableStepKeepsRows ==
  ASSUME IInv, TableStep
  PROVE  /\ RowsKept
         /\ tx' \in Table
         /\ IsFiniteSet(Existing(tx'))
<1> USE DEF IInv, TypeOK
<1>0. IsFiniteSet(Existing(tx))
  BY DEF HoldersOK
<1>1. CASE UNCHANGED tx
  BY <1>0, <1>1 DEF RowsKept
<1>2. ASSUME NEW id \in TxId, Inserted(id)
      PROVE  RowsKept /\ tx' \in Table /\ IsFiniteSet(Existing(tx'))
  <2>1. PICK row \in Tx : row.state = "pending" /\ tx' = Insert(tx, id, row)
    BY <1>2 DEF Inserted
  <2>2. RowsKept /\ Existing(tx') = Existing(tx) \cup {id} /\ tx' \in Table
    BY <1>2, <2>1, InsertKeepsRows DEF Inserted
  <2>3. QED
    BY <1>0, <2>2, FS_AddElement
<1>3. ASSUME NEW id \in TxId, NEW s \in {"succeeded", "failed", "canceled"}, Marked(id, s)
      PROVE  RowsKept /\ tx' \in Table /\ IsFiniteSet(Existing(tx'))
  <2>1. s \in TxState \ {"none"}
    BY DEF TxState
  <2>2. QED
    BY <1>0, <1>3, <2>1, MarkKeepsRows DEF Marked
<1>4. CASE CancelTimeoutTransactions
  <2>1. /\ tx' \in Table /\ Existing(tx') = Existing(tx)
        /\ \A id \in TxId :
              tx'[id] = tx[id] \/ tx'[id] = [tx[id] EXCEPT !.state = "canceled"]
    BY <1>4, TimerMarks
  <2>2. RowsKept
    BY <2>1 DEF RowsKept, Existing, Table, Tx
  <2>3. QED
    BY <1>0, <2>1, <2>2
<1>5. QED
  BY <1>1, <1>2, <1>3, <1>4 DEF TableStep

LEMMA InitWInv == WalletInit => WInv
<1> SUFFICES ASSUME WalletInit PROVE WInv
  OBVIOUS
<1>1. IInv
  BY InitIInv DEF WalletInit
<1>2. payout \in [Caller -> P!Request] /\ \A c \in Caller : payout[c].pc = "idle"
  BY DEF WalletInit, P!Init, P!Idle, P!Request, P!Verdict
<1>3. payer \in [Worker -> P!WorkerState] /\ \A w \in Worker : payer[w].pc = "resting"
  BY DEF WalletInit, P!Init, P!Resting, P!Handler, P!WorkerState, P!Verdict
<1>4. payouts = {} /\ transfers \in [TxId -> Nat]
  BY DEF WalletInit, P!Init
<1>5. \A id \in TxId : transfers[id] > 0 => id \in Existing(tx)
  BY DEF WalletInit, P!Init, P!Paid, Existing
<1>6. PayoutsOK
  BY <1>2, <1>3, <1>4, <1>5 DEF PayoutsOK
<1>7. QED
  BY <1>1, <1>6 DEF WInv

\* Whatever happens to the table, a payout's row stays a payout's row.
LEMMA PayoutRowsStay ==
  ASSUME RowsKept
  PROVE  \A id : PayoutRow(id) => PayoutRow(id)'
BY DEF RowsKept, PayoutRow

LEMMA DonationKeepsWInv ==
  ASSUME WInv, [Next]_vars, UNCHANGED payoutVars
  PROVE  WInv'
<1>1. IInv'
  BY NextKeepsIInv DEF WInv
<1>2. RowsKept
  BY DonationTableStep, TableStepKeepsRows DEF WInv
<1>3. \A id : PayoutRow(id) => PayoutRow(id)'
  BY <1>2, PayoutRowsStay
<1>4. \A id \in Existing(tx) : id \in Existing(tx')
  BY <1>2 DEF RowsKept
<1>5. UNCHANGED <<payout, payouts, payer, transfers>>
  BY DEF payoutVars
<1>6. PayoutsOK'
  BY <1>3, <1>4, <1>5 DEF WInv, PayoutsOK
<1>7. QED
  BY <1>1, <1>6 DEF WInv

LEMMA PayoutKeepsIInv ==
  ASSUME WInv, P!Next, UNCHANGED donationVars
  PROVE  IInv'
<1>1. TableStep
  BY PayoutTableStep
<1>2. RowsKept /\ tx' \in Table /\ IsFiniteSet(Existing(tx'))
  BY <1>1, TableStepKeepsRows DEF WInv
<1>3. \A id \in Existing(tx) : id \in Existing(tx')
  BY <1>2 DEF RowsKept
<1>4. UNCHANGED <<today, request, queue, stalled, worker, history>>
  BY DEF donationVars
<1>5. TypeOK'
  BY <1>2, <1>4 DEF WInv, IInv, TypeOK
<1>6. HoldersOK'
  BY <1>2, <1>3, <1>4 DEF WInv, IInv, HoldersOK
<1>7. QED
  BY <1>5, <1>6 DEF IInv

LEMMA PayoutRequestKeepsOK ==
  ASSUME WInv, NEW c \in Caller, P!RequestStep(c), RowsKept
  PROVE  PayoutsOK'
<1> USE DEF PayoutsOK
<1>0. PayoutsOK /\ payout[c] \in P!Request /\ tx \in Table
  BY DEF WInv, IInv, TypeOK
<1>1. \A id : PayoutRow(id) => PayoutRow(id)'
  BY PayoutRowsStay
<1>2. \A id \in Existing(tx) : id \in Existing(tx')
  BY DEF RowsKept
<1>3. CASE P!Ask(c)
  <2>1. PICK u \in User, a \in Amount :
          payout' = [payout EXCEPT ![c] =
                       [P!Idle EXCEPT !.pc = "reading", !.sender = u, !.amount = a]]
    BY <1>3 DEF P!Ask
  <2>2. payout' \in [Caller -> P!Request]
    BY <1>0, <2>1 DEF P!Idle, P!Request, P!Verdict
  <2>3. \A d \in Caller : payout'[d].pc = "inserted" => payout'[d] = payout[d]
    BY <1>0, <2>1 DEF P!Idle
  <2>4. QED
    BY <1>0, <1>1, <1>2, <1>3, <2>2, <2>3 DEF P!Ask
<1>4. CASE P!ReadBalance(c) \/ P!ReadPending(c)
  <2>1. payout' \in [Caller -> P!Request]
    BY <1>0, <1>4 DEF P!ReadBalance, P!ReadPending, P!Request, P!Verdict
  <2>2. \A d \in Caller : payout'[d].pc = "inserted" => payout'[d] = payout[d]
    BY <1>0, <1>4 DEF P!ReadBalance, P!ReadPending, P!Request
  <2>3. QED
    BY <1>0, <1>1, <1>2, <1>4, <2>1, <2>2 DEF P!ReadBalance, P!ReadPending
<1>5. CASE P!Drop(c)
  <2>1. payout' \in [Caller -> P!Request]
    BY <1>0, <1>5 DEF P!Drop, P!Idle, P!Request, P!Verdict
  <2>2. \A d \in Caller : payout'[d].pc = "inserted" => payout'[d] = payout[d]
    BY <1>0, <1>5 DEF P!Drop, P!Idle
  <2>3. QED
    BY <1>0, <1>1, <1>2, <1>5, <2>1, <2>2 DEF P!Drop
<1>6. CASE P!Reserve(c)
  <2>1. PICK id \in TxId :
          /\ tx' = P!Insert(tx, id, P!Row("payout", "pending", payout[c].sender,
                                          NoUser, payout[c].amount, 0))
          /\ payout' = [payout EXCEPT ![c].pc = "inserted", ![c].id = id]
    BY <1>6 DEF P!Reserve
  <2>2. PayoutRow(id)'
    BY <1>0, <2>1 DEF P!Insert, P!Row, PayoutRow, Existing, Table
  <2>3. payout' \in [Caller -> P!Request]
    BY <1>0, <2>1 DEF P!Request
  <2>4. \A d \in Caller : payout'[d].pc = "inserted" =>
                            payout'[d] = payout[d] \/ payout'[d].id = id
    BY <1>0, <2>1
  <2>5. QED
    BY <1>0, <1>1, <1>2, <1>6, <2>2, <2>3, <2>4 DEF P!Reserve
<1>7. CASE P!Enqueue(c)
  <2>1. payout' \in [Caller -> P!Request]
    BY <1>0, <1>7 DEF P!Enqueue, P!Idle, P!Request, P!Verdict
  <2>2. \A d \in Caller : payout'[d].pc = "inserted" => payout'[d] = payout[d]
    BY <1>0, <1>7 DEF P!Enqueue, P!Idle
  <2>3. \A id \in payouts' : PayoutRow(id)
    BY <1>0, <1>7 DEF P!Enqueue
  <2>4. QED
    BY <1>0, <1>1, <1>2, <1>7, <2>1, <2>2, <2>3 DEF P!Enqueue
<1>8. QED
  BY <1>3, <1>4, <1>5, <1>6, <1>7 DEF P!RequestStep

LEMMA PayerKeepsOK ==
  ASSUME WInv, NEW w \in Worker, RowsKept,
         P!HandlerStep(w) \/ P!Fail(w) \/ P!Redeliver(w) \/ P!GiveUp(w)
  PROVE  PayoutsOK'
<1> USE DEF PayoutsOK
<1>0. PayoutsOK /\ payer[w] \in P!WorkerState /\ tx \in Table
  BY DEF WInv, IInv, TypeOK
<1>1. \A id : PayoutRow(id) => PayoutRow(id)'
  BY PayoutRowsStay
<1>2. \A id \in Existing(tx) : id \in Existing(tx')
  BY DEF RowsKept
<1>3. \A id : PayoutRow(id) => id \in TxId /\ id \in Existing(tx)
  BY DEF PayoutRow, Existing
<1>4. CASE P!TakeJob(w)
  <2>1. PICK id \in payouts : payer' = [payer EXCEPT ![w] = P!Handler("reading", id)]
    BY <1>4 DEF P!TakeJob
  <2>2. payer' \in [Worker -> P!WorkerState]
    BY <1>0, <1>3, <2>1 DEF P!Handler, P!WorkerState, P!Verdict
  <2>3. /\ \A v \in Worker : payer'[v].pc # "resting" => PayoutRow(payer'[v].id)
        /\ \A v \in Worker : payer'[v].pc = "transferred" => payer'[v] = payer[v]
    BY <1>0, <2>1 DEF P!Handler
  <2>4. QED
    BY <1>0, <1>1, <1>2, <1>4, <2>2, <2>3 DEF P!TakeJob, P!Taken
<1>5. CASE P!Check(w)
  <2>1. \E v \in P!Verdict : \/ payer' = [payer EXCEPT ![w].balance = v]
                             \/ payer' = [payer EXCEPT ![w].account = v]
                             \/ payer' = [payer EXCEPT ![w].pending = v]
    BY <1>5 DEF P!Check, P!Judge, P!Verdict
  <2>2. payer' \in [Worker -> P!WorkerState]
    BY <1>0, <2>1 DEF P!WorkerState
  <2>3. \A v \in Worker : payer'[v].pc = payer[v].pc /\ payer'[v].id = payer[v].id
    BY <1>0, <2>1 DEF P!WorkerState
  <2>4. QED
    BY <1>0, <1>1, <1>2, <1>5, <2>2, <2>3 DEF P!Check
<1>6. CASE P!Transfer(w)
  <2>1. payer[w].id \in TxId /\ payer[w].id \in Existing(tx)
    BY <1>0, <1>3, <1>6 DEF P!Transfer
  <2>2. /\ transfers' \in [TxId -> Nat]
        /\ \A id \in TxId : transfers'[id] >= transfers[id]
        /\ transfers'[payer[w].id] > 0
        /\ \A id \in TxId \ {payer[w].id} : transfers'[id] = transfers[id]
    BY <1>0, <1>6, <2>1 DEF P!Transfer
  <2>3. payer' \in [Worker -> P!WorkerState]
    BY <1>0, <1>6 DEF P!Transfer, P!WorkerState
  <2>4. \A v \in Worker : payer'[v].id = payer[v].id /\ (payer'[v].pc = payer[v].pc \/ v = w)
    BY <1>0, <1>6 DEF P!Transfer, P!WorkerState
  <2>5. \A v \in Worker : payer'[v].pc = "transferred" => transfers'[payer'[v].id] > 0
    BY <1>0, <1>3, <2>2, <2>4
  <2>6. \A v \in Worker : payer'[v].pc # "resting" => PayoutRow(payer'[v].id)
    BY <1>0, <1>6, <2>4 DEF P!Transfer
  <2>7. QED
    BY <1>0, <1>1, <1>2, <1>6, <2>1, <2>2, <2>3, <2>5, <2>6 DEF P!Transfer
<1>7. CASE P!Record(w)
  <2>1. payer' \in [Worker -> P!WorkerState]
    BY <1>0, <1>7 DEF P!Record, P!WorkerState
  <2>2. \A v \in Worker : payer'[v].id = payer[v].id /\ (payer'[v].pc = payer[v].pc \/ v = w)
    BY <1>0, <1>7 DEF P!Record, P!WorkerState
  <2>3. payer[w].pc # "resting" /\ payer'[w].pc = "recorded"
    BY <1>0, <1>7 DEF P!Record
  <2>4. QED
    BY <1>0, <1>1, <1>2, <1>7, <2>1, <2>2, <2>3 DEF P!Record
<1>8. CASE P!Cancel(w) \/ P!Finish(w) \/ P!Fail(w) \/ P!GiveUp(w) \/ P!Redeliver(w)
  <2>1. /\ payer' = payer \/ payer' = [payer EXCEPT ![w] = P!Resting]
        /\ \/ payouts' = payouts
           \/ payer[w].pc # "resting" /\ payouts' = payouts \cup {payer[w].id}
        /\ UNCHANGED <<payout, transfers>>
    <3>1. CASE P!Redeliver(w)
      BY <3>1 DEF P!Redeliver
    <3>2. CASE P!Cancel(w) \/ P!Finish(w) \/ P!Fail(w) \/ P!GiveUp(w)
      BY <3>2 DEF P!Cancel, P!Finish, P!Fail, P!GiveUp
    <3>3. QED
      BY <1>8, <3>1, <3>2
  <2>2. payer' \in [Worker -> P!WorkerState]
    BY <1>0, <2>1 DEF P!Resting, P!Handler, P!WorkerState, P!Verdict
  <2>3. \A v \in Worker : payer'[v].pc = "resting" \/ payer'[v] = payer[v]
    BY <1>0, <2>1 DEF P!Resting, P!Handler
  <2>4. \A id \in payouts' : PayoutRow(id)
    BY <1>0, <2>1
  <2>5. \A v \in Worker : payer'[v].pc = "transferred" => payer'[v] = payer[v]
    BY <2>3
  <2>6. QED
    BY <1>0, <1>1, <1>2, <2>1, <2>2, <2>3, <2>4, <2>5
<1>9. QED
  BY <1>4, <1>5, <1>6, <1>7, <1>8 DEF P!HandlerStep

LEMMA NextKeepsWInv == WInv /\ [WalletNext]_walletVars => WInv'
<1> SUFFICES ASSUME WInv, [WalletNext]_walletVars PROVE WInv'
  OBVIOUS
<1>1. CASE Next /\ UNCHANGED payoutVars
  BY <1>1, DonationKeepsWInv
<1>2. CASE P!Next /\ UNCHANGED donationVars
  <2>1. IInv'
    BY <1>2, PayoutKeepsIInv
  <2>2. RowsKept
    BY <1>2, PayoutTableStep, TableStepKeepsRows DEF WInv
  <2>3. CASE \E u \in User : P!UpdateAccount(u)
    <3>1. UNCHANGED <<tx, payout, payouts, payer, transfers>>
      BY <2>3 DEF P!UpdateAccount
    <3>2. PayoutsOK'
      BY <3>1 DEF WInv, PayoutsOK, PayoutRow
    <3>3. QED
      BY <2>1, <3>2 DEF WInv
  <2>4. QED
    BY <1>2, <2>1, <2>2, <2>3, PayoutRequestKeepsOK, PayerKeepsOK DEF P!Next, WInv
<1>3. CASE UNCHANGED walletVars
  <2>1. UNCHANGED vars /\ UNCHANGED payoutVars
    BY <1>3 DEF walletVars, donationVars, vars
  <2>2. QED
    BY <2>1, DonationKeepsWInv
<1>4. QED
  BY <1>1, <1>2, <1>3 DEF WalletNext

LEMMA WalletTableStep ==
  ASSUME WInv, [WalletNext]_walletVars
  PROVE  TableStep /\ tx \in Table /\ tx' \in Table
<1>1. TableStep
  <2>1. CASE Next /\ UNCHANGED payoutVars
    BY <2>1, DonationTableStep DEF WInv
  <2>2. CASE P!Next /\ UNCHANGED donationVars
    BY <2>2, PayoutTableStep
  <2>3. CASE UNCHANGED walletVars
    BY <2>3 DEF walletVars, TableStep
  <2>4. QED
    BY <2>1, <2>2, <2>3 DEF WalletNext
<1>2. QED
  BY <1>1, TableStepKeepsRows DEF WInv, IInv, TypeOK

\* Both queues, the timer and the mutations implement TxLifecycle: whichever
\* handler settles a transaction, redelivered, racing the timer or the other
\* queue, its terms stay and it is never pending again.
THEOREM LifecycleImplemented == WalletSpec => Lifecycle
<1>1. WalletInit => L!Init
  BY InitRefines DEF WalletInit
<1>2. WInv /\ [WalletNext]_walletVars => [L!Next]_<<statuses, allTerms>>
  BY WalletTableStep, TableStepRefines
<1>3. WalletSpec => [][L!Next]_<<statuses, allTerms>>
  BY InitWInv, NextKeepsWInv, <1>2, PTL DEF WalletSpec
<1>4. QED
  BY <1>1, <1>3, PTL DEF WalletSpec, Lifecycle, L!Spec, statuses, allTerms

-----------------------------------------------------------------------------
(* Overdrafts over both queues.  What a handler of either queue has found    *)
(* covered, and what it has transferred, may leave at any time.              *)

PayerFound(id) ==
  \E w \in Worker : /\ payer[w].pc = "reading"
                    /\ payer[w].id = id
                    /\ payer[w].balance = "ok"

MayLeave(id) == BalanceFound(id) \/ PayerFound(id) \/ transfers[id] > 0

Outgoing(u) ==
  {id \in TxId : /\ tx[id].sender = u
                 /\ tx[id].currency = "HKD"
                 /\ \/ tx[id].state = "succeeded"
                    \/ tx[id].state = "pending" /\ MayLeave(id)}
    \ (history.late \cup late)

SolventFor(u) ==
  AmountOf(tx, EverReceived(u)) - AmountOf(tx, Outgoing(u)) > -Unit

Solvent == \A u \in User : SolventFor(u)

LEMMA OutgoingRows ==
  /\ \A u : Outgoing(u) \in SUBSET Existing(tx)
  /\ \A u : Spent(u) \in SUBSET Outgoing(u)
BY DEF Outgoing, Spent, Existing, MayLeave

\* Only rows that are there may leave.
LEMMA LeavingIsThere ==
  ASSUME WInv, NEW id \in TxId, MayLeave(id)
  PROVE  id \in Existing(tx)
BY DEF MayLeave, BalanceFound, PayerFound, WInv, IInv, HoldersOK, PayoutsOK, PayoutRow

\* A step that takes no credit away and lets nothing else leave keeps the
\* member solvent.
LEMMA StaysSolvent ==
  ASSUME WInv, WInv', NEW u \in User, SolventFor(u), RowsKept,
         EverReceived(u) \subseteq EverReceived(u)',
         Outgoing(u)' \subseteq Outgoing(u)
  PROVE  SolventFor(u)'
<1>1. /\ tx \in Table /\ IsFiniteSet(Existing(tx))
      /\ tx' \in Table /\ IsFiniteSet(Existing(tx'))
  BY DEF WInv, IInv, TypeOK, HoldersOK
<1>2. EverReceived(u)' \in SUBSET Existing(tx')
  BY DEF WInv, IInv, HoldersOK, EverReceived, Received, Existing
<1>3. EverReceived(u) \in SUBSET Existing(tx) /\ Outgoing(u) \in SUBSET Existing(tx)
  BY RowsOfMember, OutgoingRows DEF WInv
<1>4. Outgoing(u)' \in SUBSET Existing(tx')
  BY DEF Outgoing, Existing
<1>5. \A id \in Existing(tx) : tx'[id].amount = tx[id].amount
  BY DEF RowsKept
<1>6. AmountOf(tx, EverReceived(u)) <= AmountOf(tx', EverReceived(u)')
  BY <1>1, <1>2, <1>3, <1>5, SumGrows
<1>7. AmountOf(tx', Outgoing(u)') <= AmountOf(tx, Outgoing(u))
  BY <1>1, <1>3, <1>5, SumShrinks
<1>8. /\ AmountOf(tx, EverReceived(u)) \in Nat
      /\ AmountOf(tx, Outgoing(u)) \in Nat
      /\ AmountOf(tx', EverReceived(u)') \in Nat
      /\ AmountOf(tx', Outgoing(u)') \in Nat
  BY <1>1, <1>2, <1>3, <1>4, SumOfRows
<1>9. QED
  BY <1>6, <1>7, <1>8, LedgerAssumption DEF SolventFor

\* A sufficient balance covers every row of the member, settled or pending.
LEMMA BalanceCovers ==
  ASSUME WInv, NEW u, ~(HKDBalance(tx, u) < 0), NEW out,
         out \in SUBSET Committed(tx, u)
  PROVE  AmountOf(tx, EverReceived(u)) - AmountOf(tx, out) > -Unit
<1>1. tx \in Table /\ IsFiniteSet(Existing(tx))
  BY DEF WInv, IInv, TypeOK, HoldersOK
<1>2. /\ EverReceived(u) \in SUBSET Existing(tx)
      /\ Received(tx, u) \in SUBSET EverReceived(u)
      /\ Committed(tx, u) \in SUBSET Existing(tx)
  BY RowsOfMember DEF WInv
<1>3. /\ AmountOf(tx, out) <= AmountOf(tx, Committed(tx, u))
      /\ AmountOf(tx, Received(tx, u)) <= AmountOf(tx, EverReceived(u))
  BY <1>1, <1>2, SumShrinks
<1>4. /\ AmountOf(tx, out) \in Nat
      /\ AmountOf(tx, Committed(tx, u)) \in Nat
      /\ AmountOf(tx, Received(tx, u)) \in Nat
      /\ AmountOf(tx, EverReceived(u)) \in Nat
  BY <1>1, <1>2, SumOfRows
<1>5. AmountOf(tx, Received(tx, u)) - AmountOf(tx, Committed(tx, u)) > -Unit
  BY <1>4, DollarsHide DEF HKDBalance
<1>6. QED
  BY <1>3, <1>4, <1>5, LedgerAssumption

LEMMA InitSolvent == WalletInit => Solvent
<1> SUFFICES ASSUME WalletInit, NEW u \in User PROVE SolventFor(u)
  BY DEF Solvent
<1>1. EverReceived(u) = Received(Opening, u)
  BY DEF WalletInit, Init, EverReceived
<1>2. \A id \in TxId : MayLeave(id) => tx[id].state = "succeeded"
  BY DEF WalletInit, Init, P!Init, MayLeave, BalanceFound, PayerFound, Resting,
         P!Resting, P!Handler, P!Paid
<1>3. Outgoing(u) = Settled(Opening, u)
  BY <1>2 DEF WalletInit, Init, P!Init, Outgoing, Settled
<1>4. QED
  BY <1>1, <1>3, OpeningAssumption DEF SolventFor, WalletInit, Init

\* What is on its way out: settled in time, or free to go.
Going(id) ==
  /\ tx[id].state = "succeeded" \/ (tx[id].state = "pending" /\ MayLeave(id))
  /\ id \notin history.late \cup late

\* The steps that take no credit away unrecorded and set nothing going.
NothingLost ==
  /\ history.undone \subseteq history'.undone
  /\ \A id \in Existing(tx) :
       tx[id].state = "succeeded" /\ tx[id].recipient \in User =>
         tx'[id].state = "succeeded" \/ id \in history'.undone

NothingSetGoing == \A id \in TxId : Going(id)' => Going(id)

LEMMA QuietStepKeepsSolvent ==
  ASSUME WInv, WInv', Solvent, RowsKept, NothingLost, NothingSetGoing
  PROVE  Solvent'
<1> SUFFICES ASSUME NEW u \in User PROVE SolventFor(u)'
  BY DEF Solvent
<1>1. EverReceived(u) \subseteq EverReceived(u)'
  <2> SUFFICES ASSUME NEW i \in EverReceived(u) PROVE i \in EverReceived(u)'
    OBVIOUS
  <2>1. i \in Existing(tx) /\ i \in TxId
    BY RowsOfMember DEF WInv, Existing
  <2>2. tx'[i].recipient = u /\ tx'[i].currency = tx[i].currency /\ tx[i].recipient = u
    BY <2>1 DEF EverReceived, Received, RowsKept
  <2>3. QED
    BY <2>1, <2>2 DEF EverReceived, Received, NothingLost
<1>2. Outgoing(u)' \subseteq Outgoing(u)
  <2> SUFFICES ASSUME NEW i \in Outgoing(u)' PROVE i \in Outgoing(u)
    OBVIOUS
  <2>1. i \in TxId /\ Going(i)'
    BY DEF Outgoing, Going
  <2>2. Going(i)
    BY <2>1 DEF NothingSetGoing
  <2>3. i \in Existing(tx)
    BY <2>1, <2>2 DEF Going, Existing
  <2>4. tx'[i].sender = tx[i].sender /\ tx'[i].currency = tx[i].currency
    BY <2>3 DEF RowsKept
  <2>5. QED
    BY <2>1, <2>2, <2>4 DEF Outgoing, Going
<1>3. QED
  BY <1>1, <1>2, StaysSolvent DEF Solvent

\* A new row is pending under an id that nobody holds.
LEMMA InsertIsQuiet ==
  ASSUME WInv, NEW id \in TxId, Inserted(id),
         UNCHANGED <<worker, history, payer, transfers, late>>
  PROVE  NothingLost /\ NothingSetGoing
<1>1. PICK row \in Tx : row.state = "pending" /\ tx' = [tx EXCEPT ![id] = row]
  BY DEF Inserted, Insert
<1>2. tx[id].state = "none" /\ tx'[id].state = "pending"
      /\ \A other \in TxId \ {id} : tx'[other] = tx[other]
  BY <1>1 DEF Inserted, WInv, IInv, TypeOK, Table
<1>3. \A i : MayLeave(i)' = MayLeave(i)
  BY DEF MayLeave, BalanceFound, PayerFound
<1>4. ~MayLeave(id)
  BY <1>2, LeavingIsThere DEF Existing
<1>5. NothingLost
  BY <1>2 DEF NothingLost, Existing
<1>6. NothingSetGoing
  BY <1>2, <1>3, <1>4 DEF NothingSetGoing, Going
<1>7. QED
  BY <1>5, <1>6

\* A row is marked: if it was succeeded and is no more, that is recorded or
\* was nobody's credit; if it is succeeded now, it was going already.
LEMMA MarkIsQuiet ==
  ASSUME WInv, NEW id \in TxId, NEW s \in {"succeeded", "failed", "canceled"},
         Marked(id, s),
         \A i \in TxId : MayLeave(i)' => MayLeave(i),
         history.undone \subseteq history'.undone,
         history.late \subseteq history'.late, late \subseteq late',
         \/ s = "succeeded"
         \/ tx[id].recipient \notin User
         \/ tx[id].state = "succeeded" => id \in history'.undone,
         s = "succeeded" => \/ tx[id].state = "succeeded"
                            \/ tx[id].state = "pending" /\ MayLeave(id)
                            \/ id \in history'.late \cup late'
  PROVE  NothingLost /\ NothingSetGoing
<1>1. /\ \A other \in TxId \ {id} : tx'[other] = tx[other]
      /\ tx'[id].state = s
  BY DEF Marked, MarkState, WInv, IInv, TypeOK, Table, Tx
<1>2. NothingLost
  BY <1>1 DEF NothingLost, Existing
<1>3. ASSUME NEW i \in TxId, Going(i)'
      PROVE  Going(i)
  <2>1. i \notin history'.late \cup late' /\ i \notin history.late \cup late
    BY <1>3 DEF Going
  <2>2. CASE i = id
    <3>1. s = "succeeded"
      BY <1>1, <1>3, <2>2 DEF Going
    <3>2. QED
      BY <2>1, <2>2, <3>1 DEF Going
  <2>3. CASE i # id
    BY <1>1, <1>3, <2>1, <2>3 DEF Going
  <2>4. QED
    BY <2>2, <2>3
<1>4. QED
  BY <1>2, <1>3 DEF NothingSetGoing

\* Nothing is marked, and nobody is more sure than before.
LEMMA IdleIsQuiet ==
  ASSUME UNCHANGED <<tx, late>>,
         history'.late = history.late, history'.undone = history.undone,
         \A i \in TxId : MayLeave(i)' => MayLeave(i)
  PROVE  NothingLost /\ NothingSetGoing
BY DEF NothingLost, NothingSetGoing, Going, Existing

\* What the donations' handlers and requests do.
LEMMA DonationIsQuiet ==
  ASSUME WInv, [Next]_vars, UNCHANGED payoutVars,
         \A w \in Worker : ~ReadBalance(w)
  PROVE  NothingLost /\ NothingSetGoing
<1> USE DEF WInv, IInv, TypeOK
<1>0. UNCHANGED <<payer, transfers, late>>
  BY DEF payoutVars
<1>a. \A i : PayerFound(i)' = PayerFound(i)
  BY <1>0 DEF PayerFound
<1>1. ASSUME NEW c \in Caller, InsertPending(c)
      PROVE  NothingLost /\ NothingSetGoing
  <2> DEFINE row == Row("donation", "pending", request[c].sender,
                        request[c].recipient, request[c].amount, today)
  <2>1. row \in Tx /\ row.state = "pending"
    BY DonationRowType DEF Row
  <2>2. PICK id \in TxId : Inserted(id)
    BY <1>1, <2>1 DEF InsertPending, Inserted
  <2>3. UNCHANGED <<worker, history>>
    BY <1>1 DEF InsertPending
  <2>4. QED
    BY <1>0, <2>2, <2>3, InsertIsQuiet
<1>2. ASSUME NEW c \in Caller, RequestStep(c), ~InsertPending(c)
      PROVE  NothingLost /\ NothingSetGoing
  <2>1. UNCHANGED <<tx, worker, history>>
    BY <1>2 DEF RequestStep, CheckBalance, PassLimit, RefuseLimit, Enqueue, LoseRequest
  <2>2. QED
    BY <1>0, <1>a, <2>1, IdleIsQuiet DEF MayLeave, BalanceFound
<1>3. ASSUME NEW w \in Worker,
             TakeJob(w) \/ ReadHasPaid(w) \/ Finish(w) \/ Redeliver(w) \/ GiveUp(w)
      PROVE  NothingLost /\ NothingSetGoing
  <2>1. /\ UNCHANGED tx
        /\ history'.late = history.late /\ history'.undone = history.undone
    BY <1>3 DEF TakeJob, ReadHasPaid, Finish, Redeliver, GiveUp, History
  <2>2. \A v \in Worker : worker'[v].pc = "reading" /\ worker'[v].balance = "ok" =>
                            /\ worker[v].pc = "reading" /\ worker[v].balance = "ok"
                            /\ worker'[v].id = worker[v].id
    BY <1>3 DEF TakeJob, ReadHasPaid, Finish, Redeliver, GiveUp, Job, Resting, WorkerState
  <2>3. \A i \in TxId : MayLeave(i)' => MayLeave(i)
    BY <1>0, <1>a, <2>2 DEF MayLeave, BalanceFound
  <2>4. QED
    BY <1>0, <2>1, <2>3, IdleIsQuiet
<1>4. ASSUME NEW w \in Worker, Cancel(w) \/ Fail(w) \/ Settle(w)
      PROVE  NothingLost /\ NothingSetGoing
  <2>1. /\ worker[w].pc # "resting"
        /\ worker' = [worker EXCEPT ![w] = Resting]
           \/ worker' = [worker EXCEPT ![w].pc = "settled"]
    BY <1>4 DEF Cancel, Fail, Settle, Decided
  <2>2. worker[w].id \in Existing(tx) /\ worker[w].id \in TxId
    BY <2>1 DEF HoldersOK, Existing
  <2>3. \A i \in TxId : MayLeave(i)' => MayLeave(i)
    BY <1>0, <1>a, <2>1 DEF MayLeave, BalanceFound, Resting, WorkerState
  <2>4. CASE Cancel(w) \/ Fail(w)
    <3>1. PICK s \in {"canceled", "failed"} : Marked(worker[w].id, s)
      BY <2>2, <2>4 DEF Cancel, Fail, Marked
    <3>2. /\ history.undone \subseteq history'.undone /\ history'.late = history.late
          /\ tx[worker[w].id].state = "succeeded" => worker[w].id \in history'.undone
      BY <2>4 DEF Cancel, Fail, NoteUndone, History
    <3>3. QED
      BY <1>0, <2>2, <2>3, <3>1, <3>2, MarkIsQuiet
  <2>5. CASE Settle(w)
    <3>1. Marked(worker[w].id, "succeeded")
      BY <2>2, <2>5 DEF Settle, Marked
    <3>2. /\ history.late \subseteq history'.late
          /\ history'.undone = history.undone
          /\ tx[worker[w].id].state \in {"pending", "succeeded"}
             \/ worker[w].id \in history'.late
      BY <2>5 DEF Settle, History
    <3>3. worker[w].pc = "reading" /\ worker[w].balance = "ok"
      BY <2>5 DEF Settle, Decided, Refused, WorkerState, Verdict
    <3>4. MayLeave(worker[w].id)
      BY <3>3 DEF MayLeave, BalanceFound
    <3>5. QED
      BY <1>0, <2>2, <2>3, <3>1, <3>2, <3>4, MarkIsQuiet
  <2>6. QED
    BY <1>4, <2>4, <2>5
<1>5. CASE CancelTimeoutTransactions
  <2>1. /\ UNCHANGED <<worker, history>>
        /\ \A id \in TxId : \/ tx'[id] = tx[id]
                            \/ /\ tx[id].state = "pending"
                               /\ tx'[id] = [tx[id] EXCEPT !.state = "canceled"]
    BY <1>5, TimerMarks
  <2>2. \A id \in TxId : \/ tx'[id].state = tx[id].state
                         \/ tx[id].state = "pending" /\ tx'[id].state = "canceled"
    <3> SUFFICES ASSUME NEW id \in TxId
                 PROVE  \/ tx'[id].state = tx[id].state
                        \/ tx[id].state = "pending" /\ tx'[id].state = "canceled"
      OBVIOUS
    <3>1. tx[id] \in Tx
      BY DEF Table
    <3>2. CASE tx'[id] = tx[id]
      BY <3>2
    <3>3. CASE tx[id].state = "pending" /\ tx'[id] = [tx[id] EXCEPT !.state = "canceled"]
      BY <3>1, <3>3 DEF Tx
    <3>4. QED
      BY <2>1, <3>2, <3>3
  <2>3. \A i \in TxId : MayLeave(i)' = MayLeave(i)
    BY <1>0, <1>a, <2>1 DEF MayLeave, BalanceFound
  <2>4. QED
    BY <1>0, <2>1, <2>2, <2>3 DEF NothingLost, NothingSetGoing, Going, Existing
<1>6. CASE NextDay \/ UNCHANGED vars
  <2>1. UNCHANGED <<tx, worker, history>>
    BY <1>6 DEF NextDay, vars
  <2>2. QED
    BY <1>0, <1>a, <2>1, IdleIsQuiet DEF MayLeave, BalanceFound
<1>7. QED
  BY <1>1, <1>2, <1>3, <1>4, <1>5, <1>6 DEF Next, HandlerStep

\* What the payouts' handlers and requests do.
LEMMA PayoutIsQuiet ==
  ASSUME WInv, P!Next, UNCHANGED donationVars,
         \A w \in Worker : P!Check(w) => payer'[w].balance = payer[w].balance
  PROVE  NothingLost /\ NothingSetGoing
<1> USE DEF WInv, IInv, TypeOK
<1>0. UNCHANGED <<worker, history>>
  BY DEF donationVars
<1>1. \A i : BalanceFound(i)' = BalanceFound(i)
  BY <1>0 DEF BalanceFound
<1>2. ASSUME NEW c \in Caller, P!Reserve(c)
      PROVE  NothingLost /\ NothingSetGoing
  <2>1. PICK id \in TxId : Inserted(id)
    BY <1>2, ReserveInserts
  <2>2. UNCHANGED <<payer, transfers, late>>
    BY <1>2 DEF P!Reserve
  <2>3. QED
    BY <1>0, <2>1, <2>2, InsertIsQuiet
<1>3. ASSUME NEW c \in Caller, P!RequestStep(c), ~P!Reserve(c)
      PROVE  NothingLost /\ NothingSetGoing
  <2>1. UNCHANGED <<tx, payer, transfers, late>>
    BY <1>3 DEF P!RequestStep, P!Ask, P!ReadBalance, P!ReadPending, P!Drop, P!Enqueue
  <2>2. QED
    BY <1>0, <1>1, <2>1, IdleIsQuiet DEF MayLeave, PayerFound
<1>4. ASSUME NEW w \in Worker,
             \/ P!TakeJob(w) \/ P!Check(w) \/ P!Finish(w)
             \/ P!Redeliver(w) \/ P!GiveUp(w)
      PROVE  NothingLost /\ NothingSetGoing
  <2>1. UNCHANGED <<tx, transfers, late>>
    BY <1>4 DEF P!TakeJob, P!Check, P!Finish, P!Redeliver, P!GiveUp
  <2>2. \A v \in Worker : payer'[v].pc = "reading" /\ payer'[v].balance = "ok" =>
                            /\ payer[v].pc = "reading" /\ payer[v].balance = "ok"
                            /\ payer'[v].id = payer[v].id
    <3>1. CASE P!Check(w)
      <4>1. payer'[w].balance = payer[w].balance
        BY <3>1
      <4>2. payer[w] \in P!WorkerState /\ payer \in [Worker -> P!WorkerState]
        BY DEF PayoutsOK
      <4>3. \E x : \/ payer' = [payer EXCEPT ![w].balance = x]
                  \/ payer' = [payer EXCEPT ![w].account = x]
                  \/ payer' = [payer EXCEPT ![w].pending = x]
        BY <3>1 DEF P!Check
      <4>4. QED
        BY <4>1, <4>2, <4>3 DEF P!WorkerState
    <3>2. CASE \/ P!TakeJob(w) \/ P!Finish(w) \/ P!Redeliver(w) \/ P!GiveUp(w)
      BY <3>2 DEF P!TakeJob, P!Finish, P!Redeliver, P!GiveUp, P!Handler,
                  P!Resting, PayoutsOK, P!WorkerState
    <3>3. QED
      BY <1>4, <3>1, <3>2
  <2>3. \A i \in TxId : MayLeave(i)' => MayLeave(i)
    BY <1>1, <2>1, <2>2 DEF MayLeave, PayerFound
  <2>4. QED
    BY <1>0, <2>1, <2>3, IdleIsQuiet
<1>5. ASSUME NEW w \in Worker, P!Transfer(w)
      PROVE  NothingLost /\ NothingSetGoing
  <2>1. UNCHANGED <<tx, late>>
    BY <1>5 DEF P!Transfer
  <2>2. /\ payer[w] \in P!WorkerState /\ payer \in [Worker -> P!WorkerState]
        /\ transfers \in [TxId -> Nat]
    BY DEF PayoutsOK
  <2>3. PayerFound(payer[w].id)
    BY <1>5 DEF P!Transfer, P!Verdicts, PayerFound
  <2>4. \A i \in TxId : transfers'[i] > 0 => transfers[i] > 0 \/ i = payer[w].id
    BY <1>5, <2>2 DEF P!Transfer
  <2>5. \A v \in Worker : payer'[v].pc = "reading" => payer'[v] = payer[v]
    BY <1>5, <2>2 DEF P!Transfer, P!WorkerState
  <2>6. \A i \in TxId : MayLeave(i)' => MayLeave(i)
    BY <1>1, <2>3, <2>4, <2>5 DEF MayLeave, PayerFound
  <2>7. QED
    BY <1>0, <2>1, <2>6, IdleIsQuiet
<1>6. ASSUME NEW w \in Worker, P!Cancel(w) \/ P!Fail(w) \/ P!Record(w)
      PROVE  NothingLost /\ NothingSetGoing
  <2> DEFINE id == payer[w].id
  <2>1. payer[w].pc # "resting" /\ UNCHANGED transfers
    BY <1>6 DEF P!Cancel, P!Fail, P!Record
  <2>2. id \in Existing(tx) /\ id \in TxId /\ tx[id].recipient \notin User
    BY <2>1, LedgerAssumption DEF PayoutsOK, PayoutRow, Existing
  <2>3. \A v \in Worker : payer'[v].pc = "reading" => payer'[v] = payer[v]
    BY <1>6 DEF P!Cancel, P!Fail, P!Record, P!Resting, P!Handler, PayoutsOK, P!WorkerState
  <2>4. \A i \in TxId : MayLeave(i)' => MayLeave(i)
    BY <1>1, <2>1, <2>3 DEF MayLeave, PayerFound
  <2>5. CASE P!Cancel(w) \/ P!Fail(w)
    <3>1. PICK s \in {"canceled", "failed"} : Marked(id, s)
      BY <2>2, <2>5 DEF P!Cancel, P!Fail, P!MarkState, MarkState, Marked
    <3>2. UNCHANGED late
      BY <2>5 DEF P!Cancel, P!Fail
    <3>3. QED
      BY <1>0, <2>2, <2>4, <3>1, <3>2, MarkIsQuiet
  <2>6. CASE P!Record(w)
    <3>1. Marked(id, "succeeded")
      BY <2>2, <2>6 DEF P!Record, P!MarkState, MarkState, Marked
    <3>2. tx[id].state \in TxState \ {"none"}
      BY <2>2 DEF Existing, Table, Tx
    <3>3. late \subseteq late' /\ (tx[id].state \in {"failed", "canceled"} => id \in late')
      BY <2>6 DEF P!Record
    <3>4. transfers[id] > 0
      BY <2>6 DEF P!Record, PayoutsOK
    <3>5. MayLeave(id)
      BY <3>4 DEF MayLeave
    <3>6. \/ tx[id].state = "succeeded"
          \/ tx[id].state = "pending" /\ MayLeave(id)
          \/ id \in history'.late \cup late'
      BY <3>2, <3>3, <3>5 DEF TxState
    <3>7. QED
      BY <1>0, <2>2, <2>4, <3>1, <3>3, <3>6, MarkIsQuiet
  <2>7. QED
    BY <1>6, <2>5, <2>6
<1>7. ASSUME NEW u \in User, P!UpdateAccount(u)
      PROVE  NothingLost /\ NothingSetGoing
  <2>1. UNCHANGED <<tx, payer, transfers, late>>
    BY <1>7 DEF P!UpdateAccount
  <2>2. QED
    BY <1>0, <1>1, <2>1, IdleIsQuiet DEF MayLeave, PayerFound
<1>8. QED
  BY <1>2, <1>3, <1>4, <1>5, <1>6, <1>7 DEF P!Next, P!HandlerStep

\* A handler of either queue reads the balance: only its own row may leave
\* from now on, and only if the balance covers it.
LEMMA VerdictKeepsSolvent ==
  ASSUME WInv, WInv', Solvent, NEW id \in TxId,
         UNCHANGED <<tx, history, late>>,
         \A i \in TxId : i # id /\ MayLeave(i)' => MayLeave(i),
         ~(HKDBalance(tx, tx[id].sender) < 0) \/ (MayLeave(id)' => MayLeave(id))
  PROVE  Solvent'
<1> SUFFICES ASSUME NEW u \in User PROVE SolventFor(u)'
  BY DEF Solvent
<1>1. EverReceived(u)' = EverReceived(u)
  BY DEF EverReceived
<1>2. RowsKept
  BY DEF RowsKept, Existing
<1>3. CASE tx[id].sender = u /\ ~(HKDBalance(tx, u) < 0)
  <2>1. PICK out : out = Outgoing(u)'
    OBVIOUS
  <2>2. out \in SUBSET Committed(tx, u)
    BY <2>1 DEF Outgoing, Committed
  <2>3. AmountOf(tx, EverReceived(u)) - AmountOf(tx, out) > -Unit
    BY <1>3, <2>2, BalanceCovers
  <2>4. QED
    BY <1>1, <2>1, <2>3 DEF SolventFor
<1>4. CASE ~(tx[id].sender = u /\ ~(HKDBalance(tx, u) < 0))
  <2>1. Outgoing(u)' \subseteq Outgoing(u)
    BY <1>4 DEF Outgoing
  <2>2. QED
    BY <1>1, <1>2, <2>1, StaysSolvent DEF Solvent
<1>5. QED
  BY <1>3, <1>4

LEMMA DonationReadKeepsSolvent ==
  ASSUME WInv, WInv', Solvent, NEW w \in Worker, ReadBalance(w), UNCHANGED payoutVars
  PROVE  Solvent'
<1>0. PICK id : id = worker[w].id
  OBVIOUS
<1>1. id \in TxId /\ worker \in [Worker -> WorkerState]
  BY <1>0 DEF WInv, IInv, TypeOK, HoldersOK, ReadBalance, Existing
<1>2. UNCHANGED <<tx, history, late, payer, transfers>>
  BY DEF ReadBalance, payoutVars
<1>3. \A v \in Worker : v # w => worker'[v] = worker[v]
  BY <1>1 DEF ReadBalance
<1>4. worker'[w].id = id
  BY <1>0, <1>1 DEF ReadBalance, WorkerState
<1>5. \A i \in TxId : i # id /\ MayLeave(i)' => MayLeave(i)
  BY <1>2, <1>3, <1>4 DEF MayLeave, BalanceFound, PayerFound
<1>6. CASE HKDBalance(tx, tx[id].sender) < 0
  <2>1. worker'[w].balance = "refused"
    BY <1>0, <1>1, <1>6 DEF ReadBalance, WorkerState
  <2>2. MayLeave(id)' => MayLeave(id)
    BY <1>2, <1>3, <2>1 DEF MayLeave, BalanceFound, PayerFound
  <2>3. QED
    BY <1>1, <1>2, <1>5, <2>2, VerdictKeepsSolvent
<1>7. CASE ~(HKDBalance(tx, tx[id].sender) < 0)
  BY <1>1, <1>2, <1>5, <1>7, VerdictKeepsSolvent
<1>8. QED
  BY <1>6, <1>7

LEMMA PayoutReadKeepsSolvent ==
  ASSUME WInv, WInv', Solvent, NEW w \in Worker, P!Check(w), UNCHANGED donationVars,
         payer'[w].balance # payer[w].balance
  PROVE  Solvent'
<1>0. PICK id : id = payer[w].id
  OBVIOUS
<1>1. id \in TxId /\ payer \in [Worker -> P!WorkerState]
  BY <1>0 DEF WInv, PayoutsOK, PayoutRow, P!Check, Existing
<1>2. UNCHANGED <<tx, history, late, worker, transfers>>
  BY DEF P!Check, donationVars
<1>3. payer' = [payer EXCEPT ![w].balance = P!Judge(P!HKDBalance(tx, tx[id].sender) < 0)]
  BY <1>0, <1>1 DEF P!Check, P!WorkerState
<1>4. P!HKDBalance(tx, tx[id].sender) = HKDBalance(tx, tx[id].sender)
  BY DEF P!HKDBalance, HKDBalance, P!Dollars, Dollars, P!AmountOf, AmountOf,
         P!MapThenSumSet, MapThenSumSet, P!MapThenFoldSet, MapThenFoldSet,
         P!Received, Received, P!Committed, Committed
<1>5. \A v \in Worker : v # w => payer'[v] = payer[v]
  BY <1>1, <1>3
<1>6. payer'[w].id = id
  BY <1>0, <1>1, <1>3 DEF P!WorkerState
<1>7. \A i \in TxId : i # id /\ MayLeave(i)' => MayLeave(i)
  BY <1>2, <1>5, <1>6 DEF MayLeave, BalanceFound, PayerFound
<1>8. CASE HKDBalance(tx, tx[id].sender) < 0
  <2>1. payer'[w].balance = "refused"
    BY <1>1, <1>3, <1>4, <1>8 DEF P!Judge, P!WorkerState
  <2>2. MayLeave(id)' => MayLeave(id)
    BY <1>2, <1>5, <2>1 DEF MayLeave, BalanceFound, PayerFound
  <2>3. QED
    BY <1>1, <1>2, <1>7, <2>2, VerdictKeepsSolvent
<1>9. CASE ~(HKDBalance(tx, tx[id].sender) < 0)
  BY <1>1, <1>2, <1>7, <1>9, VerdictKeepsSolvent
<1>10. QED
  BY <1>8, <1>9

LEMMA NextKeepsSolvent ==
  ASSUME WInv, WInv', Solvent, [WalletNext]_walletVars
  PROVE  Solvent'
<1>1. RowsKept
  BY WalletTableStep, TableStepKeepsRows DEF WInv
<1>2. CASE Next /\ UNCHANGED payoutVars
  <2>1. CASE \E w \in Worker : ReadBalance(w)
    BY <1>2, <2>1, DonationReadKeepsSolvent
  <2>2. CASE \A w \in Worker : ~ReadBalance(w)
    BY <1>1, <1>2, <2>2, DonationIsQuiet, QuietStepKeepsSolvent
  <2>3. QED
    BY <2>1, <2>2
<1>3. CASE P!Next /\ UNCHANGED donationVars
  <2>1. CASE \E w \in Worker : P!Check(w) /\ payer'[w].balance # payer[w].balance
    BY <1>3, <2>1, PayoutReadKeepsSolvent
  <2>2. CASE \A w \in Worker : P!Check(w) => payer'[w].balance = payer[w].balance
    BY <1>1, <1>3, <2>2, PayoutIsQuiet, QuietStepKeepsSolvent
  <2>3. QED
    BY <2>1, <2>2
<1>4. CASE UNCHANGED walletVars
  <2>1. UNCHANGED vars /\ UNCHANGED payoutVars
    BY <1>4 DEF walletVars, donationVars, vars
  <2>2. \A w \in Worker : ~ReadBalance(w)
    BY <2>1 DEF ReadBalance, vars, WInv, IInv, TypeOK, WorkerState
  <2>3. QED
    BY <1>1, <2>1, <2>2, DonationIsQuiet, QuietStepKeepsSolvent
<1>5. QED
  BY <1>2, <1>3, <1>4 DEF WalletNext

\* No interleaving of the two queues, however often jobs are handed out again,
\* lets a member spend a dollar more than ever received: calculateHKDBalance
\* counts the pending rows of both (connectors/paymentService.ts:600-623), and
\* each handler reads it after its own row was inserted.
THEOREM NeverOverdrawn == WalletSpec => []WalletNeverOverdrawn
<1>1. ASSUME WInv, Solvent, NEW u \in User
      PROVE  AmountOf(tx, EverReceived(u)) - AmountOf(tx, Spent(u)) > -Unit
  <2>1. tx \in Table /\ IsFiniteSet(Existing(tx))
    BY <1>1 DEF WInv, IInv, TypeOK, HoldersOK
  <2>2. /\ Spent(u) \in SUBSET Outgoing(u)
        /\ Outgoing(u) \in SUBSET Existing(tx)
        /\ EverReceived(u) \in SUBSET Existing(tx)
    BY <1>1, OutgoingRows, RowsOfMember DEF WInv
  <2>3. AmountOf(tx, Spent(u)) <= AmountOf(tx, Outgoing(u))
    BY <2>1, <2>2, SumShrinks
  <2>4. /\ AmountOf(tx, Spent(u)) \in Nat
        /\ AmountOf(tx, Outgoing(u)) \in Nat
        /\ AmountOf(tx, EverReceived(u)) \in Nat
    BY <2>1, <2>2, SumOfRows
  <2>5. SolventFor(u)
    BY <1>1 DEF Solvent
  <2>6. QED
    BY <2>3, <2>4, <2>5, LedgerAssumption DEF SolventFor
<1>2. WInv /\ Solvent => WalletNeverOverdrawn
  BY <1>1 DEF WalletNeverOverdrawn
<1>3. WalletInit => WInv /\ Solvent
  BY InitWInv, InitSolvent
<1>4. (WInv /\ Solvent) /\ [WalletNext]_walletVars => (WInv /\ Solvent)'
  BY NextKeepsWInv, NextKeepsSolvent
<1>5. QED
  BY <1>2, <1>3, <1>4, PTL DEF WalletSpec
=============================================================================
