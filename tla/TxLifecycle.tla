----------------------------- MODULE TxLifecycle -----------------------------
(***************************************************************************)
(* What the rest of the server may rely on about a transaction, whichever  *)
(* queue settles it: it is opened once, its terms (who pays whom, how      *)
(* much, what for) never change, it is paid or dropped, it may still       *)
(* change between the two, and it is never open again.                     *)
(***************************************************************************)
CONSTANTS TxId, Terms

VARIABLES status,   \* TxId -> "none", "open", "paid", "dropped"
          terms     \* TxId -> what was agreed

Open(id) ==
  /\ status[id] = "none"
  /\ status' = [status EXCEPT ![id] = "open"]
  /\ terms' \in [TxId -> Terms]
  /\ \A other \in TxId \ {id} : terms'[other] = terms[other]

Pay(id) ==
  /\ status[id] # "none"
  /\ status' = [status EXCEPT ![id] = "paid"]
  /\ UNCHANGED terms

\* Also of many at once, and of some that were paid.
Drop(ids) ==
  /\ \A id \in ids : status[id] # "none"
  /\ status' = [id \in TxId |-> IF id \in ids THEN "dropped" ELSE status[id]]
  /\ UNCHANGED terms

Init ==
  /\ status \in [TxId -> {"none", "open", "paid", "dropped"}]
  /\ terms \in [TxId -> Terms]

Next == \/ \E id \in TxId : Open(id) \/ Pay(id)
        \/ \E ids \in SUBSET TxId : Drop(ids)

Spec == Init /\ [][Next]_<<status, terms>>
=============================================================================
