------------------------------- MODULE MCPayTo -------------------------------
(* u1 has a dollar left: of what u2 donated today, half a dollar was cashed  *)
(* out.  u2 has one and a half left and is half a dollar below the limit of  *)
(* today, which parseInt takes for a dollar.                                 *)
EXTENDS PayTo, TLC

CONSTANTS u1, u2, credit, gift, cash

MCOpening ==
  [id \in TxId |->
     CASE id = credit -> Row("addCredit", "succeeded", NoUser, u2, 6, 0)
       [] id = gift   -> Row("donation", "succeeded", u2, u1, 3, 0)
       [] id = cash   -> Row("payout", "succeeded", u1, NoUser, 1, 0)
       [] OTHER       -> NoRow]

MCAmount == {2}

MCSymmetry == Permutations(TxId \ {credit, gift, cash}) \cup Permutations(Caller)
=============================================================================
